----------------------------- MODULE MCExecutor -----------------------------
(***************************************************************************)
(* An instance of Executor for TLC: two users with two nonces each, one    *)
(* token, a router to it, a router deployed on itself, and a governance    *)
(* contract over the token.  All transactions are bounded by the nonces:   *)
(* each executed transaction uses one up.                                  *)
(***************************************************************************)
EXTENDS Executor, TLC

CONSTANTS alice, bob, token, router, loop, gov, none

MCUsers == {alice, bob}
MCTokens == {token}
MCRouters == {router, loop}
MCGovernances == {gov}
MCRouterToken == (router :> token) @@ (loop :> loop)
MCGoverned == gov :> token
MCAdmin == gov :> alice
MCGenesisBalances ==
    token :> [p \in {alice, bob, token, router, loop, gov} |->
                 CASE p = alice -> 2 [] p = bob -> 1 [] OTHER -> 0]

Plain == [valid_until_height |-> none, authentic |-> TRUE, budget |-> 100,
          owner |-> alice, spender |-> bob, to |-> bob, amount |-> 1,
          certified |-> TRUE, certificate_nonce |-> "c"]

Call(sender, nonce, target, method) ==
    [sender |-> sender, nonce |-> nonce, target |-> target, method |-> method]
        @@ Plain

(* The calls whose amounts and parties the properties tell apart.          *)
Calls(sender, nonce) ==
    {[Call(sender, nonce, token, "Transfer") EXCEPT !.to = bob, !.amount = a] :
        a \in {1, 2}}
    \cup
    {[Call(sender, nonce, token, "Approve") EXCEPT !.spender = s, !.amount = 2] :
        s \in {bob, router}}
    \cup
    {[Call(sender, nonce, token, "TransferFrom") EXCEPT !.to = bob, !.amount = a] :
        a \in {1, 2}}
    \cup
    {[Call(sender, nonce, router, "RouteTransferFrom")
         EXCEPT !.owner = o, !.to = alice, !.amount = 1] : o \in {alice, bob}}
    \cup
    {Call(sender, nonce, gov, m) : m \in GovernanceMethods}

(* A router deployed on itself, permits with a good and a bad certificate, *)
(* and envelopes that fail the checks of apply_transaction: a signature, an*)
(* expiry height, and budgets on both sides of what a transfer costs.      *)
Others(nonce) ==
    LET tx == Call(alice, nonce, token, "Transfer")
    IN  {Call(alice, nonce, loop, "RouteTransferFrom")}
        \cup {[Call(bob, nonce, token, "Permit") EXCEPT !.certified = ok] :
                  ok \in BOOLEAN}
        \cup {[tx EXCEPT !.authentic = FALSE], [tx EXCEPT !.valid_until_height = 1],
               [tx EXCEPT !.budget = 35], [tx EXCEPT !.budget = 36]}

MCTransactions ==
    UNION {Calls(u, n) \cup Others(n) : u \in MCUsers, n \in {0, 1}}

=============================================================================
