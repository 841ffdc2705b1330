------------------------------ MODULE Executor ------------------------------
(***************************************************************************)
(* The deterministic transaction executor of detta-core: DeTTaState with   *)
(* apply_transaction and execute_call, the token, router and governance    *)
(* (pause) contracts, the registry of allowances, nonces and permits.      *)
(*                                                                         *)
(* A call mutates the state in place and may fail half way.  A handler is  *)
(* therefore an operator from a working state w to an outcome: whether it  *)
(* succeeded, and the working state it leaves behind, dirty on an error.   *)
(* apply_transaction restores its checkpoint on an error.                  *)
(*                                                                         *)
(* Abstracted: a token contract holds one asset, so its id stands for both;*)
(* an event is counted, not stored; an allowance grant is always active    *)
(* and unrevoked, as no code path of the executor changes those flags.     *)
(* Left to Contracts: the contract families that hold tokens in custody    *)
(* and write the ledgers of native tokens directly.                        *)
(***************************************************************************)
EXTENDS Integers, FiniteSets, FiniteSetsExt

CONSTANTS
    Users,             \* externally owned accounts, the senders of transactions
    Tokens,            \* ContractKind::Token
    Routers,           \* ContractKind::Router
    Governances,       \* ContractKind::Governance
    RouterToken,       \* the token_contract each router was deployed with
    Governed,          \* the governed_contract of each governance contract
    Admin,             \* the holder of each GovernanceAdmin grant
    GenesisBalances,   \* the balances each token was deployed with
    Nonces,            \* transaction nonces
    CertificateNonces, \* the nonces inside permit certificates
    Transactions,      \* the transactions clients submit
    Heights,           \* block heights
    NoExpiry,          \* valid_until_height: None
    MaxAmount          \* u128::MAX

Contracts == Tokens \cup Routers \cup Governances
Principals == Users \cup Contracts

TokenMethods == {"Transfer", "Approve", "TransferFrom", "Permit"}
GovernanceMethods == {"PauseContract", "UnpauseContract"}
Methods == TokenMethods \cup GovernanceMethods \cup {"RouteTransferFrom"}

(* Every transaction carries the arguments of every method; a method reads  *)
(* its own.  authentic stands for the chain id matching and signature_ok,   *)
(* certified for a certificate whose text names this permit.                *)
TransactionType ==
    [sender: Users, nonce: Nonces, valid_until_height: Heights \cup {NoExpiry},
     authentic: BOOLEAN, budget: Nat, target: Contracts, method: Methods,
     owner: Principals, spender: Principals, to: Principals, amount: Nat,
     certified: BOOLEAN, certificate_nonce: CertificateNonces]

SumOver(f) == MapThenSumSet(LAMBDA p : f[p], DOMAIN f)

ASSUME ConstantsAssumption ==
    /\ Users \cap Contracts = {}
    /\ Tokens \cap Routers = {}
    /\ Governances \cap (Tokens \cup Routers) = {}
    /\ RouterToken \in [Routers -> Contracts]
    /\ Governed \in [Governances -> Contracts]
    /\ Admin \in [Governances -> Users]
    /\ Heights \subseteq Nat
    /\ NoExpiry \notin Heights
    /\ MaxAmount \in Nat
    /\ GenesisBalances \in [Tokens -> [Principals -> 0..MaxAmount]]
    /\ Transactions \subseteq TransactionType

(* deploy_token adds the initial balances with checked_add.                *)
ASSUME GenesisAssumption ==
    \A t \in Tokens : SumOver(GenesisBalances[t]) \in 0..MaxAmount

VARIABLES
    balances,                 \* storage: Balance(token, principal)
    supply,                   \* storage: TotalSupply(token)
    allowances,               \* registry: Allowance(token, owner, spender)
    used_certificate_nonces,
    paused_contracts,
    events,                   \* how many events were emitted
    used_nonces,              \* (sender, nonce) pairs
    height,                   \* the block the transactions are applied in
    receipt,                  \* the last receipt: status, sender and method
    executed,                 \* history: how often a (sender, nonce) executed
    permitted                 \* history: how often a certificate was accepted

rolledBack == <<balances, supply, allowances, used_certificate_nonces,
                paused_contracts, events>>
vars == <<rolledBack, used_nonces, height, receipt, executed, permitted>>

-----------------------------------------------------------------------------
(* The working state a call mutates, and outcomes.                         *)

Grant == [live: BOOLEAN, limit: Nat, spent: Nat]
NoGrant == [live |-> FALSE, limit |-> 0, spent |-> 0]
NewGrant(amount) == [live |-> TRUE, limit |-> amount, spent |-> 0]

WorkingState ==
    [bal: [Tokens -> [Principals -> Nat]], sup: [Tokens -> Nat],
     reg: [Tokens -> [Principals -> [Principals -> Grant]]],
     certs: SUBSET CertificateNonces, paused: SUBSET Contracts, evts: Nat]

Current == [bal |-> balances, sup |-> supply, reg |-> allowances,
            certs |-> used_certificate_nonces, paused |-> paused_contracts,
            evts |-> events]

Ok(w) == [ok |-> TRUE, w |-> w]
Err(w) == [ok |-> FALSE, w |-> w]
Emit(w) == [w EXCEPT !.evts = @ + 1]

-----------------------------------------------------------------------------
(* Token contract.                                                         *)

TokenInvariantsHold(w, t) == SumOver(w.bal[t]) = w.sup[t]

(* Both balances are read first; the recipient's is written last, over the *)
(* sender's when they are the same account.                                *)
MoveBalance(w, t, from, to, amount) ==
    [w EXCEPT !.bal[t] = [@ EXCEPT ![from] = w.bal[t][from] - amount,
                                   ![to] = w.bal[t][to] + amount]]

(* Mutants: the sender's balance is not checked; the post-condition is not. *)
DebitUncovered(w, t, from, to, amount) ==
    LET moved == MoveBalance(w, t, from, to, amount)
    IN  IF w.bal[t][to] + amount <= MaxAmount /\ TokenInvariantsHold(moved, t)
        THEN Ok(Emit(moved)) ELSE Err(w)

DebitUnchecked(w, t, from, to, amount) ==
    IF w.bal[t][from] < amount \/ w.bal[t][to] + amount > MaxAmount
    THEN Err(w)
    ELSE Ok(Emit(MoveBalance(w, t, from, to, amount)))

DebitAndCredit(w, t, from, to, amount) ==
    LET moved == MoveBalance(w, t, from, to, amount)
    IN  IF \/ w.bal[t][from] < amount
           \/ w.bal[t][to] + amount > MaxAmount
        THEN Err(w)
        ELSE IF TokenInvariantsHold(moved, t) THEN Ok(Emit(moved)) ELSE Err(moved)

SetAllowance(w, t, owner, spender, amount) ==
    [w EXCEPT !.reg[t][owner][spender] = NewGrant(amount)]

Remaining(grant) ==
    IF grant.spent > grant.limit THEN 0 ELSE grant.limit - grant.spent

(* Mutant: any live grant covers any amount.                               *)
CanSpendUnlimited(grant, amount) == grant.live

CanSpend(grant, amount) == grant.live /\ amount <= Remaining(grant)

ConsumeAllowance(w, t, owner, spender, amount) ==
    [w EXCEPT !.reg[t][owner][spender].spent = @ + amount]

Transfer(w, tx, msg_sender) ==
    DebitAndCredit(w, tx.target, msg_sender, tx.to, tx.amount)

Approve(w, tx, msg_sender) ==
    Ok(Emit(SetAllowance(w, tx.target, msg_sender, tx.spender, tx.amount)))

(* Mutant: the allowance is checked but not consumed.                      *)
TransferFromUncharged(w, tx, msg_sender) ==
    IF CanSpend(w.reg[tx.target][tx.owner][msg_sender], tx.amount)
    THEN DebitAndCredit(w, tx.target, tx.owner, tx.to, tx.amount)
    ELSE Err(w)

TransferFrom(w, tx, msg_sender) ==
    IF CanSpend(w.reg[tx.target][tx.owner][msg_sender], tx.amount)
    THEN DebitAndCredit(
             ConsumeAllowance(w, tx.target, tx.owner, msg_sender, tx.amount),
             tx.target, tx.owner, tx.to, tx.amount)
    ELSE Err(w)

(* Mutant: a certificate can be replayed.                                  *)
PermitReplayable(w, tx) ==
    IF tx.certified
    THEN Ok(Emit(SetAllowance(
             [w EXCEPT !.certs = @ \cup {tx.certificate_nonce}],
             tx.target, tx.owner, tx.spender, tx.amount)))
    ELSE Err(w)

Permit(w, tx) ==
    IF ~tx.certified \/ tx.certificate_nonce \in w.certs
    THEN Err(w)
    ELSE Ok(Emit(SetAllowance(
             [w EXCEPT !.certs = @ \cup {tx.certificate_nonce}],
             tx.target, tx.owner, tx.spender, tx.amount)))

TokenCall(w, tx, msg_sender) ==
    CASE tx.method = "Transfer"     -> Transfer(w, tx, msg_sender)
      [] tx.method = "Approve"      -> Approve(w, tx, msg_sender)
      [] tx.method = "TransferFrom" -> TransferFrom(w, tx, msg_sender)
      [] tx.method = "Permit"       -> Permit(w, tx)

-----------------------------------------------------------------------------
(* Calls: the checks before dispatch, governance, the router.              *)

Exports(contract, method) ==
    \/ contract \in Tokens /\ method \in TokenMethods
    \/ contract \in Routers /\ method = "RouteTransferFrom"
    \/ contract \in Governances /\ method \in GovernanceMethods

HasAuthority(contract, msg_sender) ==
    contract \in Governances => Admin[contract] = msg_sender

(* Mutant: only the target of the transaction is checked for a pause.      *)
CallAllowedPausedChild(w, contract, method, msg_sender, active) ==
    /\ contract \notin active
    /\ Exports(contract, method)
    /\ HasAuthority(contract, msg_sender)
    /\ active = {} => contract \notin w.paused

(* execute_call up to the dispatch; active is the set of contracts on the  *)
(* call stack, each of which is non-reentrant.                             *)
CallAllowed(w, contract, method, msg_sender, active) ==
    /\ contract \notin active
    /\ Exports(contract, method)
    /\ HasAuthority(contract, msg_sender)
    /\ contract \notin w.paused

PauseContract(w, tx) ==
    Ok(Emit([w EXCEPT !.paused = @ \cup {Governed[tx.target]}]))

UnpauseContract(w, tx) ==
    Ok(Emit([w EXCEPT !.paused = @ \ {Governed[tx.target]}]))

(* The child call runs with the router as its msg_sender, so it spends     *)
(* allowances granted to the router.                                       *)
RouteTransferFrom(w, tx) ==
    LET child == [tx EXCEPT !.target = RouterToken[tx.target],
                            !.method = "TransferFrom"]
    IN  IF CallAllowed(w, child.target, child.method, tx.target, {tx.target})
        THEN TokenCall(w, child, tx.target)
        ELSE Err(w)

ExecuteCall(w, tx) ==
    IF ~CallAllowed(w, tx.target, tx.method, tx.sender, {})
    THEN Err(w)
    ELSE CASE tx.target \in Tokens                 -> TokenCall(w, tx, tx.sender)
           [] tx.target \in Routers                -> RouteTransferFrom(w, tx)
           [] tx.method = "PauseContract"          -> PauseContract(w, tx)
           [] tx.method = "UnpauseContract"        -> UnpauseContract(w, tx)

-----------------------------------------------------------------------------
(* apply_transaction.                                                      *)

MethodResourceUnits(method) ==
    CASE method = "Transfer"          -> 20
      [] method = "Approve"           -> 18
      [] method = "TransferFrom"      -> 32
      [] method = "Permit"            -> 50
      [] method = "RouteTransferFrom" -> 55
      [] method \in GovernanceMethods -> 20

ArgumentCount(method) ==
    CASE method \in {"Transfer", "Approve"}               -> 3
      [] method \in {"TransferFrom", "RouteTransferFrom"} -> 4
      [] method = "Permit"                                -> 5
      [] method \in GovernanceMethods                     -> 0

TransactionResourceUnits(tx) ==
    10 + 2 * ArgumentCount(tx.method) + MethodResourceUnits(tx.method)

Expired(tx) ==
    tx.valid_until_height # NoExpiry /\ tx.valid_until_height < height

NonceKey(tx) == <<tx.sender, tx.nonce>>

(* Mutant: a used nonce is accepted again.                                 *)
AdmissibleReplayed(tx) == tx.authentic /\ ~Expired(tx)

Admissible(tx) ==
    /\ tx.authentic
    /\ ~Expired(tx)
    /\ NonceKey(tx) \notin used_nonces

Receipt(tx, status) ==
    [status |-> status, sender |-> tx.sender, method |-> tx.method]

(* Mutant: the registry is not part of the checkpoint.                     *)
RestoreAllButRegistry(w) == [Current EXCEPT !.reg = w.reg]

RestoreCheckpoint(w) == Current

Adopt(w) ==
    /\ balances' = w.bal
    /\ supply' = w.sup
    /\ allowances' = w.reg
    /\ used_certificate_nonces' = w.certs
    /\ paused_contracts' = w.paused
    /\ events' = w.evts

ConsumeNonce(tx) ==
    /\ used_nonces' = used_nonces \cup {NonceKey(tx)}
    /\ executed' = [executed EXCEPT ![NonceKey(tx)] = @ + 1]

RejectTransaction(tx) ==
    /\ ~Admissible(tx)
    /\ receipt' = Receipt(tx, "Rejected")
    /\ UNCHANGED <<rolledBack, used_nonces, height, executed, permitted>>

RunOutOfGas(tx) ==
    /\ Admissible(tx)
    /\ tx.budget < TransactionResourceUnits(tx)
    /\ ConsumeNonce(tx)
    /\ receipt' = Receipt(tx, "Reverted")
    /\ UNCHANGED <<rolledBack, height, permitted>>

CommitTransaction(tx) ==
    LET outcome == ExecuteCall(Current, tx)
    IN  /\ Admissible(tx)
        /\ tx.budget >= TransactionResourceUnits(tx)
        /\ outcome.ok
        /\ Adopt(outcome.w)
        /\ ConsumeNonce(tx)
        /\ receipt' = Receipt(tx, "Committed")
        /\ permitted' = IF tx.method = "Permit"
                        THEN [permitted EXCEPT ![tx.certificate_nonce] = @ + 1]
                        ELSE permitted
        /\ UNCHANGED height

RevertTransaction(tx) ==
    LET outcome == ExecuteCall(Current, tx)
    IN  /\ Admissible(tx)
        /\ tx.budget >= TransactionResourceUnits(tx)
        /\ ~outcome.ok
        /\ Adopt(RestoreCheckpoint(outcome.w))
        /\ ConsumeNonce(tx)
        /\ receipt' = Receipt(tx, "Reverted")
        /\ UNCHANGED <<height, permitted>>

(* apply_block sets the height to the header's before it applies the       *)
(* transactions; it does not compare it with the height it replaces.       *)
StartBlock(h) ==
    /\ height' = h
    /\ UNCHANGED <<rolledBack, used_nonces, receipt, executed, permitted>>

NoReceipt == [status |-> "None", sender |-> NoExpiry, method |-> "None"]

Init ==
    /\ balances = GenesisBalances
    /\ supply = [t \in Tokens |-> SumOver(GenesisBalances[t])]
    /\ allowances = [t \in Tokens |->
                        [o \in Principals |-> [s \in Principals |-> NoGrant]]]
    /\ used_certificate_nonces = {}
    /\ paused_contracts = {}
    /\ events = 0
    /\ used_nonces = {}
    /\ height \in Heights
    /\ receipt = NoReceipt
    /\ executed = [k \in Users \X Nonces |-> 0]
    /\ permitted = [c \in CertificateNonces |-> 0]

Next ==
    \/ \E tx \in Transactions :
          \/ RejectTransaction(tx)
          \/ RunOutOfGas(tx)
          \/ CommitTransaction(tx)
          \/ RevertTransaction(tx)
    \/ \E h \in Heights : StartBlock(h)

Spec == Init /\ [][Next]_vars

-----------------------------------------------------------------------------
(* Properties.                                                             *)

(* Every variable holds a value of the type DeTTaState declares for it.    *)
TypeOK ==
    /\ Current \in WorkingState
    /\ used_nonces \subseteq Users \X Nonces
    /\ height \in Heights
    /\ executed \in [Users \X Nonces -> Nat]
    /\ permitted \in [CertificateNonces -> Nat]

(* The declared invariant ContractInvariant::TokenSupplyMatchesBalances:   *)
(* after any sequence of direct, delegated and routed transfers, committed *)
(* or reverted, the balances of a token add up to its total supply.        *)
TokenSupplyMatchesBalances ==
    \A t \in Tokens : SumOver(balances[t]) = supply[t]

(* consume_allowance never lets the sum spent under one grant pass its     *)
(* limit, whether the spender calls directly or through a router, and a    *)
(* spend whose transfer fails is given back.                               *)
SpentWithinLimit ==
    \A t \in Tokens, o, s \in Principals :
        allowances[t][o][s].spent <= allowances[t][o][s].limit

(* apply_transaction executes (commits or reverts) at most one transaction *)
(* per sender and nonce, and a nonce counts as used exactly when one was   *)
(* executed: the nonce survives the rollback of its transaction.           *)
NonceExecutesOnce ==
    \A k \in Users \X Nonces : executed[k] = IF k \in used_nonces THEN 1 ELSE 0

(* permit accepts a certificate nonce at most once, and a rolled-back      *)
(* permit does not burn it.                                                *)
PermitAcceptedOnce ==
    \A c \in CertificateNonces :
        permitted[c] = IF c \in used_certificate_nonces THEN 1 ELSE 0

(* A transaction whose receipt is not Committed leaves storage, registry,  *)
(* certificate nonces, pauses and events as they were, although its calls  *)
(* may have written some of them before they failed.                       *)
RevertIsAtomic ==
    [][receipt'.status # "Committed" => UNCHANGED rolledBack]_vars

(* Some allowance of p in token t is charged for exactly what p loses.     *)
AllowanceCharged(t, p) ==
    \E s \in Principals :
        /\ allowances'[t][p][s].limit = allowances[t][p][s].limit
        /\ allowances'[t][p][s].spent - allowances[t][p][s].spent
             = balances[t][p] - balances'[t][p]

OnlyAuthorisedDebits ==
    \A t \in Tokens, p \in Principals :
        balances'[t][p] < balances[t][p] =>
            \/ receipt'.sender = p /\ receipt'.method = "Transfer"
            \/ AllowanceCharged(t, p)

PausedAllowancesKept == \A t \in Tokens \cap paused_contracts : allowances'[t] = allowances[t]

(* A principal's balance only falls in a transfer it sent itself, or when  *)
(* one of its allowances is charged for exactly the amount lost: transfer, *)
(* transfer_from and route_transfer_from move nothing else.                *)
DebitIsAuthorised == [][OnlyAuthorisedDebits]_vars

(* While a token is paused no allowance of it is granted, permitted or     *)
(* spent: execute_call refuses its methods as the target of a transaction  *)
(* and as the child call of a router, and nothing else writes allowances.  *)
(* Its balances are another matter: pools, vaults, staking contracts and   *)
(* bridges write the ledger of a native token without a call, paused or    *)
(* not (transfer_native_asset_balance, mint_native_asset_balance).  Those  *)
(* are in Contracts, whose PausedContractsStandStill says what a pause     *)
(* stops there.                                                            *)
PausedTokenSpendsNoAllowance == [][PausedAllowancesKept]_vars

=============================================================================
