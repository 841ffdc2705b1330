-------------------------- MODULE Executor_proofs ---------------------------
(***************************************************************************)
(* Proofs about Executor for every set of users, contracts and             *)
(* transactions.  A state invariant is proved of working states first: a   *)
(* call that succeeds leads from a good working state to a good one.  What *)
(* a failed call leaves behind is not constrained, it is rolled back.      *)
(***************************************************************************)
EXTENDS Executor, TLAPS

Conserved(w) == \A t \in Tokens : TokenInvariantsHold(w, t)

WithinLimit(w) ==
    \A t \in Tokens, o, s \in Principals :
        w.reg[t][o][s].spent <= w.reg[t][o][s].limit

Good(w) == w \in WorkingState /\ Conserved(w) /\ WithinLimit(w)

(* A call either fails or leads to a good working state.                   *)
Safe(outcome) == outcome.ok => Good(outcome.w)

-----------------------------------------------------------------------------
(* Emitting an event keeps a working state good.                           *)
LEMMA EmitGood ==
    ASSUME NEW w, Good(w)
    PROVE  Good(Emit(w))
<1>0. w \in WorkingState /\ w.evts + 1 \in Nat
  BY DEF Good, WorkingState
<1>1. Emit(w) \in WorkingState
  BY <1>0, Zenon DEF Emit, WorkingState
<1>2. Emit(w).bal = w.bal /\ Emit(w).sup = w.sup /\ Emit(w).reg = w.reg
  BY Zenon DEF Good, Emit, WorkingState
<1> QED
  BY <1>1, <1>2, Zenon DEF Good, Conserved, WithinLimit, TokenInvariantsHold

(* The debit and credit shared by Transfer and TransferFrom is safe: the   *)
(* recipient's balance is only written when the sender can pay, and the    *)
(* token's sum is checked again before the call succeeds.                  *)
LEMMA DebitAndCreditSafe ==
    ASSUME NEW w, Good(w), NEW t \in Tokens, NEW from \in Principals,
           NEW to \in Principals, NEW amount \in Nat
    PROVE  Safe(DebitAndCredit(w, t, from, to, amount))
<1> DEFINE moved == MoveBalance(w, t, from, to, amount)
<1>1. ASSUME ~(w.bal[t][from] < amount), TokenInvariantsHold(moved, t)
      PROVE  Good(moved)
  <2>1. /\ w \in WorkingState
        /\ w.bal[t] \in [Principals -> Nat]
        /\ w.bal[t][from] \in Nat /\ w.bal[t][to] \in Nat
    BY Zenon DEF Good, WorkingState
  <2>2. [w.bal[t] EXCEPT ![from] = w.bal[t][from] - amount,
                         ![to] = w.bal[t][to] + amount] \in [Principals -> Nat]
    BY <1>1, <2>1
  <2>3. moved \in WorkingState
    BY <2>1, <2>2, Zenon DEF MoveBalance, WorkingState
  <2>4. moved.reg = w.reg /\ moved.sup = w.sup
    BY <2>1, Zenon DEF MoveBalance, WorkingState
  <2>5. \A u \in Tokens : u # t => moved.bal[u] = w.bal[u]
    BY <2>1, Zenon DEF MoveBalance, WorkingState
  <2>6. Conserved(moved)
    BY <1>1, <2>4, <2>5, Zenon DEF Good, Conserved, TokenInvariantsHold
  <2>7. WithinLimit(moved)
    BY <2>4, Zenon DEF Good, WithinLimit
  <2> QED
    BY <2>3, <2>6, <2>7, Zenon DEF Good
<1>2. ASSUME ~(w.bal[t][from] < amount), TokenInvariantsHold(moved, t)
      PROVE  Good(Emit(moved))
  BY <1>1, <1>2, EmitGood, Zenon
<1> QED
  BY <1>2, Zenon DEF DebitAndCredit, Safe, Ok, Err

(* Replacing a grant by a fresh one keeps a working state good.            *)
LEMMA SetAllowanceGood ==
    ASSUME NEW w, Good(w), NEW t \in Tokens, NEW o \in Principals,
           NEW s \in Principals, NEW amount \in Nat
    PROVE  Good(SetAllowance(w, t, o, s, amount))
<1> DEFINE v == SetAllowance(w, t, o, s, amount)
<1>0. NewGrant(amount) \in Grant
  <2>1. TRUE \in BOOLEAN
    BY Zenon
  <2> QED
    BY <2>1, Zenon DEF NewGrant, Grant
<1>1. w \in WorkingState /\ NewGrant(amount) \in Grant
  BY <1>0, Zenon DEF Good
<1>2. v \in WorkingState
  <2>1. w.reg[t][o] \in [Principals -> Grant]
    BY <1>1, Zenon DEF WorkingState
  <2>2. [w.reg[t][o] EXCEPT ![s] = NewGrant(amount)] \in [Principals -> Grant]
    BY <1>1, <2>1, Zenon
  <2>3. [w.reg EXCEPT ![t][o][s] = NewGrant(amount)]
            \in [Tokens -> [Principals -> [Principals -> Grant]]]
    BY <1>1, <2>2, Zenon DEF WorkingState
  <2> QED
    BY <1>1, <2>3, Zenon DEF SetAllowance, WorkingState
<1>3. v.bal = w.bal /\ v.sup = w.sup
  BY <1>1, Zenon DEF SetAllowance, WorkingState
<1>4. ASSUME NEW u \in Tokens, NEW p \in Principals, NEW q \in Principals
      PROVE  v.reg[u][p][q] = IF u = t /\ p = o /\ q = s
                              THEN NewGrant(amount) ELSE w.reg[u][p][q]
  BY <1>1 DEF SetAllowance, WorkingState
<1>5. WithinLimit(v)
  BY <1>4, SMTT(20) DEF Good, WithinLimit, NewGrant
<1>6. Conserved(v)
  BY <1>3, Zenon DEF Good, Conserved, TokenInvariantsHold
<1> QED
  BY <1>2, <1>5, <1>6, Zenon DEF Good

(* Charging a grant adds to what is spent and keeps its limit.             *)
LEMMA ChargeGrant ==
    ASSUME NEW g \in Grant, NEW amount \in Nat
    PROVE  LET h == [g EXCEPT !.spent = @ + amount]
           IN  /\ h \in Grant /\ h.limit = g.limit
               /\ h.spent = g.spent + amount
               /\ h.spent - g.spent = amount
<1>1. g.spent \in Nat /\ g.spent + amount \in Nat
  BY DEF Grant
<1>2. [g EXCEPT !.spent = @ + amount] \in Grant
  BY <1>1, Zenon DEF Grant
<1>3. /\ [g EXCEPT !.spent = @ + amount].limit = g.limit
      /\ [g EXCEPT !.spent = @ + amount].spent = g.spent + amount
  BY Zenon DEF Grant
<1> QED
  BY <1>1, <1>2, <1>3

(* consume_allowance charges one grant and changes nothing else.           *)
LEMMA ConsumeAllowanceEffect ==
    ASSUME NEW w \in WorkingState, NEW t \in Tokens, NEW o \in Principals,
           NEW s \in Principals, NEW amount \in Nat
    PROVE  LET v == ConsumeAllowance(w, t, o, s, amount)
           IN  /\ v \in WorkingState
               /\ v.bal = w.bal /\ v.sup = w.sup /\ v.certs = w.certs
               /\ w.reg[t][o][s] \in Grant
               /\ \A u \in Tokens, p, q \in Principals :
                     v.reg[u][p][q] =
                        IF u = t /\ p = o /\ q = s
                        THEN [w.reg[t][o][s] EXCEPT !.spent = @ + amount]
                        ELSE w.reg[u][p][q]
               /\ \A u \in Tokens \ {t} : v.reg[u] = w.reg[u]
<1> DEFINE v == ConsumeAllowance(w, t, o, s, amount)
<1> DEFINE g == w.reg[t][o][s]
<1>1. g \in Grant /\ w.reg[t][o] \in [Principals -> Grant]
  BY DEF WorkingState
<1>2. [g EXCEPT !.spent = @ + amount] \in Grant
  BY <1>1, ChargeGrant, Zenon
<1>3. [w.reg[t][o] EXCEPT ![s].spent = @ + amount] \in [Principals -> Grant]
  BY <1>1, <1>2, Zenon
<1>4. [w.reg EXCEPT ![t][o][s].spent = @ + amount]
          \in [Tokens -> [Principals -> [Principals -> Grant]]]
  BY <1>3, Zenon DEF WorkingState
<1>5. v \in WorkingState
  BY <1>4, Zenon DEF ConsumeAllowance, WorkingState
<1>6. v.bal = w.bal /\ v.sup = w.sup /\ v.certs = w.certs
  BY Zenon DEF ConsumeAllowance, WorkingState
<1>7. \A u \in Tokens \ {t} : v.reg[u] = w.reg[u]
  BY Zenon DEF ConsumeAllowance, WorkingState
<1>8. ASSUME NEW u \in Tokens, NEW p \in Principals, NEW q \in Principals
      PROVE  v.reg[u][p][q] = IF u = t /\ p = o /\ q = s
                              THEN [g EXCEPT !.spent = @ + amount]
                              ELSE w.reg[u][p][q]
  BY DEF ConsumeAllowance, WorkingState
<1> QED
  BY <1>1, <1>5, <1>6, <1>7, <1>8, Zenon

(* Charging a grant that can cover the amount keeps a working state good.  *)
LEMMA ConsumeAllowanceGood ==
    ASSUME NEW w, Good(w), NEW t \in Tokens, NEW o \in Principals,
           NEW s \in Principals, NEW amount \in Nat,
           CanSpend(w.reg[t][o][s], amount)
    PROVE  Good(ConsumeAllowance(w, t, o, s, amount))
<1> DEFINE v == ConsumeAllowance(w, t, o, s, amount)
           g == w.reg[t][o][s]
<1>1. w \in WorkingState
  BY Zenon DEF Good
<1>2. /\ v \in WorkingState /\ v.bal = w.bal /\ v.sup = w.sup
      /\ g \in Grant
      /\ \A u \in Tokens, p, q \in Principals :
            v.reg[u][p][q] = IF u = t /\ p = o /\ q = s
                             THEN [g EXCEPT !.spent = @ + amount]
                             ELSE w.reg[u][p][q]
  BY <1>1, ConsumeAllowanceEffect
<1>3. g.spent + amount <= g.limit
  BY <1>2 DEF Grant, CanSpend, Remaining, Good, WithinLimit
<1>4. [g EXCEPT !.spent = @ + amount].spent <= [g EXCEPT !.spent = @ + amount].limit
  BY <1>2, <1>3, ChargeGrant, Zenon
<1>5. WithinLimit(v)
  <2> SUFFICES ASSUME NEW u \in Tokens, NEW p \in Principals, NEW q \in Principals
               PROVE  v.reg[u][p][q].spent <= v.reg[u][p][q].limit
    BY Zenon DEF WithinLimit
  <2>1. CASE u = t /\ p = o /\ q = s
    BY <1>2, <1>4, <2>1, Zenon
  <2>2. CASE ~(u = t /\ p = o /\ q = s)
    <3>1. v.reg[u][p][q] = w.reg[u][p][q]
      BY <1>2, <2>2, Zenon
    <3> QED
      BY <3>1, Zenon DEF Good, WithinLimit
  <2> QED
    BY <2>1, <2>2, Zenon
<1>6. Conserved(v)
  BY <1>2, Zenon DEF Good, Conserved, TokenInvariantsHold
<1> QED
  BY <1>2, <1>5, <1>6, Zenon DEF Good

(* The token methods are safe for any caller, a user or a router.          *)
LEMMA TokenCallSafe ==
    ASSUME NEW w, Good(w), NEW tx \in TransactionType, tx.target \in Tokens,
           tx.method \in TokenMethods, NEW msg_sender \in Principals
    PROVE  Safe(TokenCall(w, tx, msg_sender))
<1>1. /\ tx.to \in Principals /\ tx.owner \in Principals
      /\ tx.spender \in Principals /\ tx.amount \in Nat
      /\ tx.certificate_nonce \in CertificateNonces
  BY Zenon DEF TransactionType
<1>2. Safe(Transfer(w, tx, msg_sender))
  BY <1>1, DebitAndCreditSafe, Zenon DEF Transfer
<1>3. Safe(Approve(w, tx, msg_sender))
  BY <1>1, SetAllowanceGood, EmitGood, Zenon DEF Approve, Safe, Ok
<1>4. Safe(TransferFrom(w, tx, msg_sender))
  BY <1>1, ConsumeAllowanceGood, DebitAndCreditSafe, Zenon DEF TransferFrom, Safe, Err
<1>5. Safe(Permit(w, tx))
  <2> DEFINE v == [w EXCEPT !.certs = @ \cup {tx.certificate_nonce}]
  <2>1. Good(v)
    BY <1>1, Zenon DEF Good, WorkingState, Conserved, WithinLimit, TokenInvariantsHold
  <2>2. Good(Emit(SetAllowance(v, tx.target, tx.owner, tx.spender, tx.amount)))
    BY <1>1, <2>1, SetAllowanceGood, EmitGood, Zenon
  <2> QED
    BY <2>2, Zenon DEF Permit, Safe, Ok, Err
<1> QED
  BY <1>2, <1>3, <1>4, <1>5, Zenon DEF TokenCall, TokenMethods

(* A call that succeeds is a token call, made by the sender or by a router *)
(* on a token that is not paused, or it sets the paused contracts.         *)
LEMMA CallCases ==
    ASSUME NEW w \in WorkingState, NEW tx \in TransactionType,
           ExecuteCall(w, tx).ok
    PROVE  \/ \E call \in TransactionType, msg_sender \in Principals :
                 /\ call.target \in Tokens \ w.paused
                 /\ call.method \in TokenMethods
                 /\ ExecuteCall(w, tx) = TokenCall(w, call, msg_sender)
                 /\ \/ call = tx /\ msg_sender = tx.sender
                    \/ /\ tx.method = "RouteTransferFrom"
                       /\ call.method = "TransferFrom"
           \/ /\ tx.method \in GovernanceMethods
              /\ \E S \in SUBSET Contracts :
                    ExecuteCall(w, tx) = Ok(Emit([w EXCEPT !.paused = S]))
<1>1. tx.target \in Contracts /\ tx.sender \in Principals
  BY Zenon DEF TransactionType, Principals
<1>2. CallAllowed(w, tx.target, tx.method, tx.sender, {})
  BY Zenon DEF ExecuteCall, Err
<1>3. CASE tx.target \in Tokens
  <2>1. tx.method \in TokenMethods /\ tx.target \in Tokens \ w.paused
    BY <1>2, <1>3, ConstantsAssumption, Zenon DEF CallAllowed, Exports
  <2>2. ExecuteCall(w, tx) = TokenCall(w, tx, tx.sender)
    BY <1>2, <1>3, <2>1, ConstantsAssumption, Zenon DEF ExecuteCall, TokenMethods
  <2> QED
    BY <1>1, <2>1, <2>2, Zenon
<1>4. CASE tx.target \in Routers
  <2> DEFINE child == [tx EXCEPT !.target = RouterToken[tx.target],
                                 !.method = "TransferFrom"]
  <2>1. tx.method = "RouteTransferFrom" /\ tx.target \notin Tokens
    BY <1>2, <1>4, ConstantsAssumption, Zenon DEF CallAllowed, Exports
  <2>2. ExecuteCall(w, tx) = RouteTransferFrom(w, tx)
    BY <1>2, <1>4, <2>1, Zenon DEF ExecuteCall
  <2>3. /\ child \in TransactionType
        /\ child.target = RouterToken[tx.target]
        /\ child.method = "TransferFrom"
    BY <1>4, ConstantsAssumption, Zenon DEF TransactionType, Methods, TokenMethods
  <2>4. CallAllowed(w, child.target, child.method, tx.target, {tx.target})
    BY <2>2 DEF RouteTransferFrom, Err
  <2>5. ExecuteCall(w, tx) = TokenCall(w, child, tx.target)
    BY <2>2, <2>4, Zenon DEF RouteTransferFrom
  <2>6. child.target \in Tokens \ w.paused /\ child.method \in TokenMethods
    BY <2>3, <2>4, Zenon DEF CallAllowed, Exports, GovernanceMethods, TokenMethods
  <2>7. tx.target \in Principals
    BY <1>1, Zenon DEF Principals
  <2> QED
    BY <2>1, <2>3, <2>5, <2>6, <2>7, Zenon
<1>5. CASE tx.target \in Governances
  <2>1. /\ tx.method \in GovernanceMethods
        /\ tx.target \notin Tokens /\ tx.target \notin Routers
    BY <1>2, <1>5, ConstantsAssumption, Zenon DEF CallAllowed, Exports
  <2>2. \/ ExecuteCall(w, tx) = PauseContract(w, tx)
        \/ ExecuteCall(w, tx) = UnpauseContract(w, tx)
    BY <1>2, <2>1, Zenon DEF ExecuteCall, GovernanceMethods
  <2>3. /\ w.paused \cup {Governed[tx.target]} \in SUBSET Contracts
        /\ w.paused \ {Governed[tx.target]} \in SUBSET Contracts
    BY <1>5, ConstantsAssumption, Zenon DEF WorkingState
  <2> QED
    BY <2>1, <2>2, <2>3, Zenon DEF PauseContract, UnpauseContract
<1> QED
  BY <1>1, <1>3, <1>4, <1>5, Zenon DEF Contracts

(* A transaction's call is safe, whatever it targets.                      *)
LEMMA ExecuteCallSafe ==
    ASSUME NEW w, Good(w), NEW tx \in TransactionType
    PROVE  Safe(ExecuteCall(w, tx))
<1> SUFFICES ASSUME ExecuteCall(w, tx).ok
             PROVE  Good(ExecuteCall(w, tx).w)
  BY Zenon DEF Safe
<1>1. w \in WorkingState
  BY Zenon DEF Good
<1>2. ASSUME NEW call \in TransactionType, NEW msg_sender \in Principals,
             call.target \in Tokens, call.method \in TokenMethods,
             ExecuteCall(w, tx) = TokenCall(w, call, msg_sender)
      PROVE  Good(ExecuteCall(w, tx).w)
  BY <1>2, TokenCallSafe, Zenon DEF Safe
<1>3. ASSUME NEW S \in SUBSET Contracts,
             ExecuteCall(w, tx) = Ok(Emit([w EXCEPT !.paused = S]))
      PROVE  Good(ExecuteCall(w, tx).w)
  <2> DEFINE v == [w EXCEPT !.paused = S]
  <2>1. v \in WorkingState /\ v.bal = w.bal /\ v.sup = w.sup /\ v.reg = w.reg
    BY <1>1, Zenon DEF WorkingState
  <2>2. Good(v)
    BY <2>1, Zenon DEF Good, Conserved, WithinLimit, TokenInvariantsHold
  <2> QED
    BY <1>3, <2>2, EmitGood DEF Ok
<1> QED
  BY <1>1, <1>2, <1>3, CallCases, Zenon
-----------------------------------------------------------------------------
(* What a successful token call changes.                                   *)

(* Only token t is touched.                                                *)
OnlyTouches(w, v, t) ==
    \A u \in Tokens \ {t} : v.bal[u] = w.bal[u] /\ v.reg[u] = w.reg[u]

(* Some allowance of p in t is charged for what p loses in t.              *)
Charged(w, v, t, p) ==
    \E s \in Principals :
        /\ v.reg[t][p][s].limit = w.reg[t][p][s].limit
        /\ v.reg[t][p][s].spent - w.reg[t][p][s].spent
             = w.bal[t][p] - v.bal[t][p]

(* The debit and credit changes two balances of one token and no grant;    *)
(* only the payer loses, and exactly the amount.                           *)
LEMMA DebitAndCreditEffect ==
    ASSUME NEW w \in WorkingState, NEW t \in Tokens, NEW from \in Principals,
           NEW to \in Principals, NEW amount \in Nat,
           DebitAndCredit(w, t, from, to, amount).ok
    PROVE  LET v == DebitAndCredit(w, t, from, to, amount).w
           IN  /\ v.reg = w.reg /\ v.certs = w.certs
               /\ OnlyTouches(w, v, t)
               /\ \A p \in Principals :
                     v.bal[t][p] < w.bal[t][p] =>
                        p = from /\ w.bal[t][p] - v.bal[t][p] = amount
<1> DEFINE v == DebitAndCredit(w, t, from, to, amount).w
<1> DEFINE moved == MoveBalance(w, t, from, to, amount)
<1>1. v = Emit(moved)
  BY Zenon DEF DebitAndCredit, Ok, Err
<1>2. /\ v.reg = w.reg /\ v.certs = w.certs
      /\ v.bal = [w.bal EXCEPT ![t] = [@ EXCEPT ![from] = w.bal[t][from] - amount,
                                                ![to] = w.bal[t][to] + amount]]
  BY <1>1, Zenon DEF Emit, MoveBalance, WorkingState
<1>3. w.bal \in [Tokens -> [Principals -> Nat]]
  BY Zenon DEF WorkingState
<1>4. OnlyTouches(w, v, t)
  BY <1>2, <1>3, Zenon DEF OnlyTouches
<1>5. ASSUME NEW p \in Principals, v.bal[t][p] < w.bal[t][p]
      PROVE  p = from /\ w.bal[t][p] - v.bal[t][p] = amount
  <2>1. v.bal[t][p] = IF p = to THEN w.bal[t][to] + amount
                      ELSE IF p = from THEN w.bal[t][from] - amount
                      ELSE w.bal[t][p]
    BY <1>2, <1>3
  <2>2. w.bal[t][p] \in Nat /\ w.bal[t][from] \in Nat
    BY <1>3, Zenon
  <2> QED
    BY <1>5, <2>1, <2>2
<1> QED
  BY <1>2, <1>4, <1>5, Zenon

(* Charging an allowance and then debiting its owner: what the owner loses *)
(* is what the allowance was charged.                                      *)
LEMMA DelegatedDebitEffect ==
    ASSUME NEW w \in WorkingState, NEW t \in Tokens, NEW o \in Principals,
           NEW s \in Principals, NEW to \in Principals, NEW amount \in Nat,
           DebitAndCredit(ConsumeAllowance(w, t, o, s, amount), t, o, to, amount).ok
    PROVE  LET v == DebitAndCredit(ConsumeAllowance(w, t, o, s, amount),
                                   t, o, to, amount).w
           IN  /\ v.certs = w.certs
               /\ OnlyTouches(w, v, t)
               /\ \A p \in Principals : v.bal[t][p] < w.bal[t][p] => Charged(w, v, t, p)
<1> DEFINE u == ConsumeAllowance(w, t, o, s, amount)
           v == DebitAndCredit(u, t, o, to, amount).w
           g == w.reg[t][o][s]
<1>1. /\ u \in WorkingState /\ u.bal = w.bal /\ u.certs = w.certs
      /\ g \in Grant
      /\ \A x \in Tokens \ {t} : u.reg[x] = w.reg[x]
      /\ u.reg[t][o][s] = [g EXCEPT !.spent = @ + amount]
  BY ConsumeAllowanceEffect
<1> HIDE DEF u
<1>2. /\ v.reg = u.reg /\ v.certs = u.certs /\ OnlyTouches(u, v, t)
      /\ \A p \in Principals :
            v.bal[t][p] < u.bal[t][p] =>
               p = o /\ u.bal[t][p] - v.bal[t][p] = amount
  BY <1>1, DebitAndCreditEffect DEF u
<1> HIDE DEF v
<1>3. v.reg[t][o][s].limit = g.limit /\ v.reg[t][o][s].spent - g.spent = amount
  <2> DEFINE h == [g EXCEPT !.spent = @ + amount]
  <2>1. h.limit = g.limit /\ h.spent - g.spent = amount
    BY <1>1, ChargeGrant, Zenon
  <2>2. v.reg[t][o][s] = h
    BY <1>1, <1>2, Zenon
  <2> QED
    BY <2>1, <2>2, Zenon
<1>4. ASSUME NEW p \in Principals, v.bal[t][p] < w.bal[t][p]
      PROVE  Charged(w, v, t, p)
  <2>1. p = o /\ w.bal[t][p] - v.bal[t][p] = amount
    BY <1>1, <1>2, <1>4, Zenon
  <2> QED
    BY <1>3, <2>1, Zenon DEF Charged
<1>5. OnlyTouches(w, v, t)
  BY <1>1, <1>2, Zenon DEF OnlyTouches
<1> QED
  BY <1>1, <1>2, <1>4, <1>5, Zenon DEF u, v

(* A token call touches its own token, debits the caller of a Transfer or  *)
(* an owner whose allowance it charges, and accepts a certificate nonce    *)
(* only in a Permit and only when it is fresh.                             *)
LEMMA TokenCallEffect ==
    ASSUME NEW w \in WorkingState, NEW call \in TransactionType,
           call.target \in Tokens, call.method \in TokenMethods,
           NEW msg_sender \in Principals,
           TokenCall(w, call, msg_sender).ok,
           NEW v, v = TokenCall(w, call, msg_sender).w
    PROVE  /\ OnlyTouches(w, v, call.target)
           /\ \A p \in Principals :
                 v.bal[call.target][p] < w.bal[call.target][p] =>
                    \/ call.method = "Transfer" /\ p = msg_sender
                    \/ Charged(w, v, call.target, p)
           /\ IF call.method = "Permit"
              THEN /\ call.certificate_nonce \notin w.certs
                   /\ v.certs = w.certs \cup {call.certificate_nonce}
              ELSE v.certs = w.certs
<1> DEFINE t == call.target
<1>1. /\ call.to \in Principals /\ call.owner \in Principals
      /\ call.spender \in Principals /\ call.amount \in Nat
  BY Zenon DEF TransactionType
<1>2. CASE call.method = "Transfer"
  <2>1. TokenCall(w, call, msg_sender) = DebitAndCredit(w, t, msg_sender, call.to, call.amount)
    BY <1>2, Zenon DEF TokenCall, Transfer
  <2> QED
    BY <1>1, <1>2, <2>1, DebitAndCreditEffect
<1>3. ASSUME NEW u \in WorkingState, NEW o \in Principals, NEW s \in Principals,
             v = Emit(SetAllowance(u, t, o, s, call.amount))
      PROVE  OnlyTouches(u, v, t) /\ v.bal = u.bal /\ v.certs = u.certs
  BY <1>3 DEF Emit, SetAllowance, WorkingState, OnlyTouches
<1>4. CASE call.method = "Approve"
  <2>1. v = Emit(SetAllowance(w, t, msg_sender, call.spender, call.amount))
    BY <1>4, Zenon DEF TokenCall, Approve, Ok
  <2>2. OnlyTouches(w, v, t) /\ v.bal = w.bal /\ v.certs = w.certs
    BY <1>1, <1>3, <2>1, Zenon
  <2>3. \A p \in Principals : ~(v.bal[t][p] < w.bal[t][p])
    BY <2>2 DEF WorkingState
  <2> QED
    BY <1>4, <2>2, <2>3, Zenon
<1>5. CASE call.method = "TransferFrom"
  <2> DEFINE g == w.reg[t][call.owner][msg_sender]
             u == ConsumeAllowance(w, t, call.owner, msg_sender, call.amount)
  <2>1. TokenCall(w, call, msg_sender) = TransferFrom(w, call, msg_sender)
    BY <1>5, Zenon DEF TokenCall
  <2>2. CanSpend(g, call.amount)
    BY <2>1 DEF TransferFrom, Err
  <2>3. TokenCall(w, call, msg_sender) = DebitAndCredit(u, t, call.owner, call.to, call.amount)
    BY <2>1, <2>2, Zenon DEF TransferFrom
  <2>4. /\ v.certs = w.certs
        /\ OnlyTouches(w, v, t)
        /\ \A p \in Principals : v.bal[t][p] < w.bal[t][p] => Charged(w, v, t, p)
    BY <1>1, <2>3, DelegatedDebitEffect
  <2> QED
    BY <1>5, <2>4, Zenon
<1>6. CASE call.method = "Permit"
  <2> DEFINE u == [w EXCEPT !.certs = @ \cup {call.certificate_nonce}]
  <2>1. TokenCall(w, call, msg_sender) = Permit(w, call)
    BY <1>6, Zenon DEF TokenCall
  <2>2. /\ call.certificate_nonce \notin w.certs
        /\ v = Emit(SetAllowance(u, t, call.owner, call.spender, call.amount))
    BY <2>1 DEF Permit, Ok, Err
  <2>3. /\ u \in WorkingState /\ u.bal = w.bal /\ u.reg = w.reg
        /\ u.certs = w.certs \cup {call.certificate_nonce}
    BY Zenon DEF WorkingState, TransactionType
  <2>4. OnlyTouches(u, v, t) /\ v.bal = u.bal /\ v.certs = u.certs
    BY <1>1, <1>3, <2>2, <2>3, Zenon
  <2>5. \A p \in Principals : ~(v.bal[t][p] < w.bal[t][p])
    BY <2>3, <2>4 DEF WorkingState
  <2>6. OnlyTouches(w, v, t)
    BY <2>3, <2>4, Zenon DEF OnlyTouches
  <2> QED
    BY <1>6, <2>2, <2>3, <2>4, <2>5, <2>6, Zenon
<1> QED
  BY <1>2, <1>4, <1>5, <1>6, Zenon DEF TokenMethods

(* The same for a whole transaction: a paused token is not touched, and    *)
(* only a Permit changes the certificate nonces.                           *)
LEMMA ExecuteCallEffect ==
    ASSUME NEW w \in WorkingState, NEW tx \in TransactionType,
           ExecuteCall(w, tx).ok,
           NEW v, v = ExecuteCall(w, tx).w
    PROVE  /\ \A t \in Tokens \cap w.paused : v.bal[t] = w.bal[t] /\ v.reg[t] = w.reg[t]
           /\ \A t \in Tokens, p \in Principals :
                 v.bal[t][p] < w.bal[t][p] =>
                    \/ tx.method = "Transfer" /\ p = tx.sender
                    \/ Charged(w, v, t, p)
           /\ IF tx.method = "Permit"
              THEN /\ tx.certificate_nonce \notin w.certs
                   /\ v.certs = w.certs \cup {tx.certificate_nonce}
              ELSE v.certs = w.certs
<1>1. ASSUME NEW call \in TransactionType, NEW msg_sender \in Principals,
             call.target \in Tokens \ w.paused, call.method \in TokenMethods,
             ExecuteCall(w, tx) = TokenCall(w, call, msg_sender),
             \/ call = tx /\ msg_sender = tx.sender
             \/ tx.method = "RouteTransferFrom" /\ call.method = "TransferFrom"
      PROVE  /\ \A t \in Tokens \cap w.paused :
                   v.bal[t] = w.bal[t] /\ v.reg[t] = w.reg[t]
             /\ \A t \in Tokens, p \in Principals :
                   v.bal[t][p] < w.bal[t][p] =>
                      \/ tx.method = "Transfer" /\ p = tx.sender
                      \/ Charged(w, v, t, p)
             /\ IF tx.method = "Permit"
                THEN /\ tx.certificate_nonce \notin w.certs
                     /\ v.certs = w.certs \cup {tx.certificate_nonce}
                ELSE v.certs = w.certs
  <2>1. /\ OnlyTouches(w, v, call.target)
        /\ \A p \in Principals :
              v.bal[call.target][p] < w.bal[call.target][p] =>
                 \/ call.method = "Transfer" /\ p = msg_sender
                 \/ Charged(w, v, call.target, p)
        /\ IF call.method = "Permit"
           THEN /\ call.certificate_nonce \notin w.certs
                /\ v.certs = w.certs \cup {call.certificate_nonce}
           ELSE v.certs = w.certs
    BY <1>1, TokenCallEffect
  <2>2. \A t \in Tokens \cap w.paused : v.bal[t] = w.bal[t] /\ v.reg[t] = w.reg[t]
    BY <1>1, <2>1, Zenon DEF OnlyTouches
  <2>3. ASSUME NEW t \in Tokens, NEW p \in Principals, v.bal[t][p] < w.bal[t][p]
        PROVE  \/ tx.method = "Transfer" /\ p = tx.sender
               \/ Charged(w, v, t, p)
    <3>1. t = call.target
      <4>1. w.bal[t][p] \in Nat
        BY Zenon DEF WorkingState
      <4>2. t # call.target => v.bal[t] = w.bal[t]
        BY <2>1, Zenon DEF OnlyTouches
      <4> QED
        BY <2>3, <4>1, <4>2
    <3> QED
      BY <1>1, <2>1, <2>3, <3>1, Zenon
  <2>4. IF tx.method = "Permit"
        THEN /\ tx.certificate_nonce \notin w.certs
             /\ v.certs = w.certs \cup {tx.certificate_nonce}
        ELSE v.certs = w.certs
    BY <1>1, <2>1, Zenon
  <2> QED
    BY <2>2, <2>3, <2>4, Zenon
<1>2. ASSUME tx.method \in GovernanceMethods, NEW S \in SUBSET Contracts,
             ExecuteCall(w, tx) = Ok(Emit([w EXCEPT !.paused = S]))
      PROVE  /\ \A t \in Tokens \cap w.paused :
                   v.bal[t] = w.bal[t] /\ v.reg[t] = w.reg[t]
             /\ \A t \in Tokens, p \in Principals : ~(v.bal[t][p] < w.bal[t][p])
             /\ tx.method # "Permit" /\ v.certs = w.certs
  <2> DEFINE u == [w EXCEPT !.paused = S]
  <2>0. u.bal = w.bal /\ u.reg = w.reg /\ u.certs = w.certs /\ u \in WorkingState
    BY Zenon DEF WorkingState
  <2>1. v.bal = w.bal /\ v.reg = w.reg /\ v.certs = w.certs
    <3>1. v = Emit(u)
      BY <1>2 DEF Ok
    <3> HIDE DEF u
    <3> QED
      BY <2>0, <3>1, Zenon DEF Emit, WorkingState
  <2>2. \A t \in Tokens, p \in Principals : w.bal[t][p] \in Nat
    BY Zenon DEF WorkingState
  <2> QED
    BY <1>2, <2>1, <2>2 DEF GovernanceMethods
<1>3. \/ \E call \in TransactionType, msg_sender \in Principals :
            /\ call.target \in Tokens \ w.paused
            /\ call.method \in TokenMethods
            /\ ExecuteCall(w, tx) = TokenCall(w, call, msg_sender)
            /\ \/ call = tx /\ msg_sender = tx.sender
               \/ tx.method = "RouteTransferFrom" /\ call.method = "TransferFrom"
      \/ /\ tx.method \in GovernanceMethods
         /\ \E S \in SUBSET Contracts :
               ExecuteCall(w, tx) = Ok(Emit([w EXCEPT !.paused = S]))
  BY CallCases, Zenon
<1> QED
  BY <1>1, <1>2, <1>3, Zenon

-----------------------------------------------------------------------------
(* The inductive invariant.                                                *)

IInv ==
    /\ TypeOK
    /\ Conserved(Current)
    /\ WithinLimit(Current)
    /\ NonceExecutesOnce
    /\ PermitAcceptedOnce

(* Genesis satisfies the invariant.                                        *)
LEMMA InitIInv == Init => IInv
<1> SUFFICES ASSUME Init PROVE IInv
  BY Zenon
<1>1. NoGrant \in Grant
  <2>1. \A b \in BOOLEAN, n \in Nat : [live |-> b, limit |-> n, spent |-> n] \in Grant
    BY Zenon DEF Grant
  <2>2. FALSE \in BOOLEAN /\ 0 \in Nat
    BY Zenon
  <2> QED
    BY <2>1, <2>2, Zenon DEF NoGrant
<1>2. balances \in [Tokens -> [Principals -> Nat]]
  BY ConstantsAssumption DEF Init
<1>3. supply \in [Tokens -> Nat]
  BY GenesisAssumption, ConstantsAssumption DEF Init
<1>4. allowances \in [Tokens -> [Principals -> [Principals -> Grant]]]
  BY <1>1, Zenon DEF Init
<1>5. Current \in WorkingState
  BY <1>2, <1>3, <1>4, Zenon DEF Init, Current, WorkingState
<1>6. TypeOK
  BY <1>5, Zenon DEF Init, TypeOK
<1>7. Conserved(Current)
  BY Zenon DEF Init, Conserved, Current, TokenInvariantsHold
<1>8. WithinLimit(Current)
  BY DEF Init, WithinLimit, Current, NoGrant
<1>9. NonceExecutesOnce /\ PermitAcceptedOnce
  BY Zenon DEF Init, NonceExecutesOnce, PermitAcceptedOnce
<1> QED
  BY <1>6, <1>7, <1>8, <1>9, Zenon DEF IInv

(* Consuming a fresh nonce keeps the count of executions at one per nonce. *)
LEMMA ConsumeNonceIInv ==
    ASSUME IInv, NEW tx \in Transactions, NonceKey(tx) \notin used_nonces,
           ConsumeNonce(tx)
    PROVE  /\ NonceExecutesOnce'
           /\ used_nonces' \subseteq Users \X Nonces
           /\ executed' \in [Users \X Nonces -> Nat]
<1>1. NonceKey(tx) \in Users \X Nonces
  BY ConstantsAssumption, Zenon DEF NonceKey, TransactionType
<1>2. /\ used_nonces \subseteq Users \X Nonces
      /\ executed \in [Users \X Nonces -> Nat]
      /\ \A k \in Users \X Nonces : executed[k] = IF k \in used_nonces THEN 1 ELSE 0
  BY Zenon DEF IInv, TypeOK, NonceExecutesOnce
<1>3. /\ used_nonces' = used_nonces \cup {NonceKey(tx)}
      /\ executed' = [executed EXCEPT ![NonceKey(tx)] = @ + 1]
  BY Zenon DEF ConsumeNonce
<1>4. executed[NonceKey(tx)] = 0
  BY <1>1, <1>2, Zenon
<1>5. executed' = [executed EXCEPT ![NonceKey(tx)] = 1]
  BY <1>3, <1>4
<1>6. executed' \in [Users \X Nonces -> Nat]
  BY <1>2, <1>5, Zenon
<1>7. ASSUME NEW k \in Users \X Nonces
      PROVE  executed'[k] = IF k \in used_nonces' THEN 1 ELSE 0
  BY <1>2, <1>3, <1>5, Zenon
<1> QED
  BY <1>1, <1>2, <1>3, <1>6, <1>7, Zenon DEF NonceExecutesOnce

(* Adopting a good working state keeps the state-dependent conjuncts.      *)
LEMMA AdoptGood ==
    ASSUME NEW w, Good(w), Adopt(w)
    PROVE  Current' = w /\ Good(Current')
BY Zenon DEF Good, Adopt, Current, WorkingState

(* Every step of the executor keeps the invariant.                         *)
LEMMA NextIInv == IInv /\ [Next]_vars => IInv'
<1> SUFFICES ASSUME IInv, [Next]_vars PROVE IInv'
  BY Zenon
<1>1. Good(Current) /\ Current \in WorkingState
  BY Zenon DEF IInv, TypeOK, Good
<1>2. ASSUME UNCHANGED rolledBack
      PROVE  Current' = Current /\ Conserved(Current') /\ WithinLimit(Current')
             /\ Current' \in WorkingState
  <2>1. Current' = Current
    BY <1>2, Zenon DEF rolledBack, Current
  <2> QED
    BY <1>1, <2>1, Zenon DEF Good
<1>3. ASSUME NEW tx \in Transactions, RejectTransaction(tx)
      PROVE  IInv'
  BY <1>2, <1>3, Zenon DEF RejectTransaction, IInv, TypeOK, NonceExecutesOnce,
                    PermitAcceptedOnce, rolledBack
<1>4. ASSUME NEW h \in Heights, StartBlock(h)
      PROVE  IInv'
  BY <1>2, <1>4, Zenon DEF StartBlock, IInv, TypeOK, NonceExecutesOnce,
                    PermitAcceptedOnce, rolledBack
<1>5. ASSUME NEW tx \in Transactions, Admissible(tx), ConsumeNonce(tx),
             UNCHANGED <<rolledBack, height, permitted>>
      PROVE  IInv'
  <2>1. NonceKey(tx) \notin used_nonces
    BY <1>5, Zenon DEF Admissible
  <2>2. /\ NonceExecutesOnce'
        /\ used_nonces' \subseteq Users \X Nonces
        /\ executed' \in [Users \X Nonces -> Nat]
    BY <1>5, <2>1, ConsumeNonceIInv, Zenon
  <2>3. PermitAcceptedOnce'
    BY <1>5, Zenon DEF IInv, PermitAcceptedOnce, rolledBack
  <2>4. TypeOK'
    BY <1>2, <1>5, <2>2, Zenon DEF IInv, TypeOK
  <2> QED
    BY <1>2, <1>5, <2>2, <2>3, <2>4, Zenon DEF IInv
<1>6. ASSUME NEW tx \in Transactions, RunOutOfGas(tx)
      PROVE  IInv'
  BY <1>5, <1>6, Zenon DEF RunOutOfGas
<1>7. ASSUME NEW tx \in Transactions, RevertTransaction(tx)
      PROVE  IInv'
  <2>1. UNCHANGED rolledBack
    BY <1>7, Zenon DEF RevertTransaction, Adopt, RestoreCheckpoint, Current, rolledBack
  <2> QED
    BY <1>5, <1>7, <2>1, Zenon DEF RevertTransaction
<1>8. ASSUME NEW tx \in Transactions, CommitTransaction(tx)
      PROVE  IInv'
  <2> DEFINE outcome == ExecuteCall(Current, tx)
  <2>1. tx \in TransactionType /\ tx.certificate_nonce \in CertificateNonces
    BY ConstantsAssumption, Zenon DEF TransactionType
  <2>2. outcome.ok /\ Adopt(outcome.w)
    BY <1>8, Zenon DEF CommitTransaction
  <2>3. Good(outcome.w)
    BY <1>1, <2>1, <2>2, ExecuteCallSafe, Zenon DEF Safe
  <2>4. Current' = outcome.w /\ Good(Current')
    BY <2>2, <2>3, AdoptGood, Zenon
  <2>5. /\ NonceExecutesOnce'
        /\ used_nonces' \subseteq Users \X Nonces
        /\ executed' \in [Users \X Nonces -> Nat]
    BY <1>8, ConsumeNonceIInv, Zenon DEF CommitTransaction, Admissible
  <2>6. IF tx.method = "Permit"
        THEN /\ tx.certificate_nonce \notin used_certificate_nonces
             /\ used_certificate_nonces' = used_certificate_nonces \cup {tx.certificate_nonce}
        ELSE used_certificate_nonces' = used_certificate_nonces
    <3>1. Current.certs = used_certificate_nonces
      BY Zenon DEF Current
    <3>2. outcome.w.certs = used_certificate_nonces'
      BY <2>2, Zenon DEF Adopt
    <3> QED
      BY <1>1, <2>1, <2>2, <3>1, <3>2, ExecuteCallEffect
  <2>7. permitted' = IF tx.method = "Permit"
                     THEN [permitted EXCEPT ![tx.certificate_nonce] = @ + 1]
                     ELSE permitted
    BY <1>8, Zenon DEF CommitTransaction
  <2>8. PermitAcceptedOnce' /\ permitted' \in [CertificateNonces -> Nat]
    BY <2>1, <2>6, <2>7 DEF IInv, TypeOK, PermitAcceptedOnce
  <2>9. height' \in Heights
    BY <1>8, Zenon DEF CommitTransaction, IInv, TypeOK
  <2> QED
    BY <2>4, <2>5, <2>8, <2>9, Zenon DEF IInv, TypeOK, Good
<1>9. CASE UNCHANGED vars
  BY <1>2, <1>9, Zenon DEF vars, IInv, TypeOK, NonceExecutesOnce, PermitAcceptedOnce,
                    rolledBack
<1> QED
  BY <1>3, <1>4, <1>6, <1>7, <1>8, <1>9, Zenon DEF Next

-----------------------------------------------------------------------------
(* Theorems.                                                               *)

(* The inductive invariant holds in every reachable state.                 *)
THEOREM Invariance == Spec => []IInv
BY InitIInv, NextIInv, PTL DEF Spec

(* Every variable keeps its type: in particular no balance ever becomes    *)
(* negative, for any set of accounts, contracts and transactions.          *)
THEOREM TypeCorrectness == Spec => []TypeOK
<1>1. IInv => TypeOK
  BY Zenon DEF IInv
<1> QED
  BY <1>1, Invariance, PTL

(* Token balances always add up to the supply, as the declared invariant   *)
(* TokenSupplyMatchesBalances of a token contract says.                    *)
THEOREM Conservation == Spec => []TokenSupplyMatchesBalances
<1>1. IInv => TokenSupplyMatchesBalances
  BY Zenon DEF IInv, Conserved, TokenInvariantsHold, Current, TokenSupplyMatchesBalances
<1> QED
  BY <1>1, Invariance, PTL

(* No allowance is ever overspent, directly or through routers.            *)
THEOREM AllowanceSafety == Spec => []SpentWithinLimit
<1>1. IInv => SpentWithinLimit
  BY Zenon DEF IInv, WithinLimit, Current, SpentWithinLimit
<1> QED
  BY <1>1, Invariance, PTL

(* A sender's nonce executes at most once, in one block or in several.     *)
THEOREM ReplayProtection == Spec => []NonceExecutesOnce
<1>1. IInv => NonceExecutesOnce
  BY Zenon DEF IInv
<1> QED
  BY <1>1, Invariance, PTL

(* A permit certificate is accepted at most once, whoever submits it.      *)
THEOREM PermitReplayProtection == Spec => []PermitAcceptedOnce
<1>1. IInv => PermitAcceptedOnce
  BY Zenon DEF IInv
<1> QED
  BY <1>1, Invariance, PTL

(* A transaction that is not committed leaves no trace but its nonce.      *)
THEOREM Atomicity == Spec => RevertIsAtomic
<1>1. ASSUME [Next]_vars
      PROVE  [receipt'.status # "Committed" => UNCHANGED rolledBack]_vars
  <2>1. ASSUME NEW tx \in Transactions, CommitTransaction(tx)
        PROVE  receipt'.status = "Committed"
    BY <2>1, Zenon DEF CommitTransaction, Receipt
  <2>2. ASSUME NEW tx \in Transactions, RevertTransaction(tx)
        PROVE  UNCHANGED rolledBack
    BY <2>2, Zenon DEF RevertTransaction, Adopt, RestoreCheckpoint, Current, rolledBack
  <2> QED
    BY <1>1, <2>1, <2>2, Zenon DEF Next, RejectTransaction, RunOutOfGas, StartBlock
<1> QED
  BY <1>1, PTL DEF Spec, RevertIsAtomic

(* What a step does to balances and allowances.                            *)
LEMMA AuthorisedStep ==
    IInv /\ [Next]_vars => [OnlyAuthorisedDebits]_vars /\ [PausedAllowancesKept]_vars
<1>1. ASSUME IInv, [Next]_vars
      PROVE  [OnlyAuthorisedDebits]_vars /\ [PausedAllowancesKept]_vars
  <2>1. Current \in WorkingState
    BY <1>1, Zenon DEF IInv, TypeOK
  <2>2. ASSUME UNCHANGED rolledBack
        PROVE  OnlyAuthorisedDebits /\ PausedAllowancesKept
    <3>1. balances' = balances /\ allowances' = allowances
      BY <2>2, Zenon DEF rolledBack
    <3>2. \A t \in Tokens, p \in Principals : balances[t][p] \in Nat
      BY <2>1, Zenon DEF Current, WorkingState
    <3> QED
      BY <3>1, <3>2 DEF OnlyAuthorisedDebits, PausedAllowancesKept
  <2>3. ASSUME NEW tx \in Transactions, CommitTransaction(tx)
        PROVE  OnlyAuthorisedDebits /\ PausedAllowancesKept
    <3> DEFINE v == ExecuteCall(Current, tx).w
    <3>1. tx \in TransactionType
      BY ConstantsAssumption, Zenon
    <3>2. ExecuteCall(Current, tx).ok /\ Adopt(v)
      BY <2>3, Zenon DEF CommitTransaction
    <3>3. receipt'.sender = tx.sender /\ receipt'.method = tx.method
      BY <2>3, Zenon DEF CommitTransaction, Receipt
    <3>4. /\ Current.bal = balances /\ Current.reg = allowances
          /\ Current.paused = paused_contracts
          /\ v.bal = balances' /\ v.reg = allowances'
      BY <3>2, Zenon DEF Current, Adopt
    <3>5. /\ \A t \in Tokens \cap Current.paused :
                v.bal[t] = Current.bal[t] /\ v.reg[t] = Current.reg[t]
          /\ \A t \in Tokens, p \in Principals :
                v.bal[t][p] < Current.bal[t][p] =>
                   \/ tx.method = "Transfer" /\ p = tx.sender
                   \/ Charged(Current, v, t, p)
      BY <2>1, <3>1, <3>2, ExecuteCallEffect
    <3> QED
      BY <3>3, <3>4, <3>5, Zenon
         DEF Charged, AllowanceCharged, OnlyAuthorisedDebits, PausedAllowancesKept
  <2>4. ASSUME NEW tx \in Transactions, RevertTransaction(tx)
        PROVE  UNCHANGED rolledBack
    BY <2>4, Zenon DEF RevertTransaction, Adopt, RestoreCheckpoint, Current, rolledBack
  <2> QED
    BY <1>1, <2>2, <2>3, <2>4, Zenon DEF Next, RejectTransaction, RunOutOfGas, StartBlock
<1> QED
  BY <1>1, Zenon

(* Nobody's balance falls without a transfer of their own or a matching    *)
(* charge on an allowance of theirs, whichever router moved the tokens.    *)
THEOREM Authorisation == Spec => DebitIsAuthorised
<1>1. IInv /\ [Next]_vars => [OnlyAuthorisedDebits]_vars
  BY AuthorisedStep, Zenon
<1> QED
  BY <1>1, Invariance, PTL DEF Spec, DebitIsAuthorised

(* No transaction grants, permits or spends an allowance of a token that   *)
(* is paused, also when it calls the token through a router.               *)
THEOREM PauseKeepsAllowances == Spec => PausedTokenSpendsNoAllowance
<1>1. IInv /\ [Next]_vars => [PausedAllowancesKept]_vars
  BY AuthorisedStep, Zenon
<1> QED
  BY <1>1, Invariance, PTL DEF Spec, PausedTokenSpendsNoAllowance

=============================================================================
