-------------------------- MODULE AspectInterpreter --------------------------
(***************************************************************************)
(* The aspect runtime (detta-aspect-runtime): AspectActionEvaluator        *)
(* evaluates a projection against a snapshot of the state and returns a    *)
(* value and the trace of the host operations to perform.  It changes no   *)
(* state: a state-set! only appends to the trace, and a state-get after it *)
(* still reads the snapshot.                                               *)
(*                                                                         *)
(* An evaluation in progress is a record: what it may still do (env: the   *)
(* module, the context, the snapshot, the step budget) and what it has     *)
(* done (steps_used, trace).  Any error ends it; the caller does not tell  *)
(* the errors apart.                                                       *)
(***************************************************************************)
EXTENDS AspectVerifier

CONSTANTS
    MaxAmount,        \* the largest u128
    MaxStackDepth     \* how deep actions may call each other (64 in the code)

Unit == <<"Unit", 0>>
Bool(b) == <<"Bool", b>>
Amount(n) == <<"Amount", n>>
Atom(a) == <<"Atom", a>>

IsA(kind, v) == v[1] = kind

(* The string a value is in a state key.                                   *)
AspectKeyPart(v) ==
    CASE IsA("Atom", v) -> v[2]
      [] IsA("Amount", v) -> ToString(v[2])
      [] IsA("Bool", v) -> IF v[2] THEN "true" ELSE "false"

KeyParts(values) == [i \in 1..Len(values) |-> AspectKeyPart(values[i])]

-----------------------------------------------------------------------------
(* Results.  Good(run, v) continues the run with a value, Bad ends it.     *)

Bad == [ok |-> FALSE]
Good(run, v) == [ok |-> TRUE, run |-> run, value |-> v]
GoodIf(condition, run, v) == IF condition THEN Good(run, v) ELSE Bad
Perform(run, op) == Good([run EXCEPT !.trace = Append(@, op)], Unit)

(* AspectEvalState::charge: one step for every list that is evaluated.     *)
Charge(run) == [run EXCEPT !.steps_used = @ + 1]
HasSteps(run) == run.steps_used < run.env.max_steps

EvalAtom(run, atom) ==
    LET context == run.env.context
    IN  CASE atom[1] = "var" -> IF atom[2] \in DOMAIN run.bindings
                                THEN Good(run, run.bindings[atom[2]])
                                ELSE Bad
          [] atom[1] = "num" -> Good(run, Amount(atom[2]))
          [] OTHER -> Good(run,
                CASE atom[2] = "True" -> Bool(TRUE)
                  [] atom[2] = "False" -> Bool(FALSE)
                  [] atom[2] = "tx.sender" -> Atom(context.tx_sender)
                  [] atom[2] = "msg.sender" -> Atom(context.msg_sender)
                  [] atom[2] = "current-contract" -> Atom(context.current_contract)
                  [] atom[2] = "block-height" -> Amount(context.block_height)
                  [] atom[2] = "block-timestamp" -> Amount(0)
                  [] OTHER -> Atom(atom[2]))

-----------------------------------------------------------------------------
(* The strict forms: the items a form evaluates, in order, and what it     *)
(* does with their values.  The other items are names.                     *)

Positions(form, items) ==
    LET all == [i \in 1..(Len(items) - 1) |-> items[i + 1]]
    IN  CASE form = "require" -> <<items[2]>>
          [] form \in {"state-get", "state-set!"} -> SubSeq(items, 3, Len(items))
          [] form \in {"contract-state-get", "call-contract!"} ->
                <<items[2]>> \o SubSeq(items, 4, Len(items))
          [] form = "registry-get" -> <<>>
          [] form \in {"registry-set!", "registry-consume!"} -> <<items[3]>>
          [] form = "emit!" -> IF IsAtom(items[2]) THEN <<items[2]>> ELSE Items(items[2])
          [] OTHER -> all

Binary == {"safe-add", "safe-sub", "safe-mul", "safe-div", "=", "<", "<=", ">", ">="}

StrictForms ==
    Binary \cup {"require", "begin", "not", "state-get", "contract-state-get", "state-set!",
                 "registry-get", "registry-set!", "registry-consume!", "emit!", "call-contract!",
                 "permit-verify!", "bridge-verify!", "cross-shard-outbox-append!"}

(* The number of items, and the ones that must be names.                   *)
WellFormed(form, items) ==
    LET n == Len(items)
    IN  CASE form \in Binary \cup {"require"} -> n = 3
          [] form \in {"not", "emit!"} -> n = 2
          [] form = "begin" -> n >= 2
          [] form \in {"if"} -> n = 4
          [] form \in {"and", "or"} -> n = 3
          [] form \in {"state-get", "registry-get"} -> n >= 2 /\ IsAtom(items[2])
          [] form = "state-set!" -> n >= 3 /\ IsAtom(items[2])
          [] form \in {"registry-set!", "registry-consume!"} -> n = 3 /\ IsAtom(items[2])
          [] form \in {"contract-state-get", "call-contract!"} -> n >= 3 /\ IsAtom(items[3])
          [] form = "permit-verify!" -> n = 6
          [] form \in {"bridge-verify!", "cross-shard-outbox-append!"} -> n = 7

Arithmetic(run, form, x, y) ==
    CASE form = "safe-add" -> GoodIf(x + y <= MaxAmount, run, Amount(x + y))
      [] form = "safe-sub" -> GoodIf(y <= x, run, Amount(x - y))
      [] form = "safe-mul" -> GoodIf(x * y <= MaxAmount, run, Amount(x * y))
      [] form = "safe-div" -> IF y = 0 THEN Bad ELSE Good(run, Amount(x \div y))
      [] form = "<" -> Good(run, Bool(x < y))
      [] form = "<=" -> Good(run, Bool(x <= y))
      [] form = ">" -> Good(run, Bool(x > y))
      [] form = ">=" -> Good(run, Bool(x >= y))

(* What a snapshot holds at a key, zero when nothing was stored.           *)
ReadAt(snapshot, key) == IF key \in DOMAIN snapshot THEN Amount(snapshot[key]) ELSE Amount(0)

AreKeys(values) == \A i \in 1..Len(values) : ~IsA("Unit", values[i])

ApplyForm(run, form, items, values) ==
    LET last == values[Len(values)]
        keys(from, to) == KeyParts(SubSeq(values, from, to))
    IN  CASE form = "=" -> Good(run, Bool(values[1] = values[2]))
          [] form \in Binary \ {"="} ->
                IF IsA("Amount", values[1]) /\ IsA("Amount", values[2])
                THEN Arithmetic(run, form, values[1][2], values[2][2])
                ELSE Bad
          [] form = "require" -> GoodIf(values[1] = Bool(TRUE), run, Unit)
          [] form = "not" -> IF IsA("Bool", values[1]) THEN Good(run, Bool(~values[1][2])) ELSE Bad
          [] form = "begin" -> Good(run, last)
          [] form = "state-get" ->
                IF AreKeys(values)
                THEN Good(Perform(run, [op |-> "StateGet", state |-> items[2],
                                        key |-> KeyParts(values)]).run,
                          ReadAt(run.env.state_reads, <<items[2], KeyParts(values)>>))
                ELSE Bad
          [] form = "contract-state-get" ->
                IF IsA("Atom", values[1]) /\ AreKeys(Tail(values))
                THEN Good(Perform(run, [op |-> "ContractStateGet", contract |-> values[1][2],
                                        state |-> items[3], key |-> keys(2, Len(values))]).run,
                          ReadAt(run.env.contract_state_reads,
                                 <<values[1][2], items[3], keys(2, Len(values))>>))
                ELSE Bad
          [] form = "state-set!" ->
                IF AreKeys(Front(values))
                THEN Perform(run, [op |-> "StateSet", state |-> items[2],
                                   key |-> keys(1, Len(values) - 1), value |-> last])
                ELSE Bad
          [] form = "registry-get" -> Perform(run, [op |-> "RegistryGet", registry |-> items[2]])
          [] form = "registry-set!" -> Perform(run, [op |-> "RegistrySet", registry |-> items[2]])
          [] form = "registry-consume!" ->
                Perform(run, [op |-> "RegistryConsume", registry |-> items[2]])
          [] form = "emit!" -> Perform(run, [op |-> "Emit"])
          [] form = "call-contract!" ->
                IF IsA("Atom", values[1])
                THEN Perform(run, [op |-> "CallContract", contract |-> values[1][2],
                                   method |-> items[3], args |-> Tail(values)])
                ELSE Bad
          [] form = "permit-verify!" ->
                IF \A i \in 1..5 : IsA(IF i = 4 THEN "Amount" ELSE "Atom", values[i])
                THEN Perform(run, [op |-> "PermitVerify", args |-> values])
                ELSE Bad
          [] form = "bridge-verify!" ->
                IF \A i \in 1..6 : IsA(IF i = 5 THEN "Amount" ELSE "Atom", values[i])
                THEN Perform(run, [op |-> "BridgeVerify", args |-> values])
                ELSE Bad
          [] form = "cross-shard-outbox-append!" ->
                IF \A i \in 1..6 : IsA(IF i = 6 THEN "Amount" ELSE "Atom", values[i])
                THEN Perform(run, [op |-> "CrossShardOutboxAppend", args |-> values])
                ELSE Bad

-----------------------------------------------------------------------------
(* A definition (= (name $x ...) body): its parameters and its body, if it *)
(* is one.                                                                 *)

BodyParts(e) ==
    LET items == Items(e)
        signature == Items(items[2])
    IN  IF /\ HeadIs(e, "=")
           /\ Len(items) = 3
           /\ IsList(items[2])
           /\ \A i \in 2..Len(signature) : signature[i][1] = "var"
        THEN [ok |-> TRUE,
              signature |-> signature,
              params |-> [i \in 1..(Len(signature) - 1) |-> signature[i + 1][2]],
              rhs |-> items[3]]
        ELSE Bad

(* An action sees the variables of its caller under its own parameters; of *)
(* two parameters of one name the last wins.                               *)
Bind(bindings, params, values) ==
    [x \in DOMAIN bindings \cup Range(params) |->
        IF x \in Range(params)
        THEN values[Max({i \in 1..Len(params) : params[i] = x})]
        ELSE bindings[x]]

RECURSIVE EvalExpr(_, _), EvalAll(_, _, _), ExecuteNamedAction(_, _, _)

EvalAll(run, exprs, values) ==
    IF exprs = <<>>
    THEN Good(run, values)
    ELSE LET first == EvalExpr(run, Head(exprs))
         IN  IF first.ok THEN EvalAll(first.run, Tail(exprs), Append(values, first.value)) ELSE Bad

(* if, and, or: the forms that do not evaluate all of their items.         *)
EvalLazy(run, form, items) ==
    LET condition == EvalExpr(run, items[2])
        other == EvalExpr(condition.run, items[3])
        decided == CASE form = "and" -> ~condition.value[2]
                     [] form = "or" -> condition.value[2]
    IN  IF ~condition.ok \/ ~IsA("Bool", condition.value)
        THEN Bad
        ELSE IF form = "if"
        THEN EvalExpr(condition.run, IF condition.value[2] THEN items[3] ELSE items[4])
        ELSE IF decided
        THEN condition
        ELSE IF other.ok /\ IsA("Bool", other.value) THEN other ELSE Bad

(* The head of an expression that is no form: the one action of that name. *)
EvalActionCall(run, items) ==
    LET matching == ActionsNamed(run.env.ir, items[1])
        args == EvalAll(run, Tail(items), <<>>)
    IN  IF Cardinality(matching) = 1 /\ args.ok
        THEN ExecuteNamedAction(args.run, CHOOSE key \in matching : TRUE, args.value)
        ELSE Bad

EvalStrict(run, form, items) ==
    LET args == EvalAll(run, Positions(form, items), <<>>)
    IN  IF args.ok THEN ApplyForm(args.run, form, items, args.value) ELSE Bad

LazyForms == {"if", "and", "or"}

EvalExpr(run, e) ==
    LET items == Items(e)
        form == items[1][2]
        isForm(forms) == items[1][1] = "sym" /\ form \in forms
    IN  IF IsAtom(e)
        THEN EvalAtom(run, e)
        ELSE IF ~HasSteps(run) \/ items = <<>> \/ IsList(items[1])
        THEN Bad
        ELSE IF isForm(LazyForms \cup StrictForms) /\ ~WellFormed(form, items)
        THEN Bad
        ELSE CASE isForm(LazyForms) -> EvalLazy(Charge(run), form, items)
               [] isForm(StrictForms) -> EvalStrict(Charge(run), form, items)
               [] OTHER -> EvalActionCall(Charge(run), items)

ExecuteNamedAction(run, key, values) ==
    LET body == run.env.ir.actions[key].body
        parts == BodyParts(body)
        inner == [run EXCEPT !.bindings = Bind(@, parts.params, values), !.stack_depth = @ + 1]
        result == EvalExpr(inner, parts.rhs)
    IN  IF /\ run.stack_depth < MaxStackDepth
           /\ body # None
           /\ parts.ok
           /\ parts.signature # <<>>
           /\ parts.signature[1] = key[2]
           /\ Len(parts.params) = Len(values)
           /\ result.ok
        THEN Good([result.run EXCEPT !.bindings = run.bindings, !.stack_depth = run.stack_depth],
                  result.value)
        ELSE Bad

NewRun(env, bindings) ==
    [env |-> env, bindings |-> bindings, steps_used |-> 0, trace |-> <<>>, stack_depth |-> 0]

ExecuteProjection(env, projection, args) ==
    LET parts == BodyParts(env.ir.projections[projection])
    IN  IF projection \in DOMAIN env.ir.projections /\ parts.ok /\ Len(parts.params) = Len(args)
        THEN EvalExpr(NewRun(env, Bind(<<>>, parts.params, args)), parts.rhs)
        ELSE Bad

EvaluateInvariantExpr(env, e) == EvalExpr(NewRun(env, <<>>), e)
==============================================================================
