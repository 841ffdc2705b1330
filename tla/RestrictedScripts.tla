--------------------------- MODULE RestrictedScripts ---------------------------
(***************************************************************************)
(* The restricted scripts of detta-evaluator: parsing, the canonical       *)
(* source, execution under a step budget, and the check detta-verify makes *)
(* of the trace.  A source is the sequence of its tokens, which are        *)
(* parentheses and atoms.                                                  *)
(***************************************************************************)
EXTENDS Naturals, Sequences, FiniteSets, SequencesExt, TLC

CONSTANTS
    Numerals,       \* the atoms that parse as a u128, with what they parse to
    MaxAmount,      \* the largest u128
    Methods,        \* the atoms that are a method without a payload
    MaxSteps        \* DEFAULT_MAX_RESTRICTED_EVALUATOR_STEPS

AllowedPrimitives ==
    {"StateGet", "StateSet", "RegistryGet", "RegistrySetGuarded", "EmitEvent", "CallContract",
     "Abort", "PureArithmetic", "PureComparison", "PureData"}
Primitives ==
    AllowedPrimitives \cup
    {"RawAddAtom", "RawRemoveAtom", "RawPrivateMatch", "PrologAssert", "PrologRetract",
     "PythonCall", "FileSystemAccess", "ProcessExecution", "NetworkAccess", "WallClockAccess",
     "Randomness", "ArbitraryImport"}

\* The state keys parse_state_key knows, by the number of their fields.
KeyArity ==
    [k \in {"lp-supply"} |-> 1] @@
    [k \in {"total-supply", "reserve", "amm-fee-collected", "lp-balance", "oracle-price",
            "oracle-timestamp", "bridge-message-consumed", "bad-debt", "total-staked",
            "total-pending-unbond", "staking-penalty-collected"} |-> 2] @@
    [k \in {"balance", "collateral", "debt", "debt-last-accrual-height", "stake-balance",
            "pending-unbond", "unbond-ready-height", "staking-reward-balance",
            "staking-last-reward-height"} |-> 3]

--------------------------------------------------------------------------------
(***************************************************************************)
(* The parser.  A parse is a set: empty for an error, otherwise what was   *)
(* read and the position after it.                                         *)
(***************************************************************************)
Token(tokens, i, wanted) == i \in DOMAIN tokens /\ tokens[i] = wanted
Atoms(tokens, i, n) ==
    \A j \in i..(i + n - 1) : j \in DOMAIN tokens /\ tokens[j] \notin {"(", ")"}

ParseStateKey(tokens, i) ==
    IF ~(Token(tokens, i, "(") /\ Atoms(tokens, i + 1, 1)) THEN {}
    ELSE LET kind == tokens[i + 1]
         IN  {[value |-> [kind |-> kind, fields |-> SubSeq(tokens, i + 2, i + 1 + n)],
               next |-> i + n + 3] :
                 n \in {m \in {KeyArity[k] : k \in {kind} \cap DOMAIN KeyArity} :
                          Atoms(tokens, i + 2, m) /\ Token(tokens, i + 2 + m, ")")}}

ParseStateValue(tokens, i) ==
    IF /\ Token(tokens, i, "(") /\ Token(tokens, i + 1, "uint")
       /\ Atoms(tokens, i + 2, 1) /\ Token(tokens, i + 3, ")")
    THEN {[value |-> Numerals[a], next |-> i + 4] : a \in {tokens[i + 2]} \cap DOMAIN Numerals}
    ELSE {}

\* The operands of an instruction, up to its closing parenthesis.
ParseOperands(op, tokens, i) ==
    CASE op = "use-primitive" ->
            IF Atoms(tokens, i, 1) /\ tokens[i] \in Primitives
            THEN {[value |-> <<tokens[i]>>, next |-> i + 1]} ELSE {}
      [] op = "state-get" ->
            {[value |-> <<k.value>>, next |-> k.next] : k \in ParseStateKey(tokens, i)}
      [] op = "state-set" ->
            UNION {{[value |-> <<k.value, v.value>>, next |-> v.next] :
                        v \in ParseStateValue(tokens, k.next)} : k \in ParseStateKey(tokens, i)}
      [] op = "call-contract" ->
            IF Atoms(tokens, i, 2) /\ tokens[i + 1] \in Methods
            THEN {[value |-> <<tokens[i], tokens[i + 1]>>, next |-> i + 2]} ELSE {}
      [] op = "pure-add" ->
            IF Atoms(tokens, i, 2) /\ {tokens[i], tokens[i + 1]} \subseteq DOMAIN Numerals
            THEN {[value |-> <<Numerals[tokens[i]], Numerals[tokens[i + 1]]>>, next |-> i + 2]}
            ELSE {}
      [] op = "abort" -> {[value |-> <<>>, next |-> i]}
      [] OTHER -> {}

ParseInstruction(tokens, i) ==
    IF ~(Token(tokens, i, "(") /\ Atoms(tokens, i + 1, 1)) THEN {}
    ELSE {[value |-> [op |-> tokens[i + 1], operands |-> p.value], next |-> p.next + 1] :
            p \in {q \in ParseOperands(tokens[i + 1], tokens, i + 2) : Token(tokens, q.next, ")")}}

RECURSIVE ParseFrom(_, _)
ParseFrom(tokens, i) ==
    IF i > Len(tokens) THEN {<<>>}
    ELSE UNION {{<<p.value>> \o rest : rest \in ParseFrom(tokens, p.next)} :
                   p \in ParseInstruction(tokens, i)}
ParseRestrictedScript(tokens) == ParseFrom(tokens, 1)

--------------------------------------------------------------------------------
\* canonical_state_key, canonical_state_value and canonical_instruction.  A
\* number is printed in decimal, without the sign and zeros it may have had.
CanonicalStateKey(key) == <<"(", key.kind>> \o key.fields \o <<")">>
CanonicalStateValue(value) == <<"(", "uint", ToString(value), ")">>

\* Mutant: the value of a state-set is left out.
CanonicalInstructionWithoutValue(ins) ==
    <<"(", ins.op>> \o
    (CASE ins.op \in {"state-get", "state-set"} -> CanonicalStateKey(ins.operands[1])
       [] ins.op = "pure-add" -> <<ToString(ins.operands[1]), ToString(ins.operands[2])>>
       [] OTHER -> ins.operands)
    \o <<")">>

CanonicalInstruction(ins) ==
    <<"(", ins.op>> \o
    (CASE ins.op = "state-get" -> CanonicalStateKey(ins.operands[1])
       [] ins.op = "state-set" ->
            CanonicalStateKey(ins.operands[1]) \o CanonicalStateValue(ins.operands[2])
       [] ins.op = "pure-add" -> <<ToString(ins.operands[1]), ToString(ins.operands[2])>>
       [] OTHER -> ins.operands)
    \o <<")">>

CanonicalScriptSource(script) ==
    FoldLeft(LAMBDA source, ins : source \o CanonicalInstruction(ins), <<>>, script)

--------------------------------------------------------------------------------
(***************************************************************************)
(* RestrictedScriptEvaluator::execute.  The error of a report is "" until  *)
(* an instruction fails; the instructions after it are not reached.        *)
(***************************************************************************)
EmptyReport == [trace |-> <<>>, values |-> <<>>, steps_used |-> 0, error |-> ""]

Step(report, ins, max_steps) ==
    LET r == [report EXCEPT !.steps_used = @ + 1]
        Fails(code) == [r EXCEPT !.error = code]
    IN  CASE report.error # "" -> report
          [] report.error = "" /\ r.steps_used > max_steps -> Fails("evaluator.step_budget_exceeded")
          [] OTHER ->
             CASE ins.op = "use-primitive" ->
                     IF ins.operands[1] \in AllowedPrimitives THEN r ELSE Fails("evaluator.forbidden_primitive")
               [] ins.op = "pure-add" ->
                     IF ins.operands[1] + ins.operands[2] > MaxAmount
                     THEN Fails("evaluator.arithmetic_overflow")
                     ELSE [r EXCEPT !.values = Append(@, ins.operands[1] + ins.operands[2])]
               [] ins.op = "abort" -> Fails("evaluator.aborted")
               [] ins.op \in {"state-get", "state-set"} ->
                     [r EXCEPT !.trace = Append(@, <<ins.op, ins.operands[1]>>)]
               [] ins.op = "call-contract" ->
                     [r EXCEPT !.trace = Append(@, <<ins.op, ins.operands>>)]

ExecuteScript(script, max_steps) ==
    FoldLeft(LAMBDA report, ins : Step(report, ins, max_steps), EmptyReport, script)

\* evaluate_restricted_script: the code of an error, or a report with the
\* canonical source.
EvaluateRestrictedScript(tokens, max_steps) ==
    LET parsed == ParseRestrictedScript(tokens)
        script == CHOOSE s \in parsed : TRUE
        report == ExecuteScript(script, max_steps)
    IN  CASE max_steps > MaxSteps -> [ok |-> FALSE, code |-> "evaluator.step_budget_too_large"]
          [] max_steps <= MaxSteps /\ parsed = {} -> [ok |-> FALSE, code |-> "evaluator.parse_error"]
          [] OTHER -> IF report.error # "" THEN [ok |-> FALSE, code |-> report.error]
                      ELSE [ok |-> TRUE, report |-> report,
                            canonical |-> CanonicalScriptSource(script)]

--------------------------------------------------------------------------------
\* verify_kernel_trace: the keys written outside the contract or the scope.
VerifyKernelTrace(contract, write_scope, trace) ==
    {trace[i][2] : i \in {j \in DOMAIN trace : /\ trace[j][1] = "state-set"
                                               /\ \/ trace[j][2].fields[1] # contract
                                                  \/ trace[j][2] \notin write_scope}}
================================================================================
