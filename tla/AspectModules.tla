---------------------------- MODULE AspectModules ----------------------------
(***************************************************************************)
(* Aspect modules in the executor (detta-core): a source is submitted and  *)
(* verified, its bundles are deployed as contracts, and calls evaluate a   *)
(* projection and then perform its trace, host operation by host           *)
(* operation, under the method's policy.  A call that fails anywhere       *)
(* leaves the state as it was.                                             *)
(*                                                                         *)
(* One module is submitted in a behaviour.  The contracts it is deployed   *)
(* as may call each other; the other contract families are in Contracts.   *)
(***************************************************************************)
EXTENDS AspectInterpreter

CONSTANTS
    Sources,              \* the sources that may be submitted, as tokens
    Deployments,          \* pairs of a contract id and the bundle it is deployed from
    Calls,                \* calls: [target, method, sender, args, budget]
    PermitCertificates,   \* by certificate: what it permits, and its nonce
    BridgeProofs,         \* the cross-shard messages with a valid finality proof
    MaxCalls              \* bound: committed calls in a behaviour

VARIABLES
    source,     \* the tokens of the submitted source
    module,     \* whether it was registered, and its verified IR
    world,      \* DeTTaState, as far as aspect modules use it
    last,       \* the last call: its policy, trace and outcome
    committed   \* how many calls have been committed

vars == <<source, module, world, last, committed>>

NoCall == [outcome |-> "none", policy |-> {}, trace |-> <<>>]

-----------------------------------------------------------------------------
(* Deployment: the policy manifest of a bundle.                            *)

ClosureOf(ir, bundle) == CollectBundleAspects(ir, bundle, {})

ResolveAspectInvariant(ir, bundle, ref) == InvariantForPolicyRef(ir, ClosureOf(ir, bundle), ref)

(* core_method_policy_from_aspect, aspect_policy_invariant_refs: the       *)
(* authorities the executor can enforce, and invariants that exist.        *)
EnforceableAuthorities ==
    {"TxSender", "PermitCertificate", "BridgeCertificate", "OracleUpdaterGrant",
     "GovernanceAdminGrant"}

CorePolicyExists(ir, bundle, policy) ==
    /\ policy.authority \in EnforceableAuthorities
    /\ \A ref \in policy.invariants : ResolveAspectInvariant(ir, bundle, ref) # {}

AspectModuleMethodPolicies(ir, bundle) == {key \in DOMAIN ir.projections : key[1] = bundle}

Deployable(ir, bundle) ==
    /\ bundle \in DOMAIN ir.bundles
    /\ AspectModuleMethodPolicies(ir, bundle) # {}
    /\ \A key \in AspectModuleMethodPolicies(ir, bundle) :
          CorePolicyExists(ir, bundle, ir.policies[key])

-----------------------------------------------------------------------------
(* The snapshots an evaluation reads.                                      *)

AspectStateReads(w, ir, c) ==
    LET closure == ClosureOf(ir, w.contracts[c])
        keys == {k \in DOMAIN w.storage : k[1] = c /\ k[2] \in closure}
    IN  [r \in {<<k[3], k[4]>> : k \in keys} |->
            w.storage[CHOOSE k \in keys : <<k[3], k[4]>> = r]]

AspectContractStateReads(w) ==
    [r \in {<<k[1], k[3], k[4]>> : k \in DOMAIN w.storage} |->
        w.storage[CHOOSE k \in DOMAIN w.storage : <<k[1], k[3], k[4]>> = r]]

EnvFor(w, ir, call, msg_sender) ==
    [ir |-> ir,
     context |-> [tx_sender |-> call.sender, msg_sender |-> msg_sender,
                  current_contract |-> call.target, block_height |-> 0],
     state_reads |-> AspectStateReads(w, ir, call.target),
     contract_state_reads |-> AspectContractStateReads(w),
     max_steps |-> call.budget]

-----------------------------------------------------------------------------
(* Host operations.  A result is the new state, or why there is none:      *)
(* "policy" when the verified module's own policy or scope forbids the     *)
(* operation, "failed" for anything else.                                  *)

Done(w) == [why |-> "done", w |-> w]
Failed(why) == [why |-> why]

PatternAllows(allowlist, contract, name) ==
    \E allowed \in allowlist : allowed[2] = name /\ allowed[1] \in {Sym("*"), Sym(contract)}

(* aspect_state_key and state_set: the one state of that name the bundle   *)
(* owns; amounts and booleans can be stored.                               *)
ApplyStateSet(w, ir, c, op) ==
    LET closure == ClosureOf(ir, w.contracts[c])
        owners == {s \in DOMAIN ir.storage_schema : s[2] = op.state /\ s[1] \in closure}
        owner == CHOOSE s \in owners : TRUE
        value == IF IsA("Bool", op.value) THEN (IF op.value[2] THEN 1 ELSE 0) ELSE op.value[2]
    IN  IF Cardinality(owners) # 1
        THEN Failed("policy")
        ELSE IF ~(IsA("Amount", op.value) \/ IsA("Bool", op.value))
        THEN Failed("failed")
        ELSE Done([w EXCEPT !.storage = (<<c, owner[1], op.state, op.key>> :> value) @@ @])

(* verify_permit_certificate: the certificate names the contract, the two  *)
(* principals, the asset and the amount it permits.                        *)
VerifyPermitCertificate(c, certificate, args) ==
    /\ certificate \in DOMAIN PermitCertificates
    /\ PermitCertificates[certificate].permits = <<c>> \o args

ApplyPermitVerify(w, c, op) ==
    LET certificate == op.args[5][2]
        nonce == PermitCertificates[certificate].nonce
    IN  IF /\ VerifyPermitCertificate(c, certificate, Front(op.args))
           /\ nonce \notin w.used_certificate_nonces
        THEN Done([w EXCEPT !.used_certificate_nonces = @ \cup {nonce}])
        ELSE Failed("failed")

ApplyBridgeVerify(w, c, op) ==
    IF <<c>> \o op.args \in BridgeProofs THEN Done(w) ELSE Failed("failed")

ApplyCrossShardOutboxAppend(w, op) ==
    LET id == op.args[3][2]
    IN  IF op.args[6][2] > 0 /\ id \notin w.outbound_message_ids
        THEN Done([w EXCEPT !.outbound_message_ids = @ \cup {id}])
        ELSE Failed("failed")

(* abi_arg_kind: the values a parameter type accepts in a nested call.     *)
AbiArgAccepts(type, value) ==
    CASE type \in {Sym(t) : t \in {"Address", "Principal", "Asset", "Text", "Bytes", "Certificate"}} ->
            IsA("Atom", value)
      [] type = Sym("Amount") -> IsA("Amount", value)
      [] OTHER -> FALSE

AspectValuesFitAbi(abi_args, values) ==
    /\ HeadIs(abi_args, "args")
    /\ Len(Items(abi_args)) - 1 = Len(values)
    /\ \A i \in 1..Len(values) : AbiArgAccepts(Items(Items(abi_args)[i + 1])[2], values[i])

AspectInvariantOpIsAllowed(policy, op) ==
    CASE op.op \in {"StateGet", "RegistryGet"} -> TRUE
      [] op.op = "ContractStateGet" -> PatternAllows(policy.read_allowlist, op.contract, op.state)
      [] OTHER -> FALSE

(* check_aspect_method_invariants, on the state after the trace.           *)
InvariantsHold(w, ir, call, msg_sender, policy) ==
    \A invariant \in UNION {ResolveAspectInvariant(ir, w.contracts[call.target], ref) :
                               ref \in policy.invariants} :
        LET report == EvaluateInvariantExpr(EnvFor(w, ir, call, msg_sender), ir.invariants[invariant])
        IN  /\ report.ok
            /\ report.value = Bool(TRUE)
            /\ \A i \in 1..Len(report.run.trace) :
                  AspectInvariantOpIsAllowed(policy, report.run.trace[i])

(* aspect_values_to_host_call_args: the target's projection has an ABI and *)
(* the values fit it.                                                      *)
HostCallArgsFit(w, ir, op) ==
    LET key == <<w.contracts[op.contract], op.method>>
    IN  key \in DOMAIN ir.abi /\ AspectValuesFitAbi(ir.abi[key].args, op.args)

(* CallContext::enter: the contracts with an active frame once the call    *)
(* has begun, as a set of one, or nothing when the contract has one.       *)
Enter(active, c) == IF c \in active THEN {} ELSE {active \cup {c}}

RECURSIVE ExecuteCall(_, _, _, _, _)

ApplyCallContract(w, ir, call, policy, active, op) ==
    LET nested == [call EXCEPT !.target = op.contract, !.method = op.method, !.args = op.args]
        result == ExecuteCall(w, ir, nested, call.target, active)
    IN  IF ~PatternAllows(policy.call_allowlist, op.contract, op.method)
        THEN Failed("policy")
        ELSE IF op.contract \in DOMAIN w.contracts /\ HostCallArgsFit(w, ir, op)
        THEN result
        ELSE Failed("failed")

ApplyAspectHostOp(w, ir, call, policy, active, op) ==
    CASE op.op \in {"StateGet", "Emit"} -> Done(w)
      [] op.op = "ContractStateGet" ->
            IF PatternAllows(policy.read_allowlist, op.contract, op.state)
            THEN Done(w) ELSE Failed("policy")
      [] op.op = "StateSet" -> ApplyStateSet(w, ir, call.target, op)
      [] op.op \in {"RegistryGet", "RegistrySet", "RegistryConsume"} -> Failed("failed")
      [] op.op = "CallContract" -> ApplyCallContract(w, ir, call, policy, active, op)
      [] op.op = "PermitVerify" -> ApplyPermitVerify(w, call.target, op)
      [] op.op = "BridgeVerify" -> ApplyBridgeVerify(w, call.target, op)
      [] op.op = "CrossShardOutboxAppend" -> ApplyCrossShardOutboxAppend(w, op)

-----------------------------------------------------------------------------
(* execute_call and execute_aspect_module_method.                          *)

Report(w, ir, call, msg_sender) ==
    ExecuteProjection(EnvFor(w, ir, call, msg_sender), <<w.contracts[call.target], call.method>>,
                      call.args)

(* enforce_method_authority: the deployer holds the governance grant.      *)
Authorised(w, call, msg_sender, policy) ==
    CASE policy.authority = "GovernanceAdminGrant" -> msg_sender = w.governance_admin
      [] policy.authority = "OracleUpdaterGrant" -> FALSE
      [] OTHER -> TRUE

PolicyOf(w, ir, call) == ir.policies[<<w.contracts[call.target], call.method>>]

(* The call may begin: no frame of the contract is active, the method is   *)
(* exported and its authority holds.                                       *)
MayEnter(w, ir, call, msg_sender, active) ==
    /\ Enter(active, call.target) # {}
    /\ call.target \in DOMAIN w.contracts
    /\ <<w.contracts[call.target], call.method>> \in DOMAIN ir.projections
    /\ Authorised(w, call, msg_sender, PolicyOf(w, ir, call))

ExecuteCall(w, ir, call, msg_sender, active) ==
    LET policy == PolicyOf(w, ir, call)
        report == Report(w, ir, call, msg_sender)
        perform(r, op) ==
            IF r.why = "done"
            THEN ApplyAspectHostOp(r.w, ir, call, policy, UNION Enter(active, call.target), op)
            ELSE r
        performed == FoldLeft(perform, Done(w), report.run.trace)
    IN  IF ~MayEnter(w, ir, call, msg_sender, active) \/ ~report.ok
        THEN Failed("failed")
        ELSE IF performed.why # "done"
        THEN performed
        ELSE IF /\ InvariantsHold(performed.w, ir, call, msg_sender, policy)
                /\ ~IsA("Atom", report.value)
        THEN performed
        ELSE Failed("failed")
-----------------------------------------------------------------------------
Init ==
    /\ source \in Sources
    /\ module = [status |-> "unsubmitted", ir |-> NewIr]
    /\ world = [contracts |-> Empty, storage |-> Empty, governance_admin |-> "admin",
                used_certificate_nonces |-> {}, outbound_message_ids |-> {}]
    /\ last = NoCall
    /\ committed = 0

(* submit_aspect_module_from_factory with a source.                        *)
SubmitAspectModule ==
    LET verified == ParseVerifyModule(source)
    IN  /\ module.status = "unsubmitted"
        /\ module' = IF verified.ok
                     THEN [status |-> "registered", ir |-> verified.ir]
                     ELSE [module EXCEPT !.status = "rejected"]
        /\ UNCHANGED <<source, world, last, committed>>

(* deploy_aspect_contract; a bundle that cannot be deployed changes        *)
(* nothing.                                                                *)
DeployAspectContract(c, bundle) ==
    /\ module.status = "registered"
    /\ c \notin DOMAIN world.contracts
    /\ Deployable(module.ir, bundle)
    /\ world' = [world EXCEPT !.contracts = (c :> bundle) @@ @]
    /\ UNCHANGED <<source, module, last, committed>>

ExecuteTransaction(call) ==
    LET known == MayEnter(world, module.ir, call, call.sender, {})
        report == Report(world, module.ir, call, call.sender)
        result == ExecuteCall(world, module.ir, call, call.sender, {})
    IN  /\ module.status = "registered"
        /\ committed < MaxCalls
        /\ last' = [outcome |-> result.why,
                    policy |-> IF known THEN PolicyOf(world, module.ir, call).effects ELSE {},
                    trace |-> IF known /\ report.ok THEN report.run.trace ELSE <<>>]
        /\ world' = IF result.why = "done" THEN result.w ELSE world
        /\ committed' = IF result.why = "done" THEN committed + 1 ELSE committed
        /\ UNCHANGED <<source, module>>

Next ==
    \/ SubmitAspectModule
    \/ \E d \in Deployments : DeployAspectContract(d[1], d[2])
    \/ \E call \in Calls : ExecuteTransaction(call)

Spec == Init /\ [][Next]_vars

-----------------------------------------------------------------------------
(* Properties.                                                             *)

EffectOf(op) ==
    CASE op.op \in {"StateGet", "ContractStateGet"} -> "ReadState"
      [] op.op = "StateSet" -> "WriteState"
      [] op.op = "RegistryGet" -> "ReadRegistry"
      [] op.op = "RegistrySet" -> "WriteRegistry"
      [] op.op = "RegistryConsume" -> "ConsumeRegistryGrant"
      [] op.op = "Emit" -> "EmitEvent"
      [] op.op = "CallContract" -> "CallContract"
      [] op.op = "PermitVerify" -> "UsePermitCertificate"
      [] op.op = "BridgeVerify" -> "UseBridgeCertificate"
      [] op.op = "CrossShardOutboxAppend" -> "CrossShardOutboxAppend"

(* A committed call of a registered module performed only host operations  *)
(* whose effect the method's policy declares.  The executor does not       *)
(* compare them (apply_aspect_host_op): it relies on the effects the       *)
(* verifier infers from the text covering every operation of a run.        *)
EffectsDeclared ==
    last.outcome = "done" =>
        \A i \in 1..Len(last.trace) : EffectOf(last.trace[i]) \in last.policy

RECURSIVE Subexpressions(_)
Subexpressions(e) ==
    IF IsAtom(e) THEN {e} ELSE {e} \cup UNION {Subexpressions(Items(e)[i]) : i \in 1..Len(Items(e))}

(* What is evaluated of a module besides its projections.                  *)
Evaluated(ir) ==
    UNION ({Subexpressions(ir.invariants[key]) : key \in DOMAIN ir.invariants}
           \cup {Subexpressions(BodyParts(ir.actions[key].body).rhs) :
                    key \in {k \in DOMAIN ir.actions :
                                ir.actions[k].body # None /\ BodyParts(ir.actions[k].body).ok}})

(* The texts the verifier does not read as the interpreter does.  It looks *)
(* at the action of a projection, not at the projection's own application  *)
(* of it: the arguments may be computed, and the action may have the name  *)
(* of a form.  It takes a comparison (= (action ...) x) for a definition   *)
(* and skips the left side.  It takes tx.sender and msg.sender, as the     *)
(* contract to call or read, for the names of contracts.                   *)
ProjectionComputes(ir) ==
    \E key \in DOMAIN ir.projections :
        LET applied == Items(BodyParts(ir.projections[key]).rhs)
        IN  /\ BodyParts(ir.projections[key]).ok
            /\ \/ applied[1] \in {Sym(form) : form \in LazyForms \cup StrictForms}
               \/ \E i \in 2..Len(applied) : IsList(applied[i])

ActionCompared(ir) ==
    \E e \in Evaluated(ir) : IsList(e) /\ IsActionDefinitionExpr(ir, Items(e))

SenderIsSite(ir) ==
    \E e \in Evaluated(ir) :
        /\ HeadIs(e, "call-contract!") \/ HeadIs(e, "contract-state-get")
        /\ Len(Items(e)) > 1
        /\ Items(e)[2] \in {Sym("tx.sender"), Sym("msg.sender")}

ReadAsRun(ir) == ~ProjectionComputes(ir) /\ ~ActionCompared(ir) /\ ~SenderIsSite(ir)

(* Of a module without those texts, what the verifier accepts by its text  *)
(* the executor performs by value: a committed call had no effect that its *)
(* policy does not declare, and no operation of a call is refused for its  *)
(* scope or its allowlists, whatever contract a variable turns out to      *)
(* hold and whichever branches are taken (verify_effects_and_write_scopes, *)
(* apply_aspect_host_op).                                                  *)
VerifiedTextCoversRun ==
    ReadAsRun(module.ir) => EffectsDeclared /\ last.outcome # "policy"

(* The source root identifies the package: the canonical source it hashes  *)
(* parses back to the same declarations, so two packages that differ have  *)
(* different roots, and a canonical source is its own canonical form.      *)
SourceRootIdentifiesPackage ==
    LET parsed == ParseAspectPackage(source)
        canonical == CanonicalAspectSource(parsed.ast)
    IN  parsed.ok => ParseAspectPackage(canonical) = parsed

(* The supply a token module records is the sum of the balances it         *)
(* records: what a transfer takes from one account it gives to the other.  *)
BalanceKeys(c) == {k \in DOMAIN world.storage : k[1] = c /\ k[3] = Sym("balanceOf")}

SupplyMatchesBalances ==
    \A c \in DOMAIN world.contracts :
        \A k \in DOMAIN world.storage :
            k[1] = c /\ k[3] = Sym("totalSupply") =>
                world.storage[k] = FoldSet(LAMBDA b, sum : sum + world.storage[b], 0, BalanceKeys(c))
==============================================================================
