--------------------------- MODULE AspectVerifier ---------------------------
(***************************************************************************)
(* The aspect verifier (detta-aspects): lower_to_ir builds a module's      *)
(* intermediate representation from its declarations, verify_module        *)
(* accepts or rejects it.  The errors are not told apart.                  *)
(*                                                                         *)
(* The IR is a record of the code's maps.  Actions, states, registries and *)
(* invariants are keyed by their aspect and name, projections, ABIs and    *)
(* policies by their bundle and name.                                      *)
(***************************************************************************)
EXTENDS AspectSyntax, FiniteSets

Empty == <<>>

NewIr ==
    [types |-> Empty, aspects |-> Empty, bundles |-> Empty, projections |-> Empty,
     actions |-> Empty, storage_schema |-> Empty, registry_schema |-> Empty,
     invariants |-> Empty, abi |-> Empty, policies |-> Empty]

-----------------------------------------------------------------------------
(* The parts of a method policy.                                           *)

Authorities ==
    {"TxSender", "MsgSender", "RoleGrant", "Allowance", "PermitCertificate",
     "OracleUpdaterGrant", "BridgeCertificate", "GovernanceAdminGrant", "Custom"}

EffectKinds ==
    {"ReadState", "WriteState", "ReadRegistry", "WriteRegistry", "ConsumeRegistryGrant",
     "EmitEvent", "CallContract", "DeployContract", "ScheduleUpgrade", "ExecuteUpgrade",
     "CrossShardOutboxAppend", "UsePermitCertificate", "UseBridgeCertificate", "Abort"}

Tail2(e) == Tail(Items(e))

ParseAuthority(e) == [ok |-> e[1] = "sym" /\ e[2] \in Authorities, value |-> e[2]]

ParseEffects(e) ==
    [ok |-> /\ HeadIs(e, "effects")
            /\ \A i \in 2..Len(Items(e)) :
                  Items(e)[i][1] = "sym" /\ Items(e)[i][2] \in EffectKinds,
     value |-> {Tail2(e)[i][2] : i \in 1..(Len(Items(e)) - 1)}]

ParseInvariants(e) ==
    [ok |-> HeadIs(e, "invariants") /\ \A i \in 2..Len(Items(e)) : IsAtom(Items(e)[i]),
     value |-> {Tail2(e)[i] : i \in 1..(Len(Items(e)) - 1)}]

(* A list of patterns (entry target name); the target "*" is any contract. *)
ParseAllowlist(e, head, entry) ==
    [ok |-> \/ e = None
            \/ /\ HeadIs(e, head)
               /\ \A i \in 2..Len(Items(e)) :
                     LET item == Items(e)[i]
                     IN  /\ HeadIs(item, entry)
                         /\ Len(Items(item)) = 3
                         /\ \A k \in 2..3 : IsAtom(Items(item)[k]),
     value |-> IF e = None
               THEN {}
               ELSE {<<Items(Tail2(e)[i])[2], Items(Tail2(e)[i])[3]>> :
                        i \in 1..(Len(Items(e)) - 1)}]

ParseCallAllowlist(e) == ParseAllowlist(e, "calls", "call")
ParseReadAllowlist(e) == ParseAllowlist(e, "reads", "read")

-----------------------------------------------------------------------------
(* lower_to_ir: one declaration after the other.                           *)

Rejected == [ok |-> FALSE]
Lowered(ir) == [ok |-> TRUE, ir |-> ir]

InsertUnique(ir, field, key, value) ==
    IF key \in DOMAIN ir[field]
    THEN Rejected
    ELSE Lowered([ir EXCEPT ![field] = (key :> value) @@ @])

(* Adds to a set of an aspect or bundle that is already declared.          *)
Amend(ir, field, key, set, value) ==
    IF key \in DOMAIN ir[field]
    THEN Lowered([ir EXCEPT ![field][key][set] = @ \cup {value}])
    ELSE Rejected

NewAspect(is_abstract) ==
    [is_abstract |-> is_abstract, extends |-> {}, conflicts |-> {}, provides |-> {}, requires |-> {}]

NewBundle == [includes |-> {}, extends |-> {}, constraints |-> {}]

LowerAction(ir, key) ==
    IF key \notin DOMAIN ir.actions
    THEN InsertUnique(ir, "actions", key, [declared |-> TRUE, body |-> None])
    ELSE IF ir.actions[key].declared
         THEN Rejected
         ELSE Lowered([ir EXCEPT !.actions[key].declared = TRUE])

LowerDerived(ir, key, body) ==
    IF key \notin DOMAIN ir.actions
    THEN InsertUnique(ir, "actions", key, [declared |-> FALSE, body |-> body])
    ELSE IF ir.actions[key].body # None
         THEN Rejected
         ELSE Lowered([ir EXCEPT !.actions[key].body = body])

LowerPolicy(ir, d) ==
    LET authority == ParseAuthority(d.exprs[1])
        effects == ParseEffects(d.exprs[2])
        invariants == ParseInvariants(d.exprs[3])
        calls == ParseCallAllowlist(d.calls)
        reads == ParseReadAllowlist(d.reads)
    IN  IF authority.ok /\ effects.ok /\ invariants.ok /\ calls.ok /\ reads.ok
        THEN InsertUnique(ir, "policies", d.names,
                [authority |-> authority.value, effects |-> effects.value,
                 invariants |-> invariants.value, call_allowlist |-> calls.value,
                 read_allowlist |-> reads.value])
        ELSE Rejected

(* The declarations about a bundle that exists or a projection of one.     *)
LowerBundleDeclaration(ir, d) ==
    LET name == d.names[1]
        second == d.names[2]
    IN  CASE d.form = "bundle-includes" -> Amend(ir, "bundles", name, "includes", second)
          [] d.form = "bundle-extends" -> Amend(ir, "bundles", name, "extends", second)
          [] d.form = "bundle-constraint" ->
                IF name \in DOMAIN ir.bundles /\ second \in ir.bundles[name].constraints
                THEN Rejected
                ELSE Amend(ir, "bundles", name, "constraints", second)
          [] d.form = "projection" -> InsertUnique(ir, "projections", d.names, d.exprs[1])
          [] d.form = "method-abi" ->
                InsertUnique(ir, "abi", d.names, [args |-> d.exprs[1], return_type |-> d.exprs[2]])
          [] d.form = "method-policy" -> LowerPolicy(ir, d)

LowerDeclaration(ir, d) ==
    LET name == d.names[1]
        second == d.names[2]
    IN  CASE d.form = ":" -> InsertUnique(ir, "types", name, d.exprs[1])
          [] d.form = "aspect" -> InsertUnique(ir, "aspects", name, NewAspect(FALSE))
          [] d.form = "abstract-aspect" -> InsertUnique(ir, "aspects", name, NewAspect(TRUE))
          [] d.form = "bundle" -> InsertUnique(ir, "bundles", name, NewBundle)
          [] d.form \in {"layer-of", "cross-constraint"} -> Lowered(ir)
          [] d.form \in {"extends", "conflicts", "provides", "requires"} ->
                Amend(ir, "aspects", name, d.form, second)
          [] d.form = "owns" -> InsertUnique(ir, "storage_schema", d.names, d.exprs[1])
          [] d.form = "registry-owns" -> InsertUnique(ir, "registry_schema", d.names, d.exprs[1])
          [] d.form = "action" -> LowerAction(ir, d.names)
          [] d.form = "derived" -> LowerDerived(ir, d.names, d.exprs[1])
          [] d.form = "local-invariant" -> InsertUnique(ir, "invariants", d.names, d.exprs[1])
          [] OTHER -> LowerBundleDeclaration(ir, d)

LowerToIr(ast) ==
    FoldLeft(LAMBDA r, d : IF r.ok THEN LowerDeclaration(r.ir, d) ELSE r, Lowered(NewIr), ast)

-----------------------------------------------------------------------------
(* verify_module, check by check.                                          *)

AspectsKnown(ir, keys) == \A key \in keys : key[1] \in DOMAIN ir.aspects

VerifyReferences(ir) ==
    /\ \A a \in DOMAIN ir.aspects :
          ir.aspects[a].extends \cup ir.aspects[a].conflicts \subseteq DOMAIN ir.aspects
    /\ AspectsKnown(ir, DOMAIN ir.storage_schema)
    /\ AspectsKnown(ir, DOMAIN ir.registry_schema)
    /\ AspectsKnown(ir, DOMAIN ir.actions)
    /\ AspectsKnown(ir, DOMAIN ir.invariants)
    /\ \A b \in DOMAIN ir.bundles :
          /\ ir.bundles[b].includes \subseteq DOMAIN ir.aspects
          /\ ir.bundles[b].extends \subseteq DOMAIN ir.bundles
    /\ \A key \in DOMAIN ir.projections : key[1] \in DOMAIN ir.bundles
    /\ DOMAIN ir.abi \cup DOMAIN ir.policies \subseteq DOMAIN ir.projections

BuiltinTypes ==
    {"->", "Type", "Bool", "UInt8", "UInt64", "Amount", "Address", "Asset", "Contract",
     "Method", "Role", "Bytes", "String", "Time", "Height", "Event"}

RECURSIVE AtomsOf(_)
AtomsOf(e) ==
    IF IsAtom(e) THEN {e} ELSE UNION {AtomsOf(Items(e)[i]) : i \in 1..Len(Items(e))}

VerifyTypeExpr(e, known) == AtomsOf(e) \subseteq known

VerifyAbiArgs(args, known) ==
    /\ IsList(args)
    /\ Items(args) # <<>> =>
          /\ HeadIs(args, "args")
          /\ \A i \in 2..Len(Items(args)) :
                LET pair == Items(args)[i]
                IN  /\ IsList(pair)
                    /\ Len(Items(pair)) = 2
                    /\ IsAtom(Items(pair)[1])
                    /\ VerifyTypeExpr(Items(pair)[2], known)

VerifyTypeExpressions(ir) ==
    LET known == {Sym(t) : t \in BuiltinTypes} \cup DOMAIN ir.types
    IN  /\ \A t \in DOMAIN ir.types : VerifyTypeExpr(ir.types[t], known)
        /\ \A s \in DOMAIN ir.storage_schema : VerifyTypeExpr(ir.storage_schema[s], known)
        /\ \A r \in DOMAIN ir.registry_schema : VerifyTypeExpr(ir.registry_schema[r], known)
        /\ \A m \in DOMAIN ir.abi :
              /\ VerifyAbiArgs(ir.abi[m].args, known)
              /\ VerifyTypeExpr(ir.abi[m].return_type, known)

VerifyActionDeclarations(ir) == \A a \in DOMAIN ir.actions : ir.actions[a].declared

(* A state name, or a registry name, has one owner in the whole module.    *)
OneOwner(schema) == \A x, y \in DOMAIN schema : x[2] = y[2] => x = y

VerifyStateOwnership(ir) == OneOwner(ir.storage_schema)

VerifyRegistryOwnership(ir) == OneOwner(ir.registry_schema)

(* The aspects of a bundle: the included ones of the bundle and of those   *)
(* it extends, each with the aspects it extends.  "visiting" is the path   *)
(* from the root, which is how the code meets a cycle of extends.          *)
RECURSIVE CollectAspectWithParents(_, _, _)
CollectAspectWithParents(ir, aspect, visiting) ==
    IF aspect \in visiting
    THEN {}
    ELSE {aspect} \cup UNION {CollectAspectWithParents(ir, parent, visiting \cup {aspect}) :
                                 parent \in ir.aspects[aspect].extends}

RECURSIVE CollectBundleAspects(_, _, _)
CollectBundleAspects(ir, bundle, visiting) ==
    IF bundle \in visiting
    THEN {}
    ELSE UNION {CollectBundleAspects(ir, parent, visiting \cup {bundle}) :
                   parent \in ir.bundles[bundle].extends}
         \cup UNION {CollectAspectWithParents(ir, aspect, {}) :
                        aspect \in ir.bundles[bundle].includes}

BundleAspectClosures(ir) == [b \in DOMAIN ir.bundles |-> CollectBundleAspects(ir, b, {})]

VerifyRequiredFacets(ir, closures) ==
    \A b \in DOMAIN closures :
        UNION {ir.aspects[a].requires : a \in closures[b]}
            \subseteq UNION {ir.aspects[a].provides : a \in closures[b]}

VerifyConflicts(ir, closures) ==
    \A b \in DOMAIN closures : \A a \in closures[b] : ir.aspects[a].conflicts \cap closures[b] = {}

(* The action a projection (= (name params) (action args)) is declared to  *)
(* call, or None.                                                          *)
ProjectionTargetAction(e) ==
    IF /\ HeadIs(e, "=")
       /\ Len(Items(e)) = 3
       /\ IsList(Items(e)[3])
       /\ Len(Items(Items(e)[3])) > 0
       /\ IsAtom(Items(Items(e)[3])[1])
    THEN Items(Items(e)[3])[1]
    ELSE None

(* The actions of that name in the bundle's aspects.                       *)
ActionsForTarget(ir, closure, target) ==
    {key \in DOMAIN ir.actions : key[2] = target /\ key[1] \in closure}

VerifyProjections(ir, closures) ==
    \A key \in DOMAIN ir.projections :
        LET target == ProjectionTargetAction(ir.projections[key])
        IN  /\ target # None
            /\ ActionsForTarget(ir, closures[key[1]], target) # {}

VerifyProjectionAbiAndPolicy(ir) ==
    DOMAIN ir.projections \subseteq DOMAIN ir.abi \cap DOMAIN ir.policies

-----------------------------------------------------------------------------
(* The call graph of the actions.                                          *)

ActionsNamed(ir, name) == {key \in DOMAIN ir.actions : key[2] = name}

RECURSIVE CollectActionCalls(_, _)
CollectActionCalls(ir, e) ==
    IF IsAtom(e) \/ Items(e) = <<>>
    THEN {}
    ELSE IF HeadIs(e, "=") /\ Len(Items(e)) = 3
         THEN CollectActionCalls(ir, Items(e)[3])
         ELSE (IF IsAtom(Items(e)[1]) THEN ActionsNamed(ir, Items(e)[1]) ELSE {})
              \cup UNION {CollectActionCalls(ir, Items(e)[i]) : i \in 2..Len(Items(e))}

ActionCalls(ir) ==
    [key \in DOMAIN ir.actions |->
        IF ir.actions[key].body = None THEN {} ELSE CollectActionCalls(ir, ir.actions[key].body)]

RECURSIVE DetectActionCycle(_, _, _)
DetectActionCycle(action, graph, visiting) ==
    \/ action \in visiting
    \/ \E callee \in graph[action] : DetectActionCycle(callee, graph, visiting \cup {action})

VerifyActionCallGraph(ir) ==
    \A key \in DOMAIN ir.actions : ~DetectActionCycle(key, ActionCalls(ir), {})

-----------------------------------------------------------------------------
(* The effects of an expression, inferred from its text: a set of facts    *)
(* <<"effect", kind>>, <<"write", state>>, <<"registry", registry>>,       *)
(* <<"call", target, method>> and <<"read", target, state>>.               *)

HostForms ==
    ("state-get" :> "ReadState") @@ ("contract-state-get" :> "ReadState")
    @@ ("state-set!" :> "WriteState") @@ ("registry-get" :> "ReadRegistry")
    @@ ("registry-set!" :> "WriteRegistry") @@ ("registry-consume!" :> "ConsumeRegistryGrant")
    @@ ("emit!" :> "EmitEvent") @@ ("call-contract!" :> "CallContract")
    @@ ("deploy-contract!" :> "DeployContract") @@ ("schedule-upgrade!" :> "ScheduleUpgrade")
    @@ ("execute-upgrade!" :> "ExecuteUpgrade")
    @@ ("cross-shard-outbox-append!" :> "CrossShardOutboxAppend")
    @@ ("permit-verify!" :> "UsePermitCertificate")
    @@ ("bridge-verify!" :> "UseBridgeCertificate") @@ ("abort" :> "Abort")

(* A contract named in the text, or one only known when the call is made.  *)
InferredSiteTarget(e) ==
    IF e[1] \in {"var", "list"} \/ e = Sym("current-contract") THEN <<"dynamic", e>> ELSE <<"exact", e>>

InferredSite(kind, items) ==
    IF Len(items) >= 3 /\ IsAtom(items[3])
    THEN {<<kind, InferredSiteTarget(items[2]), items[3]>>}
    ELSE {}

InferredName(kind, items) ==
    IF Len(items) >= 2 /\ IsAtom(items[2]) THEN {<<kind, items[2]>>} ELSE {}

(* Mutant: a write is recorded in the write scope only.                    *)
InferredFormWithoutWrites(form, items) ==
    IF form = "state-set!"
    THEN InferredName("write", items)
    ELSE {<<"effect", HostForms[form]>>}
         \cup CASE form \in {"registry-get", "registry-set!", "registry-consume!"} ->
                      InferredName("registry", items)
                [] form = "call-contract!" -> InferredSite("call", items)
                [] form = "contract-state-get" -> InferredSite("read", items)
                [] OTHER -> {}

InferredForm(form, items) ==
    {<<"effect", HostForms[form]>>}
    \cup CASE form = "state-set!" -> InferredName("write", items)
           [] form \in {"registry-get", "registry-set!", "registry-consume!"} ->
                 InferredName("registry", items)
           [] form = "call-contract!" -> InferredSite("call", items)
           [] form = "contract-state-get" -> InferredSite("read", items)
           [] OTHER -> {}

IsActionDefinitionExpr(ir, items) ==
    /\ Len(items) = 3
    /\ items[1] = Sym("=")
    /\ IsList(items[2])
    /\ Items(items[2]) # <<>>
    /\ ActionsNamed(ir, Items(items[2])[1]) # {}

RECURSIVE InferExprEffects(_, _, _), InferActionEffects(_, _, _)
InferExprEffects(ir, e, visited) ==
    LET items == Items(e)
        head == items[1]
        each(from) == UNION {InferExprEffects(ir, items[i], visited) : i \in from..Len(items)}
    IN  IF IsAtom(e)
        THEN {}
        ELSE IF items = <<>> \/ IsList(head)
        THEN each(1)
        ELSE IF IsActionDefinitionExpr(ir, items)
        THEN InferExprEffects(ir, items[3], visited)
        ELSE (IF head[1] = "sym" /\ head[2] \in DOMAIN HostForms
              THEN InferredForm(head[2], items)
              ELSE UNION {InferActionEffects(ir, key, visited) : key \in ActionsNamed(ir, head)})
             \cup each(2)

InferActionEffects(ir, key, visited) ==
    IF key \in visited \/ ir.actions[key].body = None
    THEN {}
    ELSE InferExprEffects(ir, ir.actions[key].body, visited \cup {key})

(* The invariant a policy names, as a set: empty when there is none or     *)
(* more than one of that name in the bundle.  (A reference may also be     *)
(* qualified by the aspect, which only removes the ambiguity.)             *)
InvariantForPolicyRef(ir, closure, ref) ==
    LET matches == {key \in DOMAIN ir.invariants : key[2] = ref /\ key[1] \in closure}
    IN  IF Cardinality(matches) = 1 THEN matches ELSE {}

(* Mutant: a target that is only known at run time is allowed by any       *)
(* pattern for the method.                                                 *)
SiteAllowedIfDynamic(site, allowlist) ==
    \E allowed \in allowlist :
        /\ allowed[2] = site[3]
        /\ \/ allowed[1] = Sym("*")
           \/ site[2][1] = "dynamic"
           \/ site[2] = <<"exact", allowed[1]>>

(* A site is allowed by a pattern of the policy's list.                    *)
SiteAllowed(site, allowlist) ==
    \E allowed \in allowlist :
        /\ allowed[2] = site[3]
        /\ \/ allowed[1] = Sym("*")
           \/ site[2] = <<"exact", allowed[1]>>

(* What the verifier compares with a projection's policy: the effects of   *)
(* the target action, and the reads of the invariants the policy names.    *)
InferredFor(ir, closure, key) ==
    LET target == ProjectionTargetAction(ir.projections[key])
        action == CHOOSE a \in ActionsForTarget(ir, closure, target) : TRUE
        refs == UNION {InvariantForPolicyRef(ir, closure, r) : r \in ir.policies[key].invariants}
    IN  InferActionEffects(ir, action, {})
        \cup {fact \in UNION {InferExprEffects(ir, ir.invariants[r], {}) : r \in refs} :
                 fact[1] = "read"}

OwnedByBundle(schema, closure, name) == \E key \in DOMAIN schema : key[2] = name /\ key[1] \in closure

PolicyCovers(ir, closure, policy, inferred) ==
    /\ \A fact \in inferred : fact[1] = "effect" => fact[2] \in policy.effects
    /\ <<"effect", "CallContract">> \in inferred => policy.call_allowlist # {}
    /\ \A fact \in inferred : fact[1] = "call" => SiteAllowed(fact, policy.call_allowlist)
    /\ \A fact \in inferred : fact[1] = "read" => SiteAllowed(fact, policy.read_allowlist)
    /\ \A fact \in inferred :
          fact[1] = "write" => OwnedByBundle(ir.storage_schema, closure, fact[2])
    /\ \A fact \in inferred :
          fact[1] = "registry" => OwnedByBundle(ir.registry_schema, closure, fact[2])

VerifyEffectsAndWriteScopes(ir, closures) ==
    \A key \in DOMAIN ir.projections :
        PolicyCovers(ir, closures[key[1]], ir.policies[key], InferredFor(ir, closures[key[1]], key))

VerifyModule(ir) ==
    /\ VerifyReferences(ir)
    /\ VerifyTypeExpressions(ir)
    /\ VerifyActionDeclarations(ir)
    /\ VerifyStateOwnership(ir)
    /\ VerifyRegistryOwnership(ir)
    /\ VerifyActionCallGraph(ir)
    /\ LET closures == BundleAspectClosures(ir)
       IN  /\ VerifyRequiredFacets(ir, closures)
           /\ VerifyConflicts(ir, closures)
           /\ VerifyProjections(ir, closures)
           /\ VerifyProjectionAbiAndPolicy(ir)
           /\ VerifyEffectsAndWriteScopes(ir, closures)

(* parse_verify_module.                                                    *)
ParseVerifyModule(tokens) ==
    LET parsed == ParseAspectPackage(tokens)
        lowered == IF parsed.ok THEN LowerToIr(parsed.ast) ELSE Rejected
    IN  [ok |-> lowered.ok /\ VerifyModule(lowered.ir),
         ir |-> IF lowered.ok THEN lowered.ir ELSE NewIr]
=============================================================================
