----------------------------- MODULE Governance -----------------------------
(***************************************************************************)
(* The governance contract of detta-core: pausing, and the two timelocked  *)
(* changes of the contract it governs, of its code hash and of the effects *)
(* its method policies declare.                                            *)
(***************************************************************************)
EXTENDS ContractState

RequireGovernanceAdmin(w, t) == HasGrant(w, <<"GovernanceAdmin", t.target, t.sender>>)

PauseContract(w, t) ==
    Require(RequireGovernanceAdmin(w, t), w,
            Ok([w EXCEPT !.paused_contracts = @ \cup {Kind(w, t.target).governed}]))

UnpauseContract(w, t) ==
    Require(RequireGovernanceAdmin(w, t), w,
            Ok([w EXCEPT !.paused_contracts = @ \ {Kind(w, t.target).governed}]))

(* Mutant: the delay is left out.                                          *)
ExecuteAtOnce(w, governance) == w.height

(* The first height at which a change scheduled now may be executed.       *)
ExecuteAfterHeight(w, governance) == w.height + Kind(w, governance).timelock_delay

Schedule(w, t) ==
    [governance |-> t.target, target |-> Kind(w, t.target).governed,
     execute_after_height |-> ExecuteAfterHeight(w, t.target), executed |-> FALSE]

ScheduleUpgrade(w, t) ==
    Require(/\ RequireGovernanceAdmin(w, t)
            /\ t.id \notin DOMAIN w.scheduled_upgrades
            /\ ExecuteAfterHeight(w, t.target) <= MaxHeight,
            w, Ok([w EXCEPT !.scheduled_upgrades =
                     Over(Entry(t.id, Over([new_code_hash |-> t.code_hash], Schedule(w, t))), @)]))

(* A scheduled change may be executed once, by the governance contract     *)
(* that scheduled it, after its delay.                                     *)
Executable(w, change, t) ==
    /\ ~change.executed
    /\ change.governance = t.target /\ change.target = Kind(w, t.target).governed
    /\ w.height >= change.execute_after_height
    /\ change.target \in DOMAIN w.contracts

(* Neither storage nor the registry is written, so the comparison of their *)
(* roots with those before never fails.                                    *)
ExecuteUpgrade(w, t) ==
    LET upgrade == w.scheduled_upgrades[t.id]
    IN  Require(/\ RequireGovernanceAdmin(w, t)
                /\ t.id \in DOMAIN w.scheduled_upgrades
                /\ Executable(w, upgrade, t),
                w, Ok([w EXCEPT !.contracts[upgrade.target].code_hash = upgrade.new_code_hash,
                                !.scheduled_upgrades[t.id].executed = TRUE]))

(* parse_policy_method and parse_policy_effect know the native methods and *)
(* every effect; a projection of an aspect module has no name there.       *)
NativeMethods ==
    UNION {DOMAIN TokenPolicies, DOMAIN AmmPoolPolicies, DOMAIN OraclePolicies,
           DOMAIN BridgePolicies, DOMAIN GovernancePolicies, DOMAIN LendingVaultPolicies,
           DOMAIN StakingPolicies, DOMAIN RouterPolicies, DOMAIN FactoryPolicies,
           DOMAIN AccountRegistryPolicies}

PolicyEffects ==
    {"StorageWrite", "RegistryWrite", "EventEmit", "ModuleRegister", "ContractPause",
     "UpgradeSchedule", "ContractCodeUpgrade", "PolicyUpdateSchedule", "MethodPolicyUpdate",
     "CrossContractCall", "CrossShardOutboxAppend", "ContractDeploy"}

SchedulePolicyUpdate(w, t) ==
    LET governed == Kind(w, t.target).governed
    IN  Require(/\ t.policy_method \in NativeMethods /\ t.effect \in PolicyEffects
                /\ RequireGovernanceAdmin(w, t)
                /\ t.id \notin DOMAIN w.scheduled_policy_updates
                /\ governed \in DOMAIN w.contracts
                /\ t.policy_method \in DOMAIN Contract(w, governed).method_policies
                /\ ExecuteAfterHeight(w, t.target) <= MaxHeight,
                w, Ok([w EXCEPT !.scheduled_policy_updates =
                         Over(Entry(t.id, Over([method |-> t.policy_method, effect |-> t.effect],
                                               Schedule(w, t))), @)]))

ExecutePolicyUpdate(w, t) ==
    LET update == w.scheduled_policy_updates[t.id]
    IN  Require(/\ RequireGovernanceAdmin(w, t)
                /\ t.id \in DOMAIN w.scheduled_policy_updates
                /\ Executable(w, update, t)
                /\ update.method \in DOMAIN Contract(w, update.target).method_policies,
                w, Ok([w EXCEPT !.contracts[update.target].method_policies[update.method].effects =
                                    @ \cup {update.effect},
                                !.scheduled_policy_updates[t.id].executed = TRUE]))

=============================================================================
