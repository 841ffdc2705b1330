------------------------ MODULE ContractCalls_proofs ------------------------
(***************************************************************************)
(* What a call does.  StateInv is what is kept of a state: it is well      *)
(* formed, the books of its contracts agree with their counters, and its   *)
(* grants, schedules and outbox are in order.  The calls that deploy or    *)
(* administer contracts keep it, and so do those that only write storage,  *)
(* each within the scope of its method.                                    *)
(***************************************************************************)
EXTENDS Contracts, ContractHandlers_proofs

-----------------------------------------------------------------------------
(* The kind of contract that exports a native method.                      *)

KindOfMethod ==
    [Transfer |-> "Token", Approve |-> "Token", TransferFrom |-> "Token", Permit |-> "Token",
     AddLiquidity |-> "AmmPool", Swap |-> "AmmPool", SubmitPrice |-> "Oracle",
     QueueBridgeMessage |-> "Bridge", RedeemBridgeMessage |-> "Bridge",
     PauseContract |-> "Governance", UnpauseContract |-> "Governance",
     ScheduleUpgrade |-> "Governance", ExecuteUpgrade |-> "Governance",
     SchedulePolicyUpdate |-> "Governance", ExecutePolicyUpdate |-> "Governance",
     DepositCollateral |-> "LendingVault", Borrow |-> "LendingVault", Liquidate |-> "LendingVault",
     Stake |-> "Staking", Unstake |-> "Staking", RequestUnstake |-> "Staking",
     CompleteUnstake |-> "Staking", ClaimStakingRewards |-> "Staking",
     RouteTransferFrom |-> "Router", DeployToken |-> "Factory", DeployAmmPool |-> "Factory",
     SubmitAspectModule |-> "Factory", DeployAspectContract |-> "Factory",
     RegisterAccountKey |-> "AccountRegistry", RevokeAccountKey |-> "AccountRegistry"]

(* The effects a native method is deployed with, but for the events.       *)
StandardEffects ==
    [Transfer |-> "StorageWrite", AddLiquidity |-> "StorageWrite", Swap |-> "StorageWrite",
     SubmitPrice |-> "StorageWrite", QueueBridgeMessage |-> "CrossShardOutboxAppend",
     RedeemBridgeMessage |-> "StorageWrite", PauseContract |-> "ContractPause",
     UnpauseContract |-> "ContractPause", ScheduleUpgrade |-> "UpgradeSchedule",
     ExecuteUpgrade |-> "ContractCodeUpgrade", SchedulePolicyUpdate |-> "PolicyUpdateSchedule",
     ExecutePolicyUpdate |-> "MethodPolicyUpdate", DepositCollateral |-> "StorageWrite",
     Borrow |-> "StorageWrite", Liquidate |-> "StorageWrite", Stake |-> "StorageWrite",
     Unstake |-> "StorageWrite", RequestUnstake |-> "StorageWrite",
     CompleteUnstake |-> "StorageWrite", ClaimStakingRewards |-> "StorageWrite",
     DeployToken |-> "ContractDeploy", DeployAmmPool |-> "ContractDeploy",
     SubmitAspectModule |-> "ModuleRegister", DeployAspectContract |-> "ContractDeploy",
     RegisterAccountKey |-> "RegistryWrite", RevokeAccountKey |-> "RegistryWrite"]

LEMMA NativeDomains ==
    /\ DOMAIN TokenPolicies = {"Transfer", "Approve", "TransferFrom", "Permit"}
    /\ DOMAIN AmmPoolPolicies = {"AddLiquidity", "Swap"}
    /\ DOMAIN OraclePolicies = {"SubmitPrice"}
    /\ DOMAIN BridgePolicies = {"QueueBridgeMessage", "RedeemBridgeMessage"}
    /\ DOMAIN GovernancePolicies =
           {"PauseContract", "UnpauseContract", "ScheduleUpgrade", "ExecuteUpgrade",
            "SchedulePolicyUpdate", "ExecutePolicyUpdate"}
    /\ DOMAIN LendingVaultPolicies = {"DepositCollateral", "Borrow", "Liquidate"}
    /\ DOMAIN StakingPolicies =
           {"Stake", "Unstake", "RequestUnstake", "CompleteUnstake", "ClaimStakingRewards"}
    /\ DOMAIN RouterPolicies = {"RouteTransferFrom"}
    /\ DOMAIN FactoryPolicies =
           {"DeployToken", "DeployAmmPool", "SubmitAspectModule", "DeployAspectContract"}
    /\ DOMAIN AccountRegistryPolicies = {"RegisterAccountKey", "RevokeAccountKey"}
<1>1. DOMAIN TokenPolicies = {"Transfer", "Approve", "TransferFrom", "Permit"}
    BY Zenon DEF TokenPolicies
<1>2. /\ DOMAIN AmmPoolPolicies = {"AddLiquidity", "Swap"}
      /\ DOMAIN OraclePolicies = {"SubmitPrice"}
      /\ DOMAIN BridgePolicies = {"QueueBridgeMessage", "RedeemBridgeMessage"}
    BY Zenon DEF AmmPoolPolicies, OraclePolicies, BridgePolicies
<1>3. DOMAIN GovernancePolicies =
           {"PauseContract", "UnpauseContract", "ScheduleUpgrade", "ExecuteUpgrade",
            "SchedulePolicyUpdate", "ExecutePolicyUpdate"}
    BY Zenon DEF GovernancePolicies
<1>4. DOMAIN LendingVaultPolicies = {"DepositCollateral", "Borrow", "Liquidate"}
    BY Zenon DEF LendingVaultPolicies
<1>5. DOMAIN StakingPolicies =
           {"Stake", "Unstake", "RequestUnstake", "CompleteUnstake", "ClaimStakingRewards"}
    BY Zenon DEF StakingPolicies
<1>6. /\ DOMAIN RouterPolicies = {"RouteTransferFrom"}
      /\ DOMAIN FactoryPolicies =
           {"DeployToken", "DeployAmmPool", "SubmitAspectModule", "DeployAspectContract"}
      /\ DOMAIN AccountRegistryPolicies = {"RegisterAccountKey", "RevokeAccountKey"}
    BY Zenon DEF RouterPolicies, FactoryPolicies, AccountRegistryPolicies
<1>7. QED
    BY <1>1, <1>2, <1>3, <1>4, <1>5, <1>6, Zenon

NativeNames ==
    {"Token", "AmmPool", "Oracle", "Bridge", "Governance", "LendingVault", "Staking", "Router",
     "Factory", "AccountRegistry"}

LEMMA NativePolicyFields ==
    /\ DOMAIN NativePolicies = NativeNames
    /\ NativePolicies["Token"] = TokenPolicies
    /\ NativePolicies["AmmPool"] = AmmPoolPolicies
    /\ NativePolicies["Oracle"] = OraclePolicies
    /\ NativePolicies["Bridge"] = BridgePolicies
    /\ NativePolicies["Governance"] = GovernancePolicies
    /\ NativePolicies["LendingVault"] = LendingVaultPolicies
    /\ NativePolicies["Staking"] = StakingPolicies
    /\ NativePolicies["Router"] = RouterPolicies
    /\ NativePolicies["Factory"] = FactoryPolicies
    /\ NativePolicies["AccountRegistry"] = AccountRegistryPolicies
    BY Zenon DEF NativePolicies, NativeNames

(* No two kinds export the same method.                                    *)
LEMMA MethodsOfKinds ==
    ASSUME NEW name \in DOMAIN NativePolicies, NEW m \in DOMAIN NativePolicies[name]
    PROVE  m \in DOMAIN KindOfMethod /\ KindOfMethod[m] = name
<1>1. CASE name \in {"Token", "AmmPool", "Oracle"}
    BY <1>1, NativePolicyFields, NativeDomains DEF KindOfMethod
<1>2. CASE name \in {"Bridge", "LendingVault", "Router"}
    BY <1>2, NativePolicyFields, NativeDomains DEF KindOfMethod
<1>3. CASE name = "Governance"
    BY <1>3, NativePolicyFields, NativeDomains DEF KindOfMethod
<1>4. CASE name \in {"Staking", "AccountRegistry"}
    BY <1>4, NativePolicyFields, NativeDomains DEF KindOfMethod
<1>5. CASE name = "Factory"
    BY <1>5, NativePolicyFields, NativeDomains DEF KindOfMethod
<1>6. QED
    BY <1>1, <1>2, <1>3, <1>4, <1>5, NativePolicyFields, Zenon DEF NativeNames

LEMMA KindsOfMethods ==
    ASSUME NEW m \in DOMAIN KindOfMethod
    PROVE  /\ KindOfMethod[m] \in DOMAIN NativePolicies
           /\ m \in DOMAIN NativePolicies[KindOfMethod[m]]
<1>1. DOMAIN KindOfMethod =
          {"Transfer", "Approve", "TransferFrom", "Permit", "AddLiquidity", "Swap", "SubmitPrice",
           "QueueBridgeMessage", "RedeemBridgeMessage", "PauseContract", "UnpauseContract",
           "ScheduleUpgrade", "ExecuteUpgrade", "SchedulePolicyUpdate", "ExecutePolicyUpdate",
           "DepositCollateral", "Borrow", "Liquidate", "Stake", "Unstake", "RequestUnstake",
           "CompleteUnstake", "ClaimStakingRewards", "RouteTransferFrom", "DeployToken",
           "DeployAmmPool", "SubmitAspectModule", "DeployAspectContract", "RegisterAccountKey",
           "RevokeAccountKey"}
    BY Zenon DEF KindOfMethod
<1>2. KindOfMethod[m] \in NativeNames
    BY <1>1 DEF KindOfMethod, NativeNames
<1>3. m \in DOMAIN NativePolicies[KindOfMethod[m]]
    BY <1>1, NativePolicyFields, NativeDomains DEF KindOfMethod
<1>4. QED
    BY <1>2, <1>3, NativePolicyFields, Zenon

LEMMA EffectsOfMethods ==
    ASSUME NEW m \in DOMAIN StandardEffects
    PROVE  /\ m \in DOMAIN KindOfMethod
           /\ StandardEffects[m] \in NativePolicies[KindOfMethod[m]][m].effects
           /\ m \in {"DeployToken", "DeployAmmPool"} =>
                 "StorageWrite" \in NativePolicies[KindOfMethod[m]][m].effects
<1>1. DOMAIN StandardEffects =
          {"Transfer", "AddLiquidity", "Swap", "SubmitPrice",
           "QueueBridgeMessage", "RedeemBridgeMessage", "PauseContract", "UnpauseContract",
           "ScheduleUpgrade", "ExecuteUpgrade", "SchedulePolicyUpdate", "ExecutePolicyUpdate",
           "DepositCollateral", "Borrow", "Liquidate", "Stake", "Unstake", "RequestUnstake",
           "CompleteUnstake", "ClaimStakingRewards", "DeployToken",
           "DeployAmmPool", "SubmitAspectModule", "DeployAspectContract", "RegisterAccountKey",
           "RevokeAccountKey"}
    BY Zenon DEF StandardEffects
<1>2. CASE m \in {"Transfer", "AddLiquidity", "Swap", "SubmitPrice"}
    BY <1>2, NativePolicyFields, SMTT(20)
    DEF StandardEffects, KindOfMethod, TokenPolicies, AmmPoolPolicies, OraclePolicies, Policy, Writes
<1>3. CASE m \in {"QueueBridgeMessage", "RedeemBridgeMessage"}
    BY <1>3, NativePolicyFields, SMTT(20) DEF StandardEffects, KindOfMethod, BridgePolicies, Policy, Writes
<1>4. CASE m \in {"PauseContract", "UnpauseContract", "ScheduleUpgrade", "ExecuteUpgrade",
                  "SchedulePolicyUpdate", "ExecutePolicyUpdate"}
    BY <1>4, NativePolicyFields, SMTT(20) DEF StandardEffects, KindOfMethod, GovernancePolicies, Policy
<1>5. CASE m \in {"DepositCollateral", "Borrow", "Liquidate"}
    BY <1>5, NativePolicyFields, SMTT(20) DEF StandardEffects, KindOfMethod, LendingVaultPolicies, Policy, Writes
<1>6. CASE m \in {"Stake", "Unstake", "RequestUnstake", "CompleteUnstake", "ClaimStakingRewards"}
    BY <1>6, NativePolicyFields, SMTT(20) DEF StandardEffects, KindOfMethod, StakingPolicies, Policy, Writes
<1>7. CASE m \in {"DeployToken", "DeployAmmPool", "SubmitAspectModule", "DeployAspectContract"}
    BY <1>7, NativePolicyFields, SMTT(20) DEF StandardEffects, KindOfMethod, FactoryPolicies, Policy, Writes
<1>8. CASE m \in {"RegisterAccountKey", "RevokeAccountKey"}
    BY <1>8, NativePolicyFields, SMTT(20) DEF StandardEffects, KindOfMethod, AccountRegistryPolicies, Policy
<1>9. QED
    BY <1>1, <1>2, <1>3, <1>4, <1>5, <1>6, <1>7, <1>8, Zenon

Effects(w, t) == Contract(w, t.target).method_policies[t.method].effects

(* A native method that can be called is that of a contract of its kind,   *)
(* which declares the effects of the method.                               *)
LEMMA NativeCall ==
    ASSUME NEW w, WellFormed(w), NEW t, Callable(w, t), t.method \in DOMAIN KindOfMethod
    PROVE  /\ t.target \in DOMAIN w.contracts
           /\ Kind(w, t.target).name = KindOfMethod[t.method]
           /\ WellTyped(Kind(w, t.target))
           /\ NativePolicies[KindOfMethod[t.method]][t.method].effects \subseteq Effects(w, t)
<1> DEFINE name == Kind(w, t.target).name
           policies == Contract(w, t.target).method_policies
<1>1. t.target \in DOMAIN w.contracts /\ t.method \in DOMAIN policies
    BY Zenon DEF Callable
<1>2. WellFormedContract(w, t.target)
    BY <1>1, Zenon DEF WellFormed
<1>3. KindOfMethod[t.method] \in DOMAIN NativePolicies
      /\ t.method \in DOMAIN NativePolicies[KindOfMethod[t.method]]
    BY KindsOfMethods, Zenon
<1>4. name # "AspectModule"
    BY <1>1, <1>2, <1>3, Zenon DEF WellFormedContract, AspectExports
<1>5. NativeExports(name, policies)
    BY <1>2, <1>4, Zenon DEF WellFormedContract
<1>6. KindOfMethod[t.method] = name
    BY <1>1, <1>5, MethodsOfKinds DEF NativeExports
<1>7. QED
    BY <1>1, <1>2, <1>5, <1>6, Zenon DEF WellFormedContract, NativeExports, Effects

LEMMA StandardCall ==
    ASSUME NEW w, WellFormed(w), NEW t, Callable(w, t), t.method \in DOMAIN StandardEffects
    PROVE  /\ t.target \in DOMAIN w.contracts
           /\ Kind(w, t.target).name = KindOfMethod[t.method]
           /\ WellTyped(Kind(w, t.target))
           /\ StandardEffects[t.method] \in Effects(w, t)
           /\ t.method \in {"DeployToken", "DeployAmmPool"} => "StorageWrite" \in Effects(w, t)
    BY EffectsOfMethods, NativeCall, Zenon

(* A projection is that of an aspect contract.                             *)
LEMMA AspectCall ==
    ASSUME NEW w, WellFormed(w), NEW t, Callable(w, t), t.method \in AspectMethods
    PROVE  t.target \in Deployed(w, "AspectModule") /\ "StorageWrite" \in Effects(w, t)
<1> DEFINE name == Kind(w, t.target).name
           policies == Contract(w, t.target).method_policies
<1>1. t.target \in DOMAIN w.contracts /\ t.method \in DOMAIN policies
    BY Zenon DEF Callable
<1>2. WellFormedContract(w, t.target)
    BY <1>1, Zenon DEF WellFormed
<1>3. t.method \notin DOMAIN KindOfMethod /\ t.method \in DOMAIN AspectTokenPolicies
    BY Zenon DEF AspectMethods, KindOfMethod, AspectTokenPolicies
<1>4. name = "AspectModule"
  <2>1. NativeExports(name, policies) => t.method \in DOMAIN KindOfMethod
    BY <1>1, MethodsOfKinds, Zenon DEF NativeExports
  <2>2. QED
    BY <1>2, <1>3, <2>1, Zenon DEF WellFormedContract
<1>5. AspectExports(policies)
    BY <1>2, <1>4, Zenon DEF WellFormedContract
<1>6. QED
    BY <1>1, <1>3, <1>4, <1>5, Zenon DEF AspectExports, Effects, Deployed, Kind

LEMMA WellFormedSized ==
    ASSUME NEW w, WellFormed(w)
    PROVE  Sized(w) /\ Owned(w)
    BY Zenon DEF WellFormed, Sized, Typed, Owned

-----------------------------------------------------------------------------
(* What is kept of a state.                                                *)

(* The books of a contract agree with its counters.                        *)
BooksHold(w, c) ==
    /\ Kind(w, c).name = "Token" => TokenInvariantsHold(w, c)
    /\ Kind(w, c).name = "AmmPool" => AmmInvariantsHold(w, c)
    /\ Kind(w, c).name = "Staking" =>
          StakingInvariantsHold(w, c) /\ StakingPendingUnbondingInvariantsHold(w, c)

(* The grants a contract needs are there.                                  *)
GrantsHold(w, c) ==
    /\ Kind(w, c).name = "Oracle" => HasActiveOracleUpdater(w, c)
    /\ Kind(w, c).name = "Governance" =>
          Kind(w, c).timelock_delay > 0 /\ HasActiveGovernanceAdmin(w, c)
    /\ Kind(w, c).name = "AccountRegistry" => AccountSignerKeysCanonical(w)

(* What the lint looks for.                                                *)
Clean(w) ==
    /\ \A c \in DOMAIN w.contracts :
          LET k == Kind(w, c)
          IN  /\ k.name = "Governance" => k.governed \in DOMAIN w.contracts
              /\ k.name = "LendingVault" => k.oracle \in DOMAIN w.contracts
    /\ \A id \in DOMAIN w.scheduled_upgrades :
          /\ w.scheduled_upgrades[id].target \in DOMAIN w.contracts
          /\ w.scheduled_upgrades[id].governance \in DOMAIN w.contracts
    /\ \A id \in DOMAIN w.scheduled_policy_updates :
          LET update == w.scheduled_policy_updates[id]
          IN  /\ update.target \in DOMAIN w.contracts /\ update.governance \in DOMAIN w.contracts
              /\ update.method \in DOMAIN Contract(w, update.target).method_policies
    /\ w.paused_contracts \subseteq DOMAIN w.contracts

(* The ids in the outbox are taken, each by one message.                   *)
OutboxTaken(w) ==
    /\ \E S : w.cross_shard_outbox \in Seq(S)
    /\ \A i \in DOMAIN w.cross_shard_outbox :
          w.cross_shard_outbox[i].message_id \in w.outbound_message_ids
    /\ OutboundMessagesAreUnique(w)

(* The records of scheduled changes have their fields.                     *)
ChangeFields == {"governance", "target", "execute_after_height", "executed"}
Recorded(w) ==
    /\ \A id \in DOMAIN w.scheduled_upgrades : ChangeFields \subseteq DOMAIN w.scheduled_upgrades[id]
    /\ \A id \in DOMAIN w.scheduled_policy_updates :
          ChangeFields \cup {"method"} \subseteq DOMAIN w.scheduled_policy_updates[id]

StateInv(w) ==
    /\ WellFormed(w) /\ Clean(w) /\ OutboxTaken(w) /\ Recorded(w)
    /\ \A c \in DOMAIN w.contracts : BooksHold(w, c) /\ GrantsHold(w, c)

LEMMA NativeNotEmpty ==
    ASSUME NEW name \in DOMAIN NativePolicies
    PROVE  DOMAIN NativePolicies[name] # {}
    BY NativePolicyFields, NativeDomains, Zenon DEF NativeNames

LEMMA CleanLint ==
    ASSUME NEW w, WellFormed(w)
    PROVE  Clean(w) <=> LintedClean(w)
<1> DEFINE allowed == {"ContractHasNoDeclaredInvariants", "ContractHasNoExports"}
           aspects == Deployed(w, "AspectModule")
           fine(error) == error[1] \in allowed /\ error[2] \in aspects
           contract(c) ==
               LET k == Kind(w, c)
               IN  /\ k.name = "Governance" => k.governed \in DOMAIN w.contracts
                   /\ k.name = "LendingVault" => k.oracle \in DOMAIN w.contracts
           flag(name, c, found) == IF found THEN {<<name, c>>} ELSE {}
<1>1. ASSUME NEW c \in DOMAIN w.contracts
      PROVE  (\A error \in LintContract(w, c) : fine(error)) <=> contract(c)
  <2> DEFINE k == Kind(w, c)
             a == flag("ContractHasNoExports", c, DOMAIN Contract(w, c).method_policies = {})
             b == flag("ContractHasNoDeclaredInvariants", c, k.name = "AspectModule")
             d == flag("GovernanceTargetMissing", c,
                       k.name = "Governance" /\ k.governed \notin DOMAIN w.contracts)
             e == flag("LendingOracleMissing", c,
                       k.name = "LendingVault" /\ k.oracle \notin DOMAIN w.contracts)
  <2>1. LintContract(w, c) = UNION {a, b, d, e}
    BY Zenon DEF LintContract
  <2>2. DOMAIN Contract(w, c).method_policies = {} => k.name = "AspectModule"
    BY NativeNotEmpty, Zenon DEF WellFormed, WellFormedContract, NativeExports
  <2>3. k.name = "AspectModule" <=> c \in aspects
    BY Zenon DEF Deployed, Kind
  <2>4. (\A error \in a : fine(error)) /\ (\A error \in b : fine(error))
    BY <2>2, <2>3
  <2>5. (\A error \in d : fine(error)) <=>
            (k.name = "Governance" => k.governed \in DOMAIN w.contracts)
    BY Zenon
  <2>6. (\A error \in e : fine(error)) <=>
            (k.name = "LendingVault" => k.oracle \in DOMAIN w.contracts)
    BY Zenon
  <2> HIDE DEF a, b, d, e, fine
  <2>7. QED
    BY <2>1, <2>4, <2>5, <2>6, Zenon
<1> DEFINE upgrades == w.scheduled_upgrades
           updates == w.scheduled_policy_updates
           missing(changes) ==
               {id \in DOMAIN changes :
                   ~({changes[id].target, changes[id].governance} \subseteq DOMAIN w.contracts)}
           methodless == {i \in DOMAIN updates :
                             /\ updates[i].target \in DOMAIN w.contracts
                             /\ updates[i].method \notin
                                   DOMAIN Contract(w, updates[i].target).method_policies}
<1>2. LintScheduled(w) = {<<"ScheduledUpgradeMissing", id>> : id \in missing(upgrades)}
          \cup {<<"ScheduledPolicyUpdateMissing", id>> : id \in missing(updates)}
          \cup {<<"ScheduledPolicyUpdateMethodMissing", id>> : id \in methodless}
    BY Zenon DEF LintScheduled
<1>3. (\A error \in LintScheduled(w) : fine(error)) <=>
          missing(upgrades) = {} /\ missing(updates) = {} /\ methodless = {}
  <2>1. \A id : /\ ~fine(<<"ScheduledUpgradeMissing", id>>)
                /\ ~fine(<<"ScheduledPolicyUpdateMissing", id>>)
                /\ ~fine(<<"ScheduledPolicyUpdateMethodMissing", id>>)
    BY Zenon
  <2> HIDE DEF fine, missing, methodless
  <2>2. QED
    BY <1>2, <2>1, Zenon
<1> DEFINE paused == {<<"PausedContractMissing", c>> : c \in w.paused_contracts \ DOMAIN w.contracts}
<1>4. (\A error \in paused : fine(error)) <=> w.paused_contracts \subseteq DOMAIN w.contracts
  <2>1. \A c : ~fine(<<"PausedContractMissing", c>>)
    BY Zenon
  <2> HIDE DEF fine
  <2>2. QED
    BY <2>1, Zenon
<1>5. LintedClean(w) <=> \A error \in LintState(w) : fine(error)
    BY Zenon DEF LintedClean
<1> HIDE DEF fine
<1>6. LintedClean(w) <=>
          /\ \A c \in DOMAIN w.contracts : contract(c)
          /\ missing(upgrades) = {} /\ missing(updates) = {} /\ methodless = {}
          /\ w.paused_contracts \subseteq DOMAIN w.contracts
  <2> HIDE DEF contract, missing, methodless
  <2>1. LintedClean(w) <=>
          /\ \A c \in DOMAIN w.contracts : \A error \in LintContract(w, c) : fine(error)
          /\ \A error \in LintScheduled(w) : fine(error)
          /\ \A error \in paused : fine(error)
    <3> DEFINE found == {LintContract(w, c) : c \in DOMAIN w.contracts}
    <3>1. LintState(w) = (UNION found) \cup LintScheduled(w) \cup paused
        BY Zenon DEF LintState
    <3> HIDE DEF paused
    <3>2. (\A error \in UNION found : fine(error))
              <=> \A c \in DOMAIN w.contracts : \A error \in LintContract(w, c) : fine(error)
        BY Zenon
    <3> HIDE DEF found
    <3> DEFINE contracts == UNION found
    <3>3. LintState(w) = contracts \cup LintScheduled(w) \cup paused
        BY <3>1, Zenon
    <3> HIDE DEF contracts
    <3>4. (\A error \in LintState(w) : fine(error)) <=>
              /\ \A error \in contracts : fine(error)
              /\ \A error \in LintScheduled(w) : fine(error)
              /\ \A error \in paused : fine(error)
        BY <3>3, Zenon
    <3>5. QED
        BY <1>5, <3>2, <3>4, Zenon DEF contracts
  <2> HIDE DEF paused
  <2>2. QED
    BY <2>1, <1>1, <1>3, <1>4, Zenon
<1>7. /\ missing(upgrades) = {} <=> \A id \in DOMAIN upgrades :
            upgrades[id].target \in DOMAIN w.contracts /\ upgrades[id].governance \in DOMAIN w.contracts
      /\ missing(updates) = {} <=> \A id \in DOMAIN updates :
            updates[id].target \in DOMAIN w.contracts /\ updates[id].governance \in DOMAIN w.contracts
      /\ methodless = {} <=> \A id \in DOMAIN updates : updates[id].target \in DOMAIN w.contracts =>
            updates[id].method \in DOMAIN Contract(w, updates[id].target).method_policies
    BY Zenon
<1> HIDE DEF missing, methodless
<1>8. QED
    BY <1>6, <1>7, Zenon DEF Clean

(* Every contract of a factory's chain declares policies.                  *)
LEMMA PoliciesDeclared ==
    ASSUME NEW w, WellFormed(w)
    PROVE  FactoryDeploymentsDeclarePolicies(w)
    BY NativeNotEmpty, Zenon
    DEF FactoryDeploymentsDeclarePolicies, WellFormed, WellFormedContract, WellFormedModule,
        NativeExports

LEMMA StateInvTrue ==
    ASSUME NEW w, StateInv(w)
    PROVE  CheckDeclaredInvariants(w) \subseteq Deployed(w, "LendingVault") /\ LintedClean(w)
<1>1. LintedClean(w)
    BY CleanLint, Zenon DEF StateInv
<1>2. ASSUME NEW c \in DOMAIN w.contracts, Kind(w, c).name = "AmmPool"
      PROVE  Kind(w, c).asset_a # Kind(w, c).asset_b
    BY <1>2, Zenon DEF StateInv, WellFormed, WellFormedContract, WellTyped
<1>3. FactoryDeploymentsDeclarePolicies(w) /\ OutboundMessagesAreUnique(w)
    BY PoliciesDeclared, Zenon DEF StateInv, OutboxTaken
<1>4. ASSUME NEW c \in DOMAIN w.contracts, Kind(w, c).name # "LendingVault"
      PROVE  DeclaredInvariantsHold(w, c)
    BY <1>2, <1>3, <1>4, Zenon DEF DeclaredInvariantsHold, StateInv, BooksHold, GrantsHold
<1>5. QED
    BY <1>1, <1>4, Zenon DEF CheckDeclaredInvariants, Deployed, Kind

LEMMA GenesisInv ==
    ASSUME NEW w \in Geneses
    PROVE  StateInv(w)
<1>1. /\ WellFormed(w) /\ CheckDeclaredInvariants(w) = {} /\ LintedClean(w)
      /\ w.cross_shard_outbox = <<>>
    BY GenesesAssumption, Zenon
<1>2. Clean(w)
    BY <1>1, CleanLint, Zenon
<1>3. OutboxTaken(w)
    BY <1>1 DEF OutboxTaken, OutboundMessagesAreUnique
<1>4. ASSUME NEW c \in DOMAIN w.contracts PROVE BooksHold(w, c) /\ GrantsHold(w, c)
  <2>1. DeclaredInvariantsHold(w, c)
    BY <1>1, Zenon DEF CheckDeclaredInvariants
  <2>2. QED
    BY <2>1 DEF DeclaredInvariantsHold, BooksHold, GrantsHold
<1>5. Recorded(w)
    BY GenesesAssumption, Zenon DEF Recorded, Nothing
<1>6. QED
    BY <1>1, <1>2, <1>3, <1>4, <1>5, Zenon DEF StateInv

(* The keys of the books that are summed.                                  *)
BookVariants == {"LpBalance", "LpSupply", "StakeBalance", "TotalStaked", "PendingUnbond",
                 "TotalPendingUnbond"}

(* Where these keys are the same, the books are.                           *)
LEMMA BooksSame ==
    ASSUME NEW w, NEW v, NEW c, \A key : key[1] \in BookVariants /\ key[2] = c => Same(w, v, key)
    PROVE  /\ AmmInvariantsHold(w, c) => AmmInvariantsHold(v, c)
           /\ StakingInvariantsHold(w, c) => StakingInvariantsHold(v, c)
           /\ StakingPendingUnbondingInvariantsHold(w, c) => StakingPendingUnbondingInvariantsHold(v, c)
<1>1. /\ SumOver(v, "LpBalance", c) = SumOver(w, "LpBalance", c)
      /\ SumOver(v, "StakeBalance", c) = SumOver(w, "StakeBalance", c)
      /\ SumOver(v, "PendingUnbond", c) = SumOver(w, "PendingUnbond", c)
    BY SumSame DEF BookVariants
<1>2. /\ LpSupply(v, c) = LpSupply(w, c) /\ TotalStaked(v, c) = TotalStaked(w, c)
      /\ TotalPendingUnbond(v, c) = TotalPendingUnbond(w, c)
    BY SameUint, Zenon DEF LpSupply, TotalStaked, TotalPendingUnbond, BookVariants
<1>3. QED
    BY <1>1, <1>2, Zenon
    DEF AmmInvariantsHold, StakingInvariantsHold, StakingPendingUnbondingInvariantsHold

LEMMA FramedWellFormed ==
    ASSUME NEW w, WellFormed(w), NEW scope, NEW c \in DOMAIN w.contracts,
           \A key \in scope : key[2] = c, NEW v, Framed(scope, w, v)
    PROVE  WellFormed(v)
<1>1. \A key \in DOMAIN v.storage : OwnerContract(key) \in DOMAIN v.contracts
  <2> SUFFICES ASSUME NEW key \in DOMAIN v.storage PROVE key[2] \in DOMAIN w.contracts
    BY Zenon DEF Framed, SameElse, OwnerContract
  <2>1. CASE Same(w, v, key)
    BY <2>1, Zenon DEF Same, WellFormed, OwnerContract
  <2>2. CASE key \in scope
    BY <2>2, Zenon
  <2>3. CASE LedgerKey(w, key)
    BY <2>3, Zenon DEF LedgerKey, CalledLedgers, Deployed
  <2>4. QED
    BY <2>1, <2>2, <2>3, Zenon DEF Framed
<1>2. \A d \in DOMAIN w.contracts : WellFormedContract(v, d)
    BY Zenon DEF WellFormed, WellFormedContract, Framed, SameElse, Kind, Contract
<1>3. QED
    BY <1>1, <1>2, Zenon DEF WellFormed, Framed, SameElse, Typed

(* The fields the other conjuncts read are the same.                       *)
LEMMA SameElseRest ==
    ASSUME NEW w, Clean(w), OutboxTaken(w), Recorded(w), NEW v, SameElse(w, v)
    PROVE  /\ Clean(v) /\ OutboxTaken(v) /\ Recorded(v)
           /\ \A c : GrantsHold(w, c) => GrantsHold(v, c)
<1>1. Clean(v)
    BY Zenon DEF Clean, SameElse, Kind, Contract
<1>2. OutboxTaken(v)
    BY Zenon DEF OutboxTaken, OutboundMessagesAreUnique, SameElse
<1>3. ASSUME NEW c, GrantsHold(w, c) PROVE GrantsHold(v, c)
    BY <1>3 DEF GrantsHold, HasActiveOracleUpdater, HasActiveGovernanceAdmin,
           AccountSignerKeysCanonical, HasGrant, SameElse, Kind
<1>4. Recorded(v)
    BY Zenon DEF Recorded, SameElse
<1>5. QED
    BY <1>1, <1>2, <1>3, <1>4, Zenon

(* A call of the contract c that writes storage.                           *)
LEMMA FramedState ==
    ASSUME NEW w, StateInv(w), NEW scope, NEW c \in DOMAIN w.contracts,
           \A key \in scope : key[2] = c, NEW v, Framed(scope, w, v),
           Kind(w, c).name = "AmmPool" => AmmInvariantsHold(v, c),
           Kind(w, c).name = "Staking" =>
               StakingInvariantsHold(v, c) /\ StakingPendingUnbondingInvariantsHold(v, c)
    PROVE  StateInv(v)
<1>1. WellFormed(v)
    BY FramedWellFormed, Zenon DEF StateInv
<1>2. SameElse(w, v) /\ DOMAIN v.contracts = DOMAIN w.contracts /\ \A d : Kind(v, d) = Kind(w, d)
    BY Zenon DEF Framed, SameElse, Kind
<1>3. ASSUME NEW d \in DOMAIN w.contracts PROVE BooksHold(v, d)
  <2>1. Kind(w, d).name = "Token" => TokenInvariantsHold(v, d)
    BY Zenon DEF Framed, TokensBalance, StateInv, BooksHold, Deployed, Kind
  <2>2. CASE d = c
    BY <1>2, <2>1, <2>2, Zenon DEF BooksHold
  <2>3. CASE d # c
    <3>1. \A key : key[1] \in BookVariants /\ key[2] = d => Same(w, v, key)
        BY <2>3, Zenon DEF Framed, LedgerKey, TokenVariants, BookVariants
    <3>2. QED
        BY <1>2, <2>1, <3>1, BooksSame, Zenon DEF BooksHold, StateInv
  <2>4. QED
    BY <2>2, <2>3, Zenon
<1>4. QED
    BY <1>1, <1>2, <1>3, SameElseRest, Zenon DEF StateInv

(* What does not write a contract's own keys.                              *)
LEMMA LedgersState ==
    ASSUME NEW w, StateInv(w), NEW c \in DOMAIN w.contracts, NEW v, Framed({}, w, v)
    PROVE  StateInv(v)
<1>1. \A key : key[1] \in BookVariants => Same(w, v, key)
    BY Zenon DEF Framed, LedgerKey, TokenVariants, BookVariants
<1>2. /\ Kind(w, c).name = "AmmPool" => AmmInvariantsHold(v, c)
      /\ Kind(w, c).name = "Staking" =>
            StakingInvariantsHold(v, c) /\ StakingPendingUnbondingInvariantsHold(v, c)
    BY <1>1, BooksSame, Zenon DEF StateInv, BooksHold
<1>3. QED
    BY <1>2, FramedState, Zenon

(* A message is queued under an id that was not taken.                     *)
LEMMA QueuedOutbox ==
    ASSUME NEW w, OutboxTaken(w), NEW id, id \notin w.outbound_message_ids,
           NEW message, message.message_id = id,
           NEW v, v.outbound_message_ids = w.outbound_message_ids \cup {id},
           v.cross_shard_outbox = Append(w.cross_shard_outbox, message)
    PROVE  OutboxTaken(v)
<1> DEFINE s == w.cross_shard_outbox
           r == v.cross_shard_outbox
<1>1. PICK S : s \in Seq(S)
    BY Zenon DEF OutboxTaken
<1>2. r \in Seq(S \cup {message})
  <2>1. s \in Seq(S \cup {message})
    BY <1>1
  <2>2. QED
    BY <2>1
<1>3. /\ Len(s) \in Nat /\ DOMAIN s = 1..Len(s) /\ DOMAIN r = 1..(Len(s) + 1)
      /\ r[Len(s) + 1] = message /\ \A i \in 1..Len(s) : r[i] = s[i]
    BY <1>1
<1>4. \A i \in DOMAIN s : s[i].message_id \in w.outbound_message_ids
    BY Zenon DEF OutboxTaken
<1>5. \A i, j \in DOMAIN s : i # j => s[i].message_id # s[j].message_id
    BY Zenon DEF OutboxTaken, OutboundMessagesAreUnique
<1> HIDE DEF s, r
<1>6. \A i \in DOMAIN r : i = Len(s) + 1 \/ i \in DOMAIN s
    BY <1>3
<1>7. \A i \in DOMAIN r : r[i].message_id \in v.outbound_message_ids
    BY <1>3, <1>4, <1>6, Zenon
<1>8. \A i, j \in DOMAIN r : i # j => r[i].message_id # r[j].message_id
    BY <1>3, <1>4, <1>5, <1>6
<1>9. QED
    BY <1>2, <1>7, <1>8, Zenon DEF OutboxTaken, OutboundMessagesAreUnique, r

(* What is the same when a message is queued.                              *)
Appended(u, v, id, message) ==
    /\ DOMAIN v = DOMAIN NewState
    /\ v.height = u.height /\ v.storage = u.storage /\ v.registry = u.registry
    /\ v.contracts = u.contracts /\ v.paused_contracts = u.paused_contracts
    /\ v.aspect_modules = u.aspect_modules
    /\ v.scheduled_upgrades = u.scheduled_upgrades
    /\ v.scheduled_policy_updates = u.scheduled_policy_updates
    /\ v.trusted_bridge_validator_sets = u.trusted_bridge_validator_sets
    /\ v.outbound_message_ids = u.outbound_message_ids \cup {id}
    /\ v.cross_shard_outbox = Append(u.cross_shard_outbox, message)

LEMMA QueuedSame ==
    ASSUME NEW w, NEW v, NEW t, Queued(w, v, t)
    PROVE  \E u, message :
              /\ Framed({}, w, u) /\ Appended(u, v, t.id, message)
              /\ message.message_id = t.id /\ message.source_contract = t.target
<1>1. PICK u, message : /\ Framed({}, w, u) /\ message.message_id = t.id
                        /\ message.source_contract = t.target
                        /\ v = [u EXCEPT !.outbound_message_ids = @ \cup {t.id},
                                         !.cross_shard_outbox = Append(@, message)]
    BY Zenon DEF Queued
<1>2. DOMAIN u = DOMAIN NewState
    BY <1>1, Zenon DEF Framed
<1>3. Appended(u, v, t.id, message)
    BY <1>1, <1>2, Zenon DEF Appended, NewState
<1>4. QED
    BY <1>1, <1>3, Zenon

-----------------------------------------------------------------------------
(* Administration: contracts, modules, grants and schedules change, and    *)
(* neither storage nor the kinds of contracts.                             *)
Administered(w, v) ==
    /\ DOMAIN v = DOMAIN NewState
    /\ v.height = w.height /\ v.storage = w.storage
    /\ v.trusted_bridge_validator_sets = w.trusted_bridge_validator_sets
    /\ DOMAIN v.contracts = DOMAIN w.contracts
    /\ \A c \in DOMAIN w.contracts : Kind(v, c) = Kind(w, c)
    /\ \A grant : grant[1] # "AccountSigner" /\ HasGrant(w, grant) => HasGrant(v, grant)
    /\ \A grant \in DOMAIN v.registry : grant \in DOMAIN w.registry
                                          \/ (grant[1] = "AccountSigner" => grant[3].canonical)

LEMMA AdministeredBooks ==
    ASSUME NEW w, NEW v, Administered(w, v), NEW c \in DOMAIN w.contracts
    PROVE  /\ BooksHold(w, c) => BooksHold(v, c)
           /\ GrantsHold(w, c) => GrantsHold(v, c)
<1>1. \A key : Same(w, v, key)
    BY Zenon DEF Same, Administered
<1>2. TokenInvariantsHold(w, c) => TokenInvariantsHold(v, c)
    BY <1>1, TokenSame, Zenon
<1>3. BooksHold(w, c) => BooksHold(v, c)
    BY <1>1, <1>2, BooksSame, Zenon DEF BooksHold, Administered
<1>4. HasActiveOracleUpdater(w, c) => HasActiveOracleUpdater(v, c)
    BY Zenon DEF HasActiveOracleUpdater, HasGrant, Administered
<1>5. HasActiveGovernanceAdmin(w, c) => HasActiveGovernanceAdmin(v, c)
    BY Zenon DEF HasActiveGovernanceAdmin, HasGrant, Administered
<1>6. AccountSignerKeysCanonical(w) => AccountSignerKeysCanonical(v)
    BY Zenon DEF AccountSignerKeysCanonical, Administered
<1>7. GrantsHold(w, c) => GrantsHold(v, c)
    BY <1>4, <1>5, <1>6, Zenon DEF GrantsHold, Administered
<1>8. QED
    BY <1>3, <1>7, Zenon

LEMMA AdministeredState ==
    ASSUME NEW w, StateInv(w), NEW v, Administered(w, v), Clean(v), OutboxTaken(v), Recorded(v),
           \A c \in DOMAIN w.contracts : WellFormedContract(v, c),
           \A hash \in DOMAIN v.aspect_modules : WellFormedModule(v.aspect_modules[hash])
    PROVE  StateInv(v)
<1>1. WellFormed(v)
    BY Zenon DEF WellFormed, StateInv, Administered
<1>2. \A c \in DOMAIN v.contracts : BooksHold(v, c) /\ GrantsHold(v, c)
    BY AdministeredBooks, Zenon DEF StateInv, Administered
<1>3. QED
    BY <1>1, <1>2, Zenon DEF StateInv

LEMMA QueuedState ==
    ASSUME NEW w, StateInv(w), NEW c \in DOMAIN w.contracts,
           NEW t, t.id \notin w.outbound_message_ids, NEW v, Queued(w, v, t)
    PROVE  StateInv(v)
<1>1. PICK u, message : /\ Framed({}, w, u) /\ message.message_id = t.id
                        /\ Appended(u, v, t.id, message)
    BY QueuedSame, Zenon
<1>2. StateInv(u) /\ u.outbound_message_ids = w.outbound_message_ids
    BY <1>1, LedgersState, Zenon DEF Framed, SameElse
<1>3. Administered(u, v)
  <2>1. v.registry = u.registry /\ v.contracts = u.contracts
    BY <1>1, Zenon DEF Appended
  <2>2. \A grant : HasGrant(u, grant) => HasGrant(v, grant)
    BY <2>1, Zenon DEF HasGrant
  <2>3. QED
    BY <1>1, <2>1, <2>2, Zenon DEF Administered, Appended, Kind
<1>5. OutboxTaken(v)
    BY <1>1, <1>2, QueuedOutbox, Zenon DEF StateInv, Appended
<1>6. Clean(v)
    BY <1>1, <1>2, Zenon DEF StateInv, Clean, Kind, Contract, Appended
<1>7. \A d \in DOMAIN u.contracts : WellFormedContract(v, d)
    BY <1>1, <1>2, Zenon DEF StateInv, WellFormed, WellFormedContract, Kind, Contract, Appended
<1>8. \A hash \in DOMAIN v.aspect_modules : WellFormedModule(v.aspect_modules[hash])
    BY <1>1, <1>2, Zenon DEF StateInv, WellFormed, Appended
<1>9. Recorded(v)
    BY <1>1, <1>2, Zenon DEF StateInv, Recorded, Appended
<1>10. QED
    BY <1>2, <1>3, <1>5, <1>6, <1>7, <1>8, <1>9, AdministeredState, Zenon

(* A contract is deployed.                                                 *)
LEMMA AddedWellFormed ==
    ASSUME NEW w, WellFormed(w), NEW c, NEW v, Added(w, v, c), WellFormedContract(v, c)
    PROVE  WellFormed(v)
<1>1. \A d \in DOMAIN v.contracts : WellFormedContract(v, d)
    BY Zenon DEF WellFormed, WellFormedContract, Added, Kind, Contract
<1>2. \A key \in DOMAIN v.storage : OwnerContract(key) \in DOMAIN v.contracts
    BY Zenon DEF WellFormed, Added, Same, OwnerContract
<1>3. QED
    BY <1>1, <1>2, Zenon DEF WellFormed, Added, Typed

LEMMA AddedState ==
    ASSUME NEW w, StateInv(w), NEW c, NEW v, Added(w, v, c), WellFormedContract(v, c),
           BooksHold(v, c), Kind(v, c).name \in {"Token", "AmmPool", "AspectModule"}
    PROVE  StateInv(v)
<1>1. WellFormed(v)
    BY AddedWellFormed, Zenon DEF StateInv
<1>2. \A d \in DOMAIN w.contracts : Kind(v, d) = Kind(w, d) /\ Contract(v, d) = Contract(w, d)
    BY Zenon DEF Added, Kind, Contract
<1>3. /\ DOMAIN v.contracts = DOMAIN w.contracts \cup {c} /\ c \notin DOMAIN w.contracts
      /\ v.scheduled_upgrades = w.scheduled_upgrades
      /\ v.scheduled_policy_updates = w.scheduled_policy_updates
      /\ v.paused_contracts = w.paused_contracts
    BY Zenon DEF Added
<1>4. Clean(v)
    BY <1>2, <1>3, Zenon DEF Clean, StateInv
<1>5. OutboxTaken(v)
    BY DEF OutboxTaken, OutboundMessagesAreUnique, StateInv, Added
<1>6. ASSUME NEW d \in DOMAIN w.contracts PROVE BooksHold(v, d)
  <2>1. \A key : key[2] = d => Same(w, v, key)
    BY <1>3, Zenon DEF Added
  <2>2. BooksHold(w, d)
    BY Zenon DEF StateInv
  <2>3. Kind(w, d).name = "Token" => TokenInvariantsHold(v, d)
    BY <2>1, <2>2, TokenSame, Zenon DEF BooksHold
  <2>4. QED
    BY <1>2, <2>1, <2>2, <2>3, BooksSame, Zenon DEF BooksHold
<1>7. ASSUME NEW d \in DOMAIN w.contracts PROVE GrantsHold(v, d)
  <2>1. GrantsHold(w, d) /\ Kind(v, d) = Kind(w, d)
    BY <1>2, Zenon DEF StateInv
  <2>2. \A grant : HasGrant(w, grant) => HasGrant(v, grant)
    BY Zenon DEF Added, HasGrant
  <2>3. HasActiveOracleUpdater(w, d) => HasActiveOracleUpdater(v, d)
    BY <2>2, Zenon DEF HasActiveOracleUpdater, HasGrant
  <2>4. HasActiveGovernanceAdmin(w, d) => HasActiveGovernanceAdmin(v, d)
    BY <2>2, Zenon DEF HasActiveGovernanceAdmin, HasGrant
  <2>5. AccountSignerKeysCanonical(w) => AccountSignerKeysCanonical(v)
    BY Zenon DEF AccountSignerKeysCanonical, Added
  <2>6. QED
    BY <2>1, <2>3, <2>4, <2>5, Zenon DEF GrantsHold
<1>8. GrantsHold(v, c)
    BY Zenon DEF GrantsHold
<1>9. Recorded(v)
    BY <1>3, Zenon DEF Recorded, StateInv
<1>10. QED
    BY <1>1, <1>3, <1>4, <1>5, <1>6, <1>7, <1>8, <1>9, Zenon DEF StateInv

(* What the factory deploys, and an aspect contract's initializer writes.  *)
Launched(w, v, c) == \E u : Added(w, u, c) /\ Kind(u, c).name # "Staking" /\ Framed({}, u, v)

LEMMA TokenLaunched ==
    ASSUME NEW w, StateInv(w), NEW t, t.amount \in Nat, DeployTokenFromFactory(w, t).ok
    PROVE  LET v == DeployTokenFromFactory(w, t).w IN StateInv(v) /\ Launched(w, v, t.contract)
<1> DEFINE c == t.contract
           v == DeployTokenFromFactory(w, t).w
           kind == [name |-> "Token", asset |-> t.asset]
<1>1. Sized(w)
    BY WellFormedSized, Zenon DEF StateInv
<1>2. Added(w, v, c) /\ v.contracts[c] = Record(kind, TokenPolicies) /\ TokenInvariantsHold(v, c)
    BY <1>1, DeployTokenOutcome, Zenon
<1> HIDE DEF v
<1>3. /\ DOMAIN v.contracts[c] = {"kind", "code_hash", "method_policies"}
      /\ Kind(v, c) = kind /\ Contract(v, c).method_policies = TokenPolicies
    BY <1>2 DEF Kind, Contract, Record
<1>4. kind.name = "Token" /\ WellTyped(kind)
    BY Zenon DEF WellTyped
<1> HIDE DEF kind
<1>5. NativeExports("Token", TokenPolicies)
  <2>1. \A m \in DOMAIN TokenPolicies : DOMAIN TokenPolicies[m] = {"authority", "effects"}
    BY DEF TokenPolicies, Policy
  <2>2. QED
    BY <2>1, NativePolicyFields, Zenon DEF NativeExports, NativeNames
<1>6. WellFormedContract(v, c)
    BY <1>3, <1>4, <1>5, Zenon DEF WellFormedContract
<1>7. StateInv(v)
    BY <1>2, <1>3, <1>4, <1>6, AddedState, Zenon DEF BooksHold
<1>8. Sized(v)
    BY <1>7, WellFormedSized, Zenon DEF StateInv
<1>9. Launched(w, v, c)
    BY <1>2, <1>3, <1>4, <1>8, FramedSelf, Zenon DEF Launched
<1>10. QED
    BY <1>7, <1>9, Zenon DEF v

LEMMA PoolLaunched ==
    ASSUME NEW w, StateInv(w), NEW t, DeployAmmPoolFromFactory(w, t).ok
    PROVE  LET v == DeployAmmPoolFromFactory(w, t).w IN StateInv(v) /\ Launched(w, v, t.contract)
<1> DEFINE c == t.contract
           v == DeployAmmPoolFromFactory(w, t).w
           kind == [name |-> "AmmPool", asset_a |-> t.asset, asset_b |-> t.asset_b, swap_fee_bps |-> 30]
<1>1. Sized(w) /\ Owned(w)
    BY WellFormedSized, Zenon DEF StateInv
<1>2. /\ Added(w, v, c) /\ v.contracts[c] = Record(kind, AmmPoolPolicies)
      /\ AmmInvariantsHold(v, c) /\ t.asset # t.asset_b
    BY <1>1, DeployPoolOutcome, Zenon
<1> HIDE DEF v
<1>3. /\ DOMAIN v.contracts[c] = {"kind", "code_hash", "method_policies"}
      /\ Kind(v, c) = kind /\ Contract(v, c).method_policies = AmmPoolPolicies
    BY <1>2 DEF Kind, Contract, Record
<1>4. kind.name = "AmmPool" /\ WellTyped(kind)
    BY <1>2 DEF WellTyped, BasisPoints
<1> HIDE DEF kind
<1>5. NativeExports("AmmPool", AmmPoolPolicies)
  <2>1. \A m \in DOMAIN AmmPoolPolicies : DOMAIN AmmPoolPolicies[m] = {"authority", "effects"}
    BY DEF AmmPoolPolicies, Policy
  <2>2. QED
    BY <2>1, NativePolicyFields, Zenon DEF NativeExports, NativeNames
<1>6. WellFormedContract(v, c)
    BY <1>3, <1>4, <1>5, Zenon DEF WellFormedContract
<1>7. StateInv(v)
    BY <1>2, <1>3, <1>4, <1>6, AddedState, Zenon DEF BooksHold
<1>8. Sized(v)
    BY <1>7, WellFormedSized, Zenon DEF StateInv
<1>9. Launched(w, v, c)
    BY <1>2, <1>3, <1>4, <1>8, FramedSelf, Zenon DEF Launched
<1>10. QED
    BY <1>7, <1>9, Zenon DEF v

(* A projection writes the ledger of its contract.                         *)
LEMMA AspectMethodFramed ==
    ASSUME NEW w, WellFormed(w), NEW t, Callable(w, t), t.method \in AspectMethods, t.amount \in Nat
    PROVE  FramedOutcome({}, w, ExecuteAspectModuleMethod(w, t))
<1>1. t.target \in CalledLedgers(w)
    BY AspectCall, Zenon DEF CalledLedgers, Callable
<1>2. Framed({}, w, w)
    BY WellFormedSized, FramedSelf, Zenon
<1>3. /\ FramedOutcome({}, w, AspectInitialize(w, t.target, t.to, t.amount))
      /\ FramedOutcome({}, w, AspectTransfer(w, t.target, t.sender, t.to, t.amount))
    BY <1>1, <1>2, AspectInitializeFramed, AspectTransferFramed, Zenon
<1>4. QED
    BY <1>3, Zenon DEF ExecuteAspectModuleMethod, AspectMethods

LEMMA InitializerFramed ==
    ASSUME NEW u, WellFormed(u), NEW t \in Transactions, t.method = "DeployAspectContract"
    PROVE  FramedOutcome({}, u, CallInitializer(u, t))
<1> DEFINE init == [t EXCEPT !.target = t.contract, !.method = t.initializer]
<1>1. FramedOutcome({}, u, Ok(u)) /\ FramedOutcome({}, u, Err(u))
    BY WellFormedSized, FramedSelf, OkOutcome, ErrOutcome, Zenon
<1>2. CASE t.initializer = ""
    BY <1>1, <1>2, Zenon DEF CallInitializer
<1>3. CASE t.initializer # ""
  <2>1. /\ {"target", "method"} \subseteq DOMAIN t
        /\ t.initializer \in AspectMethods /\ "amount" \in DOMAIN t /\ t.amount \in Nat
    BY <1>3, TransactionsAssumption, Zenon
  <2>2. init.method \in AspectMethods /\ init.amount \in Nat
    BY <2>1, Zenon
  <2> HIDE DEF init
  <2>3. Callable(u, init) => FramedOutcome({}, u, ExecuteAspectModuleMethod(u, init))
    BY <2>2, AspectMethodFramed, Zenon
  <2>4. CallInitializer(u, t) = Require(Callable(u, init), u, ExecuteAspectModuleMethod(u, init))
    BY <1>3, Zenon DEF CallInitializer, init
  <2>5. QED
    BY <1>1, <2>3, <2>4, Zenon DEF Require
<1>4. QED
    BY <1>2, <1>3, Zenon

LEMMA AspectDeployed ==
    ASSUME NEW w, StateInv(w), NEW t, DeployAspectContractFromFactory(w, t).ok
    PROVE  LET u == DeployAspectContractFromFactory(w, t).w
           IN  StateInv(u) /\ Added(w, u, t.contract) /\ Kind(u, t.contract).name = "AspectModule"
<1> DEFINE c == t.contract
           u == DeployAspectContractFromFactory(w, t).w
           kind == [name |-> "AspectModule", module_hash |-> t.module_hash, bundle |-> t.bundle]
           module == w.aspect_modules[t.module_hash]
           policies == u.contracts[c].method_policies
<1>1. Sized(w)
    BY WellFormedSized, Zenon DEF StateInv
<1>2. /\ Added(w, u, c) /\ DOMAIN u.contracts[c] = {"kind", "code_hash", "method_policies"}
      /\ u.contracts[c].kind = kind /\ t.module_hash \in DOMAIN w.aspect_modules
      /\ \/ policies = Nothing
         \/ /\ module.has_ir /\ t.bundle \in DOMAIN module.bundles
            /\ policies = module.bundles[t.bundle]
    BY <1>1, DeployAspectOutcome
<1> HIDE DEF u
<1>3. kind.name = "AspectModule" /\ kind.module_hash = t.module_hash /\ WellTyped(kind)
    BY Zenon DEF WellTyped
<1> HIDE DEF kind
<1>4. AspectExports(policies)
  <2>1. AspectExports(Nothing)
    BY Zenon DEF AspectExports, Nothing
  <2>2. WellFormedModule(module)
    BY <1>2, Zenon DEF StateInv, WellFormed
  <2>3. QED
    BY <1>2, <2>1, <2>2, Zenon DEF WellFormedModule
<1>5. WellFormedContract(u, c)
    BY <1>2, <1>3, <1>4, Zenon DEF WellFormedContract, Kind, Contract, Added
<1>6. Kind(u, c).name = "AspectModule" /\ BooksHold(u, c)
    BY <1>2, <1>3, Zenon DEF Kind, BooksHold
<1>7. StateInv(u)
    BY <1>2, <1>5, <1>6, AddedState, Zenon
<1>8. QED
    BY <1>2, <1>6, <1>7, Zenon DEF u

LEMMA LaunchOutcome ==
    ASSUME NEW w, StateInv(w), NEW t \in Transactions, t.method = "DeployAspectContract"
    PROVE  LET o == DeployAndInitialize(w, t)
           IN  Restorable(w, o.w) /\ (o.ok => StateInv(o.w) /\ Launched(w, o.w, t.contract))
<1> DEFINE o == DeployAndInitialize(w, t)
           deployed == DeployAspectContractFromFactory(w, t)
           u == deployed.w
           called == CallInitializer(u, t)
<1>1. o = IF deployed.ok THEN called ELSE deployed
    BY Zenon DEF DeployAndInitialize
<1>2. Restorable(w, u)
    BY WellFormedSized, DeployAspectOutcome, Zenon DEF StateInv
<1>3. deployed.ok => /\ StateInv(u) /\ Added(w, u, t.contract)
                     /\ Kind(u, t.contract).name = "AspectModule"
    BY AspectDeployed, Zenon
<1> HIDE DEF o, deployed
<1>4. deployed.ok => FramedOutcome({}, u, called)
    BY <1>3, InitializerFramed, Zenon DEF StateInv
<1> HIDE DEF called
<1>5. deployed.ok => Restorable(w, called.w)
    BY <1>2, <1>4, Zenon DEF FramedOutcome, Restorable
<1>6. deployed.ok /\ called.ok => StateInv(called.w) /\ Launched(w, called.w, t.contract)
  <2> SUFFICES ASSUME deployed.ok, called.ok
               PROVE  StateInv(called.w) /\ Launched(w, called.w, t.contract)
    BY Zenon
  <2>1. Framed({}, u, called.w)
    BY <1>4, SuccessFramed, Zenon
  <2>2. StateInv(called.w)
    BY <1>3, <2>1, LedgersState, Zenon DEF Added
  <2>3. QED
    BY <1>3, <2>1, <2>2, Zenon DEF Launched
<1>7. QED
    BY <1>1, <1>2, <1>5, <1>6, Zenon DEF o

-----------------------------------------------------------------------------
(* What the methods of governance, of modules and of account keys change.  *)

Fields == {"height", "storage", "registry", "contracts", "paused_contracts", "aspect_modules",
           "scheduled_upgrades", "scheduled_policy_updates", "trusted_bridge_validator_sets",
           "outbound_message_ids", "cross_shard_outbox"}

LEMMA StateFields == DOMAIN NewState = Fields
    BY Zenon DEF NewState, Fields

Changes(w, v, fields) == DOMAIN v = DOMAIN NewState /\ \A f \in Fields \ fields : v[f] = w[f]

(* Schedules that name what is there.                                      *)
CleanSchedules(w, upgrades, updates) ==
    /\ \A id \in DOMAIN upgrades :
          /\ upgrades[id].target \in DOMAIN w.contracts /\ upgrades[id].governance \in DOMAIN w.contracts
          /\ ChangeFields \subseteq DOMAIN upgrades[id]
    /\ \A id \in DOMAIN updates :
          /\ updates[id].target \in DOMAIN w.contracts /\ updates[id].governance \in DOMAIN w.contracts
          /\ updates[id].method \in DOMAIN Contract(w, updates[id].target).method_policies
          /\ ChangeFields \cup {"method"} \subseteq DOMAIN updates[id]

LEMMA StateSchedules ==
    ASSUME NEW w, StateInv(w)
    PROVE  /\ CleanSchedules(w, w.scheduled_upgrades, w.scheduled_policy_updates)
           /\ w.paused_contracts \subseteq DOMAIN w.contracts
    BY Zenon DEF StateInv, Clean, CleanSchedules, Recorded

ScheduleFields == {"paused_contracts", "scheduled_upgrades", "scheduled_policy_updates"}

LEMMA ScheduledState ==
    ASSUME NEW w, StateInv(w), NEW v, Changes(w, v, ScheduleFields),
           v.paused_contracts \subseteq DOMAIN w.contracts,
           CleanSchedules(w, v.scheduled_upgrades, v.scheduled_policy_updates)
    PROVE  StateInv(v) /\ Administered(w, v)
<1>1. /\ DOMAIN v = DOMAIN NewState
      /\ v.height = w.height /\ v.storage = w.storage /\ v.registry = w.registry
      /\ v.contracts = w.contracts /\ v.aspect_modules = w.aspect_modules
      /\ v.trusted_bridge_validator_sets = w.trusted_bridge_validator_sets
      /\ v.outbound_message_ids = w.outbound_message_ids
      /\ v.cross_shard_outbox = w.cross_shard_outbox
    BY Zenon DEF Changes, Fields, ScheduleFields
<1>2. \A c : Kind(v, c) = Kind(w, c) /\ Contract(v, c) = Contract(w, c)
    BY <1>1, Zenon DEF Kind, Contract
<1>3. \A grant : HasGrant(w, grant) => HasGrant(v, grant)
    BY <1>1, Zenon DEF HasGrant
<1>4. Administered(w, v)
    BY <1>1, <1>2, <1>3, Zenon DEF Administered
<1>5. Clean(v)
    BY <1>1, <1>2, Zenon DEF Clean, StateInv, CleanSchedules
<1>6. OutboxTaken(v)
    BY <1>1, Zenon DEF OutboxTaken, OutboundMessagesAreUnique, StateInv
<1>7. \A c \in DOMAIN w.contracts : WellFormedContract(v, c)
    BY <1>1, <1>2 DEF StateInv, WellFormed, WellFormedContract
<1>8. \A hash \in DOMAIN v.aspect_modules : WellFormedModule(v.aspect_modules[hash])
    BY <1>1, Zenon DEF StateInv, WellFormed
<1>9. Recorded(v)
    BY Zenon DEF Recorded, CleanSchedules
<1>10. QED
    BY <1>4, <1>5, <1>6, <1>7, <1>8, <1>9, AdministeredState, Zenon

(* The contract a governance contract governs is there.                    *)
LEMMA GovernedDeployed ==
    ASSUME NEW w, StateInv(w), NEW c \in DOMAIN w.contracts, Kind(w, c).name = "Governance"
    PROVE  /\ Kind(w, c).governed \in DOMAIN w.contracts
           /\ Kind(w, c).timelock_delay \in Nat
    BY Zenon DEF StateInv, Clean, WellFormed, WellFormedContract, WellTyped

LEMMA PauseOutcome ==
    ASSUME NEW w, StateInv(w), NEW t, t.target \in DOMAIN w.contracts,
           Kind(w, t.target).name = "Governance",
           NEW o, o = PauseContract(w, t) \/ o = UnpauseContract(w, t), o.ok
    PROVE  StateInv(o.w) /\ Administered(w, o.w) /\ Changes(w, o.w, {"paused_contracts"})
<1> DEFINE governed == Kind(w, t.target).governed
           v == o.w
<1>1. governed \in DOMAIN w.contracts /\ w.paused_contracts \subseteq DOMAIN w.contracts
    BY GovernedDeployed, StateSchedules, Zenon
<1>2. DOMAIN w = Fields
    BY StateFields, Zenon DEF StateInv, WellFormed
<1>3. \/ v = [w EXCEPT !.paused_contracts = @ \cup {governed}]
      \/ v = [w EXCEPT !.paused_contracts = @ \ {governed}]
    BY DEF PauseContract, UnpauseContract, Require, Ok, Err
<1> HIDE DEF governed, v
<1>4. /\ Changes(w, v, {"paused_contracts"}) /\ v.paused_contracts \subseteq DOMAIN w.contracts
    BY <1>1, <1>2, <1>3, StateFields DEF Changes, Fields
<1>5. /\ v.scheduled_upgrades = w.scheduled_upgrades
      /\ v.scheduled_policy_updates = w.scheduled_policy_updates
      /\ Changes(w, v, ScheduleFields)
    BY <1>4, Zenon DEF Changes, Fields, ScheduleFields
<1>6. StateInv(v) /\ Administered(w, v)
    BY <1>4, <1>5, StateSchedules, ScheduledState, Zenon
<1>7. QED
    BY <1>4, <1>6, Zenon DEF v

(* A change that was scheduled, and what is scheduled otherwise.           *)
Scheduling(w, t, id, before, after) ==
    /\ id \notin DOMAIN before /\ DOMAIN after = DOMAIN before \cup {id}
    /\ \A i \in DOMAIN before : after[i] = before[i]
    /\ after[id].governance = t.target /\ after[id].target = Kind(w, t.target).governed
    /\ after[id].execute_after_height = w.height + Kind(w, t.target).timelock_delay
    /\ after[id].executed = FALSE /\ ChangeFields \subseteq DOMAIN after[id]

LEMMA ScheduleUpgradeOutcome ==
    ASSUME NEW w, StateInv(w), NEW t, t.target \in DOMAIN w.contracts,
           Kind(w, t.target).name = "Governance", ScheduleUpgrade(w, t).ok
    PROVE  LET v == ScheduleUpgrade(w, t).w
           IN  /\ StateInv(v) /\ Administered(w, v) /\ Changes(w, v, {"scheduled_upgrades"})
               /\ Scheduling(w, t, t.id, w.scheduled_upgrades, v.scheduled_upgrades)
<1> DEFINE v == ScheduleUpgrade(w, t).w
           change == Over([new_code_hash |-> t.code_hash], Schedule(w, t))
           upgrades == Over(Entry(t.id, change), w.scheduled_upgrades)
<1>1. /\ change.governance = t.target /\ change.target = Kind(w, t.target).governed
      /\ change.execute_after_height = w.height + Kind(w, t.target).timelock_delay
      /\ change.executed = FALSE /\ ChangeFields \subseteq DOMAIN change
    BY Zenon DEF Over, Schedule, ExecuteAfterHeight, ChangeFields
<1>2. v = [w EXCEPT !.scheduled_upgrades = upgrades] /\ t.id \notin DOMAIN w.scheduled_upgrades
    BY Zenon DEF ScheduleUpgrade, Require, Ok, Err
<1> HIDE DEF change, v
<1>3. Scheduling(w, t, t.id, w.scheduled_upgrades, upgrades)
    BY <1>1, <1>2, Zenon DEF Scheduling, Over, Entry
<1> HIDE DEF upgrades
<1>4. DOMAIN w = Fields
    BY StateFields, Zenon DEF StateInv, WellFormed
<1>5. Changes(w, v, {"scheduled_upgrades"}) /\ v.scheduled_upgrades = upgrades
    BY <1>2, <1>4, StateFields, Zenon DEF Changes, Fields
<1>6. /\ v.paused_contracts = w.paused_contracts
      /\ v.scheduled_policy_updates = w.scheduled_policy_updates
      /\ Changes(w, v, ScheduleFields)
    BY <1>5, Zenon DEF Changes, Fields, ScheduleFields
<1>7. CleanSchedules(w, upgrades, w.scheduled_policy_updates)
    BY <1>3, StateSchedules, GovernedDeployed DEF CleanSchedules, Scheduling
<1>8. StateInv(v) /\ Administered(w, v)
    BY <1>5, <1>6, <1>7, StateSchedules, ScheduledState, Zenon
<1>9. QED
    BY <1>3, <1>5, <1>8, Zenon DEF v

LEMMA SchedulePolicyUpdateOutcome ==
    ASSUME NEW w, StateInv(w), NEW t, t.target \in DOMAIN w.contracts,
           Kind(w, t.target).name = "Governance", SchedulePolicyUpdate(w, t).ok
    PROVE  LET v == SchedulePolicyUpdate(w, t).w
           IN  /\ StateInv(v) /\ Administered(w, v) /\ Changes(w, v, {"scheduled_policy_updates"})
               /\ Scheduling(w, t, t.id, w.scheduled_policy_updates, v.scheduled_policy_updates)
<1> DEFINE v == SchedulePolicyUpdate(w, t).w
           governed == Kind(w, t.target).governed
           change == Over([method |-> t.policy_method, effect |-> t.effect], Schedule(w, t))
           updates == Over(Entry(t.id, change), w.scheduled_policy_updates)
<1>1. /\ change.governance = t.target /\ change.target = Kind(w, t.target).governed
      /\ change.execute_after_height = w.height + Kind(w, t.target).timelock_delay
      /\ change.executed = FALSE /\ change.method = t.policy_method
      /\ ChangeFields \cup {"method"} \subseteq DOMAIN change
    BY Zenon DEF Over, Schedule, ExecuteAfterHeight, ChangeFields
<1>2. /\ v = [w EXCEPT !.scheduled_policy_updates = updates]
      /\ t.id \notin DOMAIN w.scheduled_policy_updates
      /\ t.policy_method \in DOMAIN Contract(w, governed).method_policies
    BY Zenon DEF SchedulePolicyUpdate, Require, Ok, Err
<1> HIDE DEF change, v
<1>3. /\ Scheduling(w, t, t.id, w.scheduled_policy_updates, updates)
      /\ updates[t.id] = change
    BY <1>1, <1>2, Zenon DEF Scheduling, Over, Entry
<1> HIDE DEF updates
<1>4. DOMAIN w = Fields
    BY StateFields, Zenon DEF StateInv, WellFormed
<1>5. Changes(w, v, {"scheduled_policy_updates"}) /\ v.scheduled_policy_updates = updates
    BY <1>2, <1>4, StateFields, Zenon DEF Changes, Fields
<1>6. /\ v.paused_contracts = w.paused_contracts
      /\ v.scheduled_upgrades = w.scheduled_upgrades
      /\ Changes(w, v, ScheduleFields)
    BY <1>5, Zenon DEF Changes, Fields, ScheduleFields
<1>7. CleanSchedules(w, w.scheduled_upgrades, updates)
    BY <1>1, <1>2, <1>3, StateSchedules, GovernedDeployed DEF CleanSchedules, Scheduling
<1>8. StateInv(v) /\ Administered(w, v)
    BY <1>5, <1>6, <1>7, StateSchedules, ScheduledState, Zenon
<1>9. QED
    BY <1>3, <1>5, <1>8, Zenon DEF v

(* The change that is executed, and what is scheduled otherwise.           *)
Executing(w, t, id, before, after) ==
    /\ id \in DOMAIN before /\ DOMAIN after = DOMAIN before
    /\ \A i \in DOMAIN before \ {id} : after[i] = before[i]
    /\ \A f \in DOMAIN before[id] \ {"executed"} : after[id][f] = before[id][f]
    /\ DOMAIN after[id] = DOMAIN before[id] /\ after[id].executed = TRUE
    /\ Executable(w, before[id], t)

(* One contract's record changes, and its kind does not.                   *)
Amended(w, v, c) ==
    /\ DOMAIN v.contracts = DOMAIN w.contracts
    /\ \A d \in DOMAIN w.contracts \ {c} : v.contracts[d] = w.contracts[d]
    /\ DOMAIN v.contracts[c] = {"kind", "code_hash", "method_policies"}
    /\ v.contracts[c].kind = w.contracts[c].kind

LEMMA AmendedState ==
    ASSUME NEW w, StateInv(w), NEW v, NEW c \in DOMAIN w.contracts, Amended(w, v, c),
           Changes(w, v, {"contracts", "scheduled_upgrades", "scheduled_policy_updates"}),
           CleanSchedules(v, v.scheduled_upgrades, v.scheduled_policy_updates),
           WellFormedContract(v, c)
    PROVE  StateInv(v) /\ Administered(w, v)
<1>1. /\ DOMAIN v = DOMAIN NewState
      /\ v.height = w.height /\ v.storage = w.storage /\ v.registry = w.registry
      /\ v.paused_contracts = w.paused_contracts /\ v.aspect_modules = w.aspect_modules
      /\ v.trusted_bridge_validator_sets = w.trusted_bridge_validator_sets
      /\ v.outbound_message_ids = w.outbound_message_ids
      /\ v.cross_shard_outbox = w.cross_shard_outbox
    BY Zenon DEF Changes, Fields
<1>2. DOMAIN v.contracts = DOMAIN w.contracts /\ \A d \in DOMAIN w.contracts : Kind(v, d) = Kind(w, d)
    BY Zenon DEF Amended, Kind
<1>3. \A grant : HasGrant(w, grant) => HasGrant(v, grant)
    BY <1>1, Zenon DEF HasGrant
<1>4. Administered(w, v)
    BY <1>1, <1>2, <1>3, Zenon DEF Administered
<1>5. Clean(v)
    BY <1>1, <1>2, Zenon DEF Clean, StateInv, CleanSchedules
<1>6. OutboxTaken(v)
    BY <1>1, Zenon DEF OutboxTaken, OutboundMessagesAreUnique, StateInv
<1>7. \A d \in DOMAIN w.contracts : WellFormedContract(v, d)
    BY <1>1, Zenon DEF StateInv, WellFormed, WellFormedContract, Amended, Kind, Contract
<1>8. \A hash \in DOMAIN v.aspect_modules : WellFormedModule(v.aspect_modules[hash])
    BY <1>1, Zenon DEF StateInv, WellFormed
<1>9. Recorded(v)
    BY Zenon DEF Recorded, CleanSchedules
<1>10. QED
    BY <1>4, <1>5, <1>6, <1>7, <1>8, <1>9, AdministeredState, Zenon

(* A schedule of which one change is executed names what it named.         *)
LEMMA ExecutedSchedules ==
    ASSUME NEW w, NEW v, NEW c \in DOMAIN w.contracts, Amended(w, v, c),
           DOMAIN v.contracts[c].method_policies = DOMAIN w.contracts[c].method_policies,
           NEW upgrades, NEW updates, CleanSchedules(w, upgrades, updates), NEW t, NEW id
    PROVE  /\ \A after : Executing(w, t, id, upgrades, after) => CleanSchedules(v, after, updates)
           /\ \A after : Executing(w, t, id, updates, after) => CleanSchedules(v, upgrades, after)
<1>1. /\ DOMAIN v.contracts = DOMAIN w.contracts
      /\ \A d \in DOMAIN w.contracts :
            DOMAIN Contract(v, d).method_policies = DOMAIN Contract(w, d).method_policies
    BY Zenon DEF Amended, Contract
<1>2. CleanSchedules(v, upgrades, updates)
    BY <1>1, Zenon DEF CleanSchedules
<1>3. ASSUME NEW after, Executing(w, t, id, upgrades, after) PROVE CleanSchedules(v, after, updates)
  <2>1. \A i \in DOMAIN upgrades : /\ DOMAIN after[i] = DOMAIN upgrades[i]
                                   /\ ChangeFields \subseteq DOMAIN after[i]
                                   /\ after[i].target = upgrades[i].target
                                   /\ after[i].governance = upgrades[i].governance
    BY <1>2, <1>3, Zenon DEF Executing, CleanSchedules, ChangeFields
  <2>2. QED
    BY <1>2, <1>3, <2>1, Zenon DEF CleanSchedules, Executing
<1>4. ASSUME NEW after, Executing(w, t, id, updates, after) PROVE CleanSchedules(v, upgrades, after)
  <2>1. \A i \in DOMAIN updates : /\ DOMAIN after[i] = DOMAIN updates[i]
                                  /\ after[i].target = updates[i].target
                                  /\ after[i].governance = updates[i].governance
                                  /\ after[i].method = updates[i].method
    BY <1>2, <1>4, Zenon DEF Executing, CleanSchedules, ChangeFields
  <2>2. QED
    BY <1>2, <1>4, <2>1, Zenon DEF CleanSchedules, Executing
<1>5. QED
    BY <1>3, <1>4, Zenon

(* What execute_upgrade does to the records, alone or with the schedule.   *)
Upgraded(contracts, c, hash) == [contracts EXCEPT ![c].code_hash = hash]
UpgradedTo(w, v, c, hash) ==
    v.contracts = Upgraded(w.contracts, c, hash) /\ v.aspect_modules = w.aspect_modules

LEMMA UpgradedContracts ==
    ASSUME NEW w, StateInv(w), NEW c \in DOMAIN w.contracts, NEW hash,
           NEW v, UpgradedTo(w, v, c, hash)
    PROVE  /\ Amended(w, v, c) /\ WellFormedContract(v, c)
           /\ \A d \in DOMAIN w.contracts :
                 v.contracts[d].method_policies = w.contracts[d].method_policies
<1>1. WellFormedContract(w, c) /\ DOMAIN w.contracts[c] = {"kind", "code_hash", "method_policies"}
    BY Zenon DEF StateInv, WellFormed, WellFormedContract
<1>2. v.contracts[c] = [w.contracts[c] EXCEPT !.code_hash = hash]
    BY Zenon DEF Upgraded, UpgradedTo
<1>3. /\ DOMAIN v.contracts[c] = {"kind", "code_hash", "method_policies"}
      /\ v.contracts[c].kind = w.contracts[c].kind
      /\ v.contracts[c].method_policies = w.contracts[c].method_policies
    BY <1>1, <1>2, Zenon
<1>4. \A d \in DOMAIN w.contracts \ {c} : v.contracts[d] = w.contracts[d]
    BY Zenon DEF Upgraded, UpgradedTo
<1>5. DOMAIN v.contracts = DOMAIN w.contracts
    BY Zenon DEF Upgraded, UpgradedTo
<1>6. WellFormedContract(v, c)
    BY <1>1, <1>3, Zenon DEF WellFormedContract, Kind, Contract, UpgradedTo
<1>7. QED
    BY <1>3, <1>4, <1>5, <1>6, Zenon DEF Amended

LEMMA ExecuteUpgradeOutcome ==
    ASSUME NEW w, StateInv(w), NEW t, ExecuteUpgrade(w, t).ok
    PROVE  LET v == ExecuteUpgrade(w, t).w
               upgrade == w.scheduled_upgrades[t.id]
           IN  /\ StateInv(v) /\ Administered(w, v)
               /\ Changes(w, v, {"contracts", "scheduled_upgrades"})
               /\ Executing(w, t, t.id, w.scheduled_upgrades, v.scheduled_upgrades)
               /\ v.contracts = Upgraded(w.contracts, upgrade.target, upgrade.new_code_hash)
               /\ Amended(w, v, upgrade.target)
               /\ \A d \in DOMAIN w.contracts :
                     v.contracts[d].method_policies = w.contracts[d].method_policies
<1> DEFINE v == ExecuteUpgrade(w, t).w
           upgrade == w.scheduled_upgrades[t.id]
           c == upgrade.target
           upgrades == [w.scheduled_upgrades EXCEPT ![t.id].executed = TRUE]
           hash == upgrade.new_code_hash
           contracts == Upgraded(w.contracts, c, hash)
<1>1. /\ v = [w EXCEPT !.contracts[c].code_hash = upgrade.new_code_hash,
                       !.scheduled_upgrades[t.id].executed = TRUE]
      /\ t.id \in DOMAIN w.scheduled_upgrades /\ Executable(w, upgrade, t)
    BY Zenon DEF ExecuteUpgrade, Require, Ok, Err
<1>2. DOMAIN w = Fields
    BY StateFields, Zenon DEF StateInv, WellFormed
<1> HIDE DEF v
<1>3. /\ Changes(w, v, {"contracts", "scheduled_upgrades"})
      /\ v.contracts = contracts /\ v.scheduled_upgrades = upgrades
    BY <1>1, <1>2, StateFields, Zenon DEF Changes, Fields, Upgraded
<1>4. Executing(w, t, t.id, w.scheduled_upgrades, upgrades)
  <2>1. "executed" \in DOMAIN w.scheduled_upgrades[t.id]
    BY <1>1, StateSchedules, Zenon DEF CleanSchedules, ChangeFields
  <2>2. QED
    BY <1>1, <2>1, Zenon DEF Executing
<1>5. c \in DOMAIN w.contracts
    BY <1>1, Zenon DEF Executable
<1>6. /\ v.aspect_modules = w.aspect_modules
      /\ v.scheduled_policy_updates = w.scheduled_policy_updates
      /\ Changes(w, v, {"contracts", "scheduled_upgrades", "scheduled_policy_updates"})
    BY <1>3, Zenon DEF Changes, Fields
<1> HIDE DEF upgrades, c, hash
<1>7. /\ Amended(w, v, c) /\ WellFormedContract(v, c)
      /\ \A d \in DOMAIN w.contracts : v.contracts[d].method_policies = w.contracts[d].method_policies
  <2>1. UpgradedTo(w, v, c, hash)
    BY <1>3, <1>6, Zenon DEF UpgradedTo
  <2>2. QED
    BY <1>5, <2>1, UpgradedContracts
<1> HIDE DEF contracts
<1>8. CleanSchedules(v, upgrades, w.scheduled_policy_updates)
    BY <1>4, <1>5, <1>7, StateSchedules, ExecutedSchedules, Zenon
<1>9. StateInv(v) /\ Administered(w, v)
    BY <1>3, <1>5, <1>6, <1>7, <1>8, AmendedState, Zenon
<1>10. QED
    BY <1>3, <1>4, <1>7, <1>9, Zenon DEF v, c, hash, contracts

(* What execute_policy_update does to the records: effects are added to    *)
(* one method's policy.                                                    *)
PoliciesWith(policies, m, effect) == [policies EXCEPT ![m].effects = @ \cup {effect}]
ContractsWith(contracts, c, m, effect) ==
    [contracts EXCEPT ![c].method_policies[m].effects = @ \cup {effect}]

UpdatedTo(w, v, c, m, effect) ==
    v.contracts = ContractsWith(w.contracts, c, m, effect) /\ v.aspect_modules = w.aspect_modules

LEMMA UpdatedPolicies ==
    ASSUME NEW policies, NEW m \in DOMAIN policies, NEW effect
    PROVE  LET after == PoliciesWith(policies, m, effect)
           IN  /\ DOMAIN after = DOMAIN policies
               /\ \A name : NativeExports(name, policies) => NativeExports(name, after)
               /\ AspectExports(policies) => AspectExports(after)
<1> DEFINE after == PoliciesWith(policies, m, effect)
<1>1. DOMAIN after = DOMAIN policies /\ \A n \in DOMAIN policies \ {m} : after[n] = policies[n]
    BY Zenon DEF PoliciesWith
<1>2. after[m] = [policies[m] EXCEPT !.effects = @ \cup {effect}]
    BY Zenon DEF PoliciesWith
<1> HIDE DEF after
<1>3. DOMAIN after[m] = DOMAIN policies[m]
    BY <1>2, Zenon
<1>4. DOMAIN policies[m] = {"authority", "effects"} => after[m].effects = policies[m].effects \cup {effect}
    BY <1>2, Zenon
<1>5. \A n \in DOMAIN policies : DOMAIN policies[n] = {"authority", "effects"} =>
          DOMAIN after[n] = {"authority", "effects"} /\ policies[n].effects \subseteq after[n].effects
    BY <1>1, <1>3, <1>4, Zenon
<1>6. \A name : NativeExports(name, policies) => NativeExports(name, after)
    BY <1>1, <1>5, Zenon DEF NativeExports
<1>7. AspectExports(policies) => AspectExports(after)
    BY <1>1, <1>5, Zenon DEF AspectExports
<1>8. QED
    BY <1>1, <1>6, <1>7, Zenon DEF after

LEMMA UpdatedContracts ==
    ASSUME NEW w, StateInv(w), NEW c \in DOMAIN w.contracts, NEW effect,
           NEW m \in DOMAIN w.contracts[c].method_policies, NEW v, UpdatedTo(w, v, c, m, effect)
    PROVE  /\ Amended(w, v, c) /\ WellFormedContract(v, c)
           /\ DOMAIN v.contracts[c].method_policies = DOMAIN w.contracts[c].method_policies
           /\ v.contracts[c].code_hash = w.contracts[c].code_hash
<1> DEFINE policies == w.contracts[c].method_policies
           after == PoliciesWith(policies, m, effect)
<1>1. WellFormedContract(w, c) /\ DOMAIN w.contracts[c] = {"kind", "code_hash", "method_policies"}
    BY Zenon DEF StateInv, WellFormed, WellFormedContract
<1>2. v.contracts[c] = [w.contracts[c] EXCEPT !.method_policies = after]
    BY Zenon DEF UpdatedTo, ContractsWith, PoliciesWith
<1>3. \A d \in DOMAIN w.contracts \ {c} : v.contracts[d] = w.contracts[d]
    BY Zenon DEF UpdatedTo, ContractsWith
<1>4. DOMAIN v.contracts = DOMAIN w.contracts
    BY Zenon DEF UpdatedTo, ContractsWith
<1>5. /\ DOMAIN after = DOMAIN policies
      /\ \A name : NativeExports(name, policies) => NativeExports(name, after)
      /\ AspectExports(policies) => AspectExports(after)
    BY UpdatedPolicies, Zenon
<1> HIDE DEF after
<1>6. /\ DOMAIN v.contracts[c] = {"kind", "code_hash", "method_policies"}
      /\ v.contracts[c].kind = w.contracts[c].kind
      /\ v.contracts[c].code_hash = w.contracts[c].code_hash
      /\ v.contracts[c].method_policies = after
    BY <1>1, <1>2, Zenon
<1>7. WellFormedContract(v, c)
    BY <1>1, <1>5, <1>6, Zenon DEF UpdatedTo, WellFormedContract, Kind, Contract
<1>8. QED
    BY <1>3, <1>4, <1>5, <1>6, <1>7, Zenon DEF Amended

LEMMA ExecutePolicyUpdateOutcome ==
    ASSUME NEW w, StateInv(w), NEW t, ExecutePolicyUpdate(w, t).ok
    PROVE  LET v == ExecutePolicyUpdate(w, t).w
               target == w.scheduled_policy_updates[t.id].target
           IN  /\ StateInv(v) /\ Administered(w, v)
               /\ Changes(w, v, {"contracts", "scheduled_policy_updates"})
               /\ Executing(w, t, t.id, w.scheduled_policy_updates, v.scheduled_policy_updates)
               /\ Amended(w, v, target) /\ v.contracts[target].code_hash = w.contracts[target].code_hash
<1> DEFINE v == ExecutePolicyUpdate(w, t).w
           update == w.scheduled_policy_updates[t.id]
           c == update.target
           m == update.method
           effect == update.effect
           updates == [w.scheduled_policy_updates EXCEPT ![t.id].executed = TRUE]
           contracts == ContractsWith(w.contracts, c, m, effect)
<1>1. /\ v = [w EXCEPT !.contracts[c].method_policies[m].effects = @ \cup {effect},
                       !.scheduled_policy_updates[t.id].executed = TRUE]
      /\ t.id \in DOMAIN w.scheduled_policy_updates /\ Executable(w, update, t)
      /\ m \in DOMAIN w.contracts[c].method_policies
    BY Zenon DEF ExecutePolicyUpdate, Require, Ok, Err, Contract
<1>2. DOMAIN w = Fields
    BY StateFields, Zenon DEF StateInv, WellFormed
<1> HIDE DEF v
<1>3. /\ Changes(w, v, {"contracts", "scheduled_policy_updates"})
      /\ v.contracts = contracts /\ v.scheduled_policy_updates = updates
    BY <1>1, <1>2, StateFields, Zenon DEF Changes, Fields, ContractsWith
<1>4. Executing(w, t, t.id, w.scheduled_policy_updates, updates)
  <2>1. "executed" \in DOMAIN w.scheduled_policy_updates[t.id]
    BY <1>1, StateSchedules, Zenon DEF CleanSchedules, ChangeFields
  <2>2. QED
    BY <1>1, <2>1, Zenon DEF Executing
<1>5. c \in DOMAIN w.contracts /\ m \in DOMAIN w.contracts[c].method_policies
    BY <1>1, Zenon DEF Executable
<1>6. /\ v.aspect_modules = w.aspect_modules
      /\ v.scheduled_upgrades = w.scheduled_upgrades
      /\ Changes(w, v, {"contracts", "scheduled_upgrades", "scheduled_policy_updates"})
    BY <1>3, Zenon DEF Changes, Fields
<1> HIDE DEF updates, c, m, effect
<1>7. /\ Amended(w, v, c) /\ WellFormedContract(v, c)
      /\ DOMAIN v.contracts[c].method_policies = DOMAIN w.contracts[c].method_policies
      /\ v.contracts[c].code_hash = w.contracts[c].code_hash
  <2>1. UpdatedTo(w, v, c, m, effect)
    BY <1>3, <1>6, Zenon DEF UpdatedTo
  <2>2. QED
    BY <1>5, <2>1, UpdatedContracts, Zenon
<1> HIDE DEF contracts
<1>8. CleanSchedules(v, w.scheduled_upgrades, updates)
    BY <1>4, <1>5, <1>7, StateSchedules, ExecutedSchedules, Zenon
<1>9. StateInv(v) /\ Administered(w, v)
    BY <1>3, <1>5, <1>6, <1>7, <1>8, AmendedState, Zenon
<1>10. QED
    BY <1>3, <1>4, <1>7, <1>9, Zenon DEF v, c

LEMMA RegistryState ==
    ASSUME NEW w, StateInv(w), NEW v, Changes(w, v, {"registry", "aspect_modules"}),
           Administered(w, v), DOMAIN w.aspect_modules \subseteq DOMAIN v.aspect_modules,
           \A hash \in DOMAIN v.aspect_modules : WellFormedModule(v.aspect_modules[hash])
    PROVE  StateInv(v)
<1>1. /\ v.contracts = w.contracts /\ v.paused_contracts = w.paused_contracts
      /\ v.scheduled_upgrades = w.scheduled_upgrades
      /\ v.scheduled_policy_updates = w.scheduled_policy_updates
      /\ v.outbound_message_ids = w.outbound_message_ids
      /\ v.cross_shard_outbox = w.cross_shard_outbox
    BY Zenon DEF Changes, Fields
<1>2. \A c : Kind(v, c) = Kind(w, c) /\ Contract(v, c) = Contract(w, c)
    BY <1>1, Zenon DEF Kind, Contract
<1>3. Clean(v) /\ Recorded(v)
    BY <1>1, <1>2, Zenon DEF Clean, StateInv, Recorded
<1>4. OutboxTaken(v)
    BY <1>1, Zenon DEF OutboxTaken, OutboundMessagesAreUnique, StateInv
<1>5. \A c \in DOMAIN w.contracts : WellFormedContract(v, c)
    BY <1>1, <1>2 DEF StateInv, WellFormed, WellFormedContract
<1>6. QED
    BY <1>3, <1>4, <1>5, AdministeredState, Zenon

Extended(f, key, value, g) ==
    /\ DOMAIN g = DOMAIN f \cup {key} /\ g[key] = value
    /\ \A k \in DOMAIN f \ {key} : g[k] = f[k]

LEMMA OverEntry ==
    ASSUME NEW f, NEW key, NEW value
    PROVE  Extended(f, key, value, Over(Entry(key, value), f))
    BY Zenon DEF Extended, Over, Entry

LEMMA SubmitAspectModuleOutcome ==
    ASSUME NEW w, StateInv(w), NEW t \in Transactions, t.method = "SubmitAspectModule",
           SubmitAspectModuleFromFactory(w, t).ok
    PROVE  LET v == SubmitAspectModuleFromFactory(w, t).w
           IN  StateInv(v) /\ Administered(w, v) /\ Changes(w, v, {"aspect_modules"})
<1> DEFINE v == SubmitAspectModuleFromFactory(w, t).w
           module == t.module
           modules == Over(Entry(module.hash, module), w.aspect_modules)
<1>1. /\ v = [w EXCEPT !.aspect_modules = modules]
      /\ module.complete /\ (module.has_ir => module.verified)
    BY Zenon DEF SubmitAspectModuleFromFactory, RegisterAspectModule, Require, Ok, Err
<1>2. WellFormedModule(module)
    BY <1>1, TransactionsAssumption, Zenon DEF WellFormedModule
<1>3. DOMAIN w = Fields
    BY StateFields, Zenon DEF StateInv, WellFormed
<1> HIDE DEF v, module
<1>4. Extended(w.aspect_modules, module.hash, module, modules)
    BY OverEntry, Zenon
<1> HIDE DEF modules
<1>5. Changes(w, v, {"aspect_modules"}) /\ v.aspect_modules = modules
    BY <1>1, <1>3, StateFields, Zenon DEF Changes, Fields
<1>6. \A hash \in DOMAIN modules : WellFormedModule(modules[hash])
    BY <1>2, <1>4, Zenon DEF StateInv, WellFormed, Extended
<1>7. Changes(w, v, {"registry", "aspect_modules"}) /\ v.registry = w.registry
    BY <1>5, Zenon DEF Changes, Fields
<1>8. Administered(w, v)
    BY <1>5, Zenon DEF Administered, Changes, Fields, HasGrant, Kind
<1>9. StateInv(v)
    BY <1>4, <1>5, <1>6, <1>7, <1>8, RegistryState, Zenon DEF Extended
<1>10. QED
    BY <1>5, <1>8, <1>9, Zenon DEF v

(* The registry of account keys: only grants of account signers change.    *)
LEMMA AccountKeyOutcome ==
    ASSUME NEW w, StateInv(w), NEW t,
           NEW o, o = RegisterAccountKey(w, t) \/ o = RevokeAccountKey(w, t), o.ok
    PROVE  StateInv(o.w) /\ Administered(w, o.w) /\ Changes(w, o.w, {"registry"})
<1> DEFINE v == o.w
           grant == <<"AccountSigner", t.sender, t.key>>
           added == Over(Entry(grant, "active"), w.registry)
           revoked == [w.registry EXCEPT ![grant] = "revoked"]
<1>1. /\ t.key.canonical
      /\ \/ v = [w EXCEPT !.registry = added]
         \/ v = [w EXCEPT !.registry = revoked] /\ grant \in DOMAIN w.registry
    BY DEF RegisterAccountKey, RevokeAccountKey, AddGrant, Require, Ok, Err
<1>2. DOMAIN w = Fields
    BY StateFields, Zenon DEF StateInv, WellFormed
<1>3. grant[1] = "AccountSigner" /\ grant[3].canonical
    BY <1>1, Zenon
<1> HIDE DEF grant, v
<1>4. Extended(w.registry, grant, "active", added)
    BY OverEntry, Zenon
<1>5. /\ DOMAIN revoked = DOMAIN w.registry
      /\ \A g \in DOMAIN w.registry \ {grant} : revoked[g] = w.registry[g]
    BY Zenon
<1> HIDE DEF added, revoked
<1>6. Changes(w, v, {"registry"}) /\ v.registry \in {added, revoked}
    BY <1>1, <1>2, StateFields, Zenon DEF Changes, Fields
<1>7. \A g : g # grant /\ HasGrant(w, g) => HasGrant(v, g)
    BY <1>4, <1>5, <1>6, Zenon DEF HasGrant, Extended
<1>8. \A g \in DOMAIN v.registry : g \in DOMAIN w.registry \/ g = grant
    BY <1>4, <1>5, <1>6, Zenon DEF Extended
<1>9. /\ DOMAIN v = DOMAIN NewState /\ v.height = w.height /\ v.storage = w.storage
      /\ v.contracts = w.contracts /\ v.aspect_modules = w.aspect_modules
      /\ v.trusted_bridge_validator_sets = w.trusted_bridge_validator_sets
      /\ Changes(w, v, {"registry", "aspect_modules"})
    BY <1>6, Zenon DEF Changes, Fields
<1>10. Administered(w, v)
    BY <1>3, <1>7, <1>8, <1>9, Zenon DEF Administered, Kind
<1>11. StateInv(v)
    BY <1>9, <1>10, RegistryState, Zenon DEF StateInv, WellFormed
<1>12. QED
    BY <1>6, <1>10, <1>11, Zenon DEF v


-----------------------------------------------------------------------------
(* The calls that only write storage.                                      *)

FramedMethods ==
    {"Transfer", "AddLiquidity", "Swap", "SubmitPrice", "RedeemBridgeMessage", "DepositCollateral",
     "Borrow", "Liquidate", "Stake", "Unstake", "RequestUnstake", "CompleteUnstake",
     "ClaimStakingRewards"} \cup AspectMethods

(* The keys of the called contract that a call may write.                  *)
Scope(w, t) ==
    CASE t.method = "AddLiquidity" -> LiquidityScope(w, t)
      [] t.method = "Swap" -> SwapScope(w, t)
      [] t.method = "SubmitPrice" -> PriceScope(t.target, t.asset)
      [] t.method = "RedeemBridgeMessage" -> {ConsumedKey(t.target, t.id)}
      [] t.method \in {"DepositCollateral", "Borrow"} -> VaultScope(t.target, t.sender)
      [] t.method = "Liquidate" -> VaultScope(t.target, t.borrower)
      [] t.method \in {"Stake", "Unstake", "RequestUnstake"} -> StakingScope(t.target, t.sender)
      [] t.method = "CompleteUnstake" -> CompletionScope(t.target, t.sender)
      [] t.method = "ClaimStakingRewards" -> AccrualScope(t.target, t.sender)
      [] OTHER -> {}

LEMMA ScopeOwned ==
    ASSUME NEW w, NEW t
    PROVE  \A key \in Scope(w, t) : key[2] = t.target
<1>1. \A key \in LiquidityScope(w, t) \cup SwapScope(w, t) \cup PriceScope(t.target, t.asset) :
          key[2] = t.target
    BY DEF LiquidityScope, SwapScope, PriceScope
<1>2. \A p : \A key \in VaultScope(t.target, p) : key[2] = t.target
    BY DEF VaultScope
<1>3. \A p : \A key \in StakingScope(t.target, p) \cup CompletionScope(t.target, p) \cup AccrualScope(t.target, p)
          : key[2] = t.target
    BY DEF StakingScope, AccrualScope, StakeScope, CompletionScope
<1>4. \A id : ConsumedKey(t.target, id)[2] = t.target
    BY Zenon DEF ConsumedKey
<1>5. QED
    BY <1>1, <1>2, <1>3, <1>4, Zenon DEF Scope

(* What such a call is shown to do.                                        *)
FramedCall(w, t) ==
    LET o == Dispatch(w, t)
    IN  /\ FramedOutcome(Scope(w, t), w, o)
        /\ o.ok => StateInv(o.w)
        /\ o.ok /\ Kind(w, t.target).name = "AmmPool" =>
              PoolProduct(o.w, t.target) >= PoolProduct(w, t.target)

LEMMA FramedCallOf ==
    ASSUME NEW w, StateInv(w), NEW t, t.target \in DOMAIN w.contracts,
           FramedOutcome(Scope(w, t), w, Dispatch(w, t)),
           LET o == Dispatch(w, t)
           IN  /\ Kind(w, t.target).name = "AmmPool" => PoolKept(w, o, t.target)
               /\ o.ok /\ Kind(w, t.target).name = "Staking" =>
                     /\ StakingInvariantsHold(o.w, t.target)
                     /\ StakingPendingUnbondingInvariantsHold(o.w, t.target)
    PROVE  FramedCall(w, t)
<1> DEFINE o == Dispatch(w, t)
<1> HIDE DEF o
<1>1. ASSUME o.ok PROVE StateInv(o.w)
  <2>1. Framed(Scope(w, t), w, o.w)
    BY <1>1, SuccessFramed, Zenon DEF o
  <2>2. Kind(w, t.target).name = "AmmPool" => AmmInvariantsHold(o.w, t.target)
    BY <1>1, Zenon DEF PoolKept, o
  <2>3. QED
    BY <1>1, <2>1, <2>2, ScopeOwned, FramedState, Zenon DEF o
<1>2. QED
    BY <1>1, Zenon DEF FramedCall, PoolKept, o

LEMMA TokenCall ==
    ASSUME NEW w, StateInv(w), NEW t \in Transactions, Callable(w, t), t.method = "Transfer"
    PROVE  FramedCall(w, t)
<1>1. /\ t.target \in DOMAIN w.contracts /\ Kind(w, t.target).name = "Token"
      /\ t.amount \in Nat
  <2>1. t.target \in DOMAIN w.contracts /\ Kind(w, t.target).name = "Token"
    BY StandardCall DEF StateInv, StandardEffects, KindOfMethod
  <2>2. QED
    BY <2>1, TransactionsAssumption, Zenon DEF AmountMethods
<1>2. Dispatch(w, t) = TransferNative(w, t.target, t.sender, t.to, t.amount) /\ Scope(w, t) = {}
    BY Zenon DEF Dispatch, Scope
<1>3. t.target \in Deployed(w, "Token") /\ Framed({}, w, w)
    BY <1>1, WellFormedSized, FramedSelf, Zenon DEF Deployed, Kind, StateInv
<1>4. FramedOutcome(Scope(w, t), w, Dispatch(w, t))
    BY <1>1, <1>2, <1>3, TransferNativeFramed, Zenon
<1>5. QED
    BY <1>1, <1>4, FramedCallOf, Zenon

LEMMA PoolCall ==
    ASSUME NEW w, StateInv(w), NEW t \in Transactions, Callable(w, t),
           t.method \in {"AddLiquidity", "Swap"}
    PROVE  FramedCall(w, t)
<1>1. /\ t.target \in DOMAIN w.contracts /\ Kind(w, t.target).name = "AmmPool"
      /\ WellTyped(Kind(w, t.target))
    BY StandardCall DEF StateInv, StandardEffects, KindOfMethod
<1>2. Pool(w, t.target) /\ Sized(w)
    BY <1>1, WellFormedSized, Zenon DEF WellTyped, Pool, StateInv
<1>3. CASE t.method = "AddLiquidity"
  <2>1. Dispatch(w, t) = AddLiquidity(w, t) /\ Scope(w, t) = LiquidityScope(w, t)
    BY <1>3, Zenon DEF Dispatch, Scope
  <2>2. t.amount \in Nat /\ t.amount_b \in Nat
    BY <1>3, TransactionsAssumption, Zenon DEF AmountMethods
  <2>3. FramedOutcome(Scope(w, t), w, Dispatch(w, t)) /\ PoolKept(w, Dispatch(w, t), t.target)
    BY <1>2, <2>1, <2>2, AddLiquidityOutcome, Zenon
  <2>4. QED
    BY <1>1, <2>3, FramedCallOf, Zenon
<1>4. CASE t.method = "Swap"
  <2>1. Dispatch(w, t) = Swap(w, t) /\ Scope(w, t) = SwapScope(w, t)
    BY <1>4, Zenon DEF Dispatch, Scope
  <2>2. t.amount \in Nat
    BY <1>4, TransactionsAssumption, Zenon DEF AmountMethods
  <2>3. FramedOutcome(Scope(w, t), w, Dispatch(w, t)) /\ PoolKept(w, Dispatch(w, t), t.target)
    BY <1>2, <2>1, <2>2, SwapOutcome, Zenon
  <2>4. QED
    BY <1>1, <2>3, FramedCallOf, Zenon
<1>5. QED
    BY <1>3, <1>4, Zenon

LEMMA OracleBridgeCall ==
    ASSUME NEW w, StateInv(w), NEW t \in Transactions, Callable(w, t),
           t.method \in {"SubmitPrice", "RedeemBridgeMessage"}
    PROVE  FramedCall(w, t)
<1>1. t.target \in DOMAIN w.contracts /\ Kind(w, t.target).name \in {"Oracle", "Bridge"}
    BY StandardCall DEF StateInv, StandardEffects, KindOfMethod
<1>2. Sized(w)
    BY WellFormedSized, Zenon DEF StateInv
<1>3. FramedOutcome(Scope(w, t), w, Dispatch(w, t))
  <2>1. CASE t.method = "SubmitPrice"
    <3>1. Dispatch(w, t) = SubmitPrice(w, t) /\ Scope(w, t) = PriceScope(t.target, t.asset)
        BY <2>1, Zenon DEF Dispatch, Scope
    <3>2. QED
        BY <1>2, <2>1, <3>1, TransactionsAssumption, SubmitPriceFramed, Zenon
  <2>2. CASE t.method = "RedeemBridgeMessage"
    <3>1. /\ Dispatch(w, t) = RedeemBridgeMessage(w, t)
          /\ Scope(w, t) = {ConsumedKey(t.target, t.id)}
        BY <2>2, Zenon DEF Dispatch, Scope
    <3>2. t.amount \in Nat
        BY <2>2, TransactionsAssumption, Zenon DEF AmountMethods
    <3>3. QED
        BY <1>2, <3>1, <3>2, RedeemOutcome, Zenon
  <2>3. QED
    BY <2>1, <2>2, Zenon
<1>4. QED
    BY <1>1, <1>3, FramedCallOf, Zenon

LEMMA VaultCall ==
    ASSUME NEW w, StateInv(w), NEW t \in Transactions, Callable(w, t),
           t.method \in {"DepositCollateral", "Borrow", "Liquidate"}
    PROVE  FramedCall(w, t)
<1>1. /\ t.target \in DOMAIN w.contracts /\ Kind(w, t.target).name = "LendingVault"
      /\ WellTyped(Kind(w, t.target))
    BY StandardCall DEF StateInv, StandardEffects, KindOfMethod
<1>2. Sized(w) /\ Kind(w, t.target).interest_bps \in Nat /\ t.amount \in Nat
    BY <1>1, WellFormedSized, TransactionsAssumption, Zenon DEF StateInv, WellTyped, AmountMethods
<1>3. FramedOutcome(Scope(w, t), w, Dispatch(w, t))
  <2>1. CASE t.method = "DepositCollateral"
    <3>1. Dispatch(w, t) = DepositCollateral(w, t) /\ Scope(w, t) = VaultScope(t.target, t.sender)
        BY <2>1, Zenon DEF Dispatch, Scope
    <3>2. QED
        BY <1>2, <3>1, DepositCollateralFramed, Zenon
  <2>2. CASE t.method = "Borrow"
    <3>1. Dispatch(w, t) = Borrow(w, t) /\ Scope(w, t) = VaultScope(t.target, t.sender)
        BY <2>2, Zenon DEF Dispatch, Scope
    <3>2. QED
        BY <1>2, <3>1, BorrowFramed, Zenon
  <2>3. CASE t.method = "Liquidate"
    <3>1. Dispatch(w, t) = Liquidate(w, t) /\ Scope(w, t) = VaultScope(t.target, t.borrower)
        BY <2>3, Zenon DEF Dispatch, Scope
    <3>2. QED
        BY <1>2, <3>1, LiquidateFramed, Zenon
  <2>4. QED
    BY <2>1, <2>2, <2>3, Zenon
<1>4. QED
    BY <1>1, <1>3, FramedCallOf, Zenon

LEMMA StakeBooksSame ==
    ASSUME NEW w, NEW v, NEW c, StakingInvariantsHold(w, c),
           \A key : key[1] \in {"StakeBalance", "TotalStaked"} /\ key[2] = c => Same(w, v, key)
    PROVE  StakingInvariantsHold(v, c)
<1>1. SumOver(v, "StakeBalance", c) = SumOver(w, "StakeBalance", c)
    BY SumSame
<1>2. TotalStaked(v, c) = TotalStaked(w, c)
    BY SameUint, Zenon DEF TotalStaked
<1>3. QED
    BY <1>1, <1>2, Zenon DEF StakingInvariantsHold

(* The three methods that change a stake.                                  *)
LEMMA StakeChangingCall ==
    ASSUME NEW w, StateInv(w), NEW t \in Transactions, Callable(w, t),
           t.method \in {"Stake", "Unstake", "RequestUnstake"}
    PROVE  FramedCall(w, t) /\ StakeChanged(w, Dispatch(w, t), t.target, t.sender)
<1>1. /\ t.target \in DOMAIN w.contracts /\ Kind(w, t.target).name = "Staking"
      /\ WellTyped(Kind(w, t.target))
    BY StandardCall DEF StateInv, StandardEffects, KindOfMethod
<1>2. /\ Sized(w) /\ t.amount \in Nat
      /\ Kind(w, t.target).reward_per_block \in Nat /\ Kind(w, t.target).unbonding_delay \in Nat
      /\ Kind(w, t.target).penalty_bps \in 0..BasisPoints
    BY <1>1, WellFormedSized, TransactionsAssumption, Zenon DEF StateInv, WellTyped, AmountMethods
<1>3. StakeChanged(w, Dispatch(w, t), t.target, t.sender)
  <2>1. CASE t.method = "Stake"
    <3>1. Dispatch(w, t) = Stake(w, t)
        BY <2>1, Zenon DEF Dispatch
    <3>2. QED
        BY <1>2, <3>1, StakeOutcome, Zenon
  <2>2. CASE t.method = "Unstake"
    <3>1. Dispatch(w, t) = Unstake(w, t)
        BY <2>2, Zenon DEF Dispatch
    <3>2. QED
        BY <1>2, <3>1, UnstakeOutcome, Zenon
  <2>3. CASE t.method = "RequestUnstake"
    <3>1. Dispatch(w, t) = RequestUnstake(w, t)
        BY <2>3, Zenon DEF Dispatch
    <3>2. QED
        BY <1>2, <3>1, RequestUnstakeOutcome, Zenon
  <2>4. QED
    BY <2>1, <2>2, <2>3, Zenon
<1>4. Scope(w, t) = StakingScope(t.target, t.sender)
    BY Zenon DEF Scope
<1>5. FramedCall(w, t)
    BY <1>1, <1>3, <1>4, FramedCallOf, Zenon DEF StakeChanged, Checked
<1>6. QED
    BY <1>3, <1>5, Zenon

LEMMA CompletionCall ==
    ASSUME NEW w, StateInv(w), NEW t \in Transactions, Callable(w, t), t.method = "CompleteUnstake"
    PROVE  FramedCall(w, t)
<1> DEFINE o == Dispatch(w, t)
           c == t.target
<1>1. c \in DOMAIN w.contracts /\ Kind(w, c).name = "Staking"
    BY StandardCall DEF StateInv, StandardEffects, KindOfMethod
<1>2. Sized(w) /\ t.amount \in Nat
    BY WellFormedSized, TransactionsAssumption, Zenon DEF StateInv, AmountMethods
<1>3. o = CompleteUnstake(w, t) /\ Scope(w, t) = CompletionScope(c, t.sender)
    BY Zenon DEF Dispatch, Scope
<1> HIDE DEF o
<1>4. /\ FramedOutcome(CompletionScope(c, t.sender), w, o)
      /\ o.ok => StakingPendingUnbondingInvariantsHold(o.w, c)
    BY <1>2, <1>3, CompleteUnstakeOutcome, Zenon
<1>5. ASSUME o.ok PROVE StakingInvariantsHold(o.w, c)
  <2>1. Framed(CompletionScope(c, t.sender), w, o.w)
    BY <1>4, <1>5, SuccessFramed, Zenon
  <2>2. \A key : key[1] \in {"StakeBalance", "TotalStaked"} => Same(w, o.w, key)
    BY <2>1 DEF Framed, CompletionScope, LedgerKey, TokenVariants
  <2>3. QED
    BY <1>1, <2>2, StakeBooksSame DEF StateInv, BooksHold
<1>6. QED
    BY <1>1, <1>3, <1>4, <1>5, FramedCallOf, Zenon DEF o

LEMMA ClaimCall ==
    ASSUME NEW w, StateInv(w), NEW t \in Transactions, Callable(w, t),
           t.method = "ClaimStakingRewards"
    PROVE  FramedCall(w, t) /\ RewardsPaid(w, Dispatch(w, t), t)
<1> DEFINE o == Dispatch(w, t)
           c == t.target
<1>1. c \in DOMAIN w.contracts /\ Kind(w, c).name = "Staking" /\ WellTyped(Kind(w, c))
    BY StandardCall DEF StateInv, StandardEffects, KindOfMethod
<1>2. Sized(w) /\ Kind(w, c).reward_per_block \in Nat
    BY <1>1, WellFormedSized, Zenon DEF StateInv, WellTyped
<1>3. o = ClaimStakingRewards(w, t) /\ Scope(w, t) = AccrualScope(c, t.sender)
    BY Zenon DEF Dispatch, Scope
<1> HIDE DEF o
<1>4. RewardsPaid(w, o, t)
    BY <1>2, <1>3, ClaimOutcome, Zenon
<1>5. FramedOutcome(AccrualScope(c, t.sender), w, o)
    BY <1>4, Zenon DEF RewardsPaid
<1>6. ASSUME o.ok
      PROVE  StakingInvariantsHold(o.w, c) /\ StakingPendingUnbondingInvariantsHold(o.w, c)
  <2>1. Framed(AccrualScope(c, t.sender), w, o.w)
    BY <1>5, <1>6, SuccessFramed, Zenon
  <2>2. \A key : key[1] \in BookVariants => Same(w, o.w, key)
    BY <2>1 DEF Framed, AccrualScope, LedgerKey, TokenVariants, BookVariants
  <2>3. QED
    BY <1>1, <2>2, BooksSame, Zenon DEF StateInv, BooksHold
<1>7. FramedCall(w, t)
    BY <1>1, <1>3, <1>5, <1>6, FramedCallOf, Zenon DEF o
<1>8. QED
    BY <1>4, <1>7, Zenon DEF o

LEMMA ProjectionCall ==
    ASSUME NEW w, StateInv(w), NEW t \in Transactions, Callable(w, t), t.method \in AspectMethods
    PROVE  FramedCall(w, t)
<1>1. t.target \in DOMAIN w.contracts /\ Kind(w, t.target).name = "AspectModule"
    BY AspectCall, Zenon DEF StateInv, Deployed, Kind
<1>2. Dispatch(w, t) = ExecuteAspectModuleMethod(w, t) /\ Scope(w, t) = {}
    BY Zenon DEF Dispatch, Scope, AspectMethods
<1>3. t.amount \in Nat
    BY TransactionsAssumption, Zenon DEF AmountMethods
<1>4. FramedOutcome(Scope(w, t), w, Dispatch(w, t))
    BY <1>2, <1>3, AspectMethodFramed, Zenon DEF StateInv
<1>5. QED
    BY <1>1, <1>4, FramedCallOf, Zenon

LEMMA FramedCalls ==
    ASSUME NEW w, StateInv(w), NEW t \in Transactions, Callable(w, t), t.method \in FramedMethods
    PROVE  FramedCall(w, t)
    BY TokenCall, PoolCall, OracleBridgeCall, VaultCall, StakeChangingCall, CompletionCall,
       ClaimCall, ProjectionCall, Zenon DEF FramedMethods

=============================================================================
