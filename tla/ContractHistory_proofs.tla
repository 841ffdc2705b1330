----------------------- MODULE ContractHistory_proofs -----------------------
(***************************************************************************)
(* Every call keeps StateInv, and the private books of the contracts that  *)
(* are outside its scope.  And what the history of a behaviour says of a   *)
(* call: redemptions are marked, rewards are due, changes were scheduled.  *)
(***************************************************************************)
EXTENDS Contracts, ContractCalls_proofs

-----------------------------------------------------------------------------
(* The other calls, and every call.                                        *)

LaunchMethods == {"DeployToken", "DeployAmmPool", "DeployAspectContract"}
AdminMethods ==
    {"PauseContract", "UnpauseContract", "ScheduleUpgrade", "ExecuteUpgrade",
     "SchedulePolicyUpdate", "ExecutePolicyUpdate", "SubmitAspectModule", "RegisterAccountKey",
     "RevokeAccountKey"}

LEMMA MethodsCovered ==
    ASSUME NEW t \in Transactions
    PROVE  t.method \in FramedMethods \cup {"QueueBridgeMessage"} \cup LaunchMethods \cup AdminMethods
<1>1. t.method \in DispatchedMethods
    BY TransactionsAssumption, Zenon
<1>2. QED
    BY <1>1, Zenon DEF DispatchedMethods, FramedMethods, LaunchMethods, AdminMethods

LEMMA QueueCall ==
    ASSUME NEW w, StateInv(w), NEW t \in Transactions, Callable(w, t),
           t.method = "QueueBridgeMessage"
    PROVE  LET o == Dispatch(w, t)
           IN  Restorable(w, o.w) /\ (o.ok => StateInv(o.w) /\ Queued(w, o.w, t))
<1>1. Dispatch(w, t) = QueueBridgeMessage(w, t)
    BY Zenon DEF Dispatch
<1>2. t.target \in DOMAIN w.contracts
    BY Zenon DEF Callable
<1>3. Sized(w) /\ t.amount \in Nat
    BY WellFormedSized, TransactionsAssumption, Zenon DEF StateInv, AmountMethods
<1> DEFINE o == QueueBridgeMessage(w, t)
<1>4. Restorable(w, o.w) /\ (o.ok => t.id \notin w.outbound_message_ids /\ Queued(w, o.w, t))
    BY <1>3, QueueOutcome, Zenon
<1> HIDE DEF o
<1>5. o.ok => StateInv(o.w)
    BY <1>2, <1>4, QueuedState, Zenon
<1>6. QED
    BY <1>1, <1>4, <1>5, Zenon DEF o

LEMMA LaunchCall ==
    ASSUME NEW w, StateInv(w), NEW t \in Transactions, t.method \in LaunchMethods
    PROVE  LET o == Dispatch(w, t)
           IN  Restorable(w, o.w) /\ (o.ok => StateInv(o.w) /\ Launched(w, o.w, t.contract))
<1>1. Sized(w) /\ Owned(w)
    BY WellFormedSized, Zenon DEF StateInv
<1>2. CASE t.method = "DeployToken"
  <2>1. Dispatch(w, t) = DeployTokenFromFactory(w, t)
    BY <1>2, Zenon DEF Dispatch
  <2>2. t.amount \in Nat
    BY <1>2, TransactionsAssumption, Zenon DEF AmountMethods
  <2>3. Restorable(w, DeployTokenFromFactory(w, t).w)
    BY <1>1, <2>2, DeployTokenOutcome, Zenon
  <2>4. QED
    BY <2>1, <2>2, <2>3, TokenLaunched, Zenon
<1>3. CASE t.method = "DeployAmmPool"
  <2>1. Dispatch(w, t) = DeployAmmPoolFromFactory(w, t)
    BY <1>3, Zenon DEF Dispatch
  <2>2. Restorable(w, DeployAmmPoolFromFactory(w, t).w)
    BY <1>1, DeployPoolOutcome, Zenon
  <2>3. QED
    BY <2>1, <2>2, PoolLaunched, Zenon
<1>4. CASE t.method = "DeployAspectContract"
  <2>1. Dispatch(w, t) = DeployAndInitialize(w, t)
    BY <1>4, Zenon DEF Dispatch
  <2>2. QED
    BY <1>4, <2>1, LaunchOutcome, Zenon
<1>5. QED
    BY <1>2, <1>3, <1>4, Zenon DEF LaunchMethods

(* The fields in which an administrative call may differ.                  *)
AdminFields(method) ==
    CASE method \in {"PauseContract", "UnpauseContract"} -> {"paused_contracts"}
      [] method = "ScheduleUpgrade" -> {"scheduled_upgrades"}
      [] method = "SchedulePolicyUpdate" -> {"scheduled_policy_updates"}
      [] method = "ExecuteUpgrade" -> {"contracts", "scheduled_upgrades"}
      [] method = "ExecutePolicyUpdate" -> {"contracts", "scheduled_policy_updates"}
      [] method = "SubmitAspectModule" -> {"aspect_modules"}
      [] OTHER -> {"registry"}

AdminCalled(w, t) ==
    LET o == Dispatch(w, t)
    IN  /\ ~o.ok => o.w = w
        /\ o.ok => StateInv(o.w) /\ Administered(w, o.w) /\ Changes(w, o.w, AdminFields(t.method))

LEMMA GovernanceCall ==
    ASSUME NEW w, StateInv(w), NEW t \in Transactions, Callable(w, t),
           t.method \in {"PauseContract", "UnpauseContract", "ScheduleUpgrade", "ExecuteUpgrade",
                         "SchedulePolicyUpdate", "ExecutePolicyUpdate"}
    PROVE  AdminCalled(w, t)
<1>1. t.target \in DOMAIN w.contracts /\ Kind(w, t.target).name = "Governance"
    BY StandardCall DEF StateInv, StandardEffects, KindOfMethod
<1>2. CASE t.method = "PauseContract"
  <2>1. Dispatch(w, t) = PauseContract(w, t) /\ AdminFields(t.method) = {"paused_contracts"}
    BY <1>2, Zenon DEF Dispatch, AdminFields
  <2>2. ~PauseContract(w, t).ok => PauseContract(w, t).w = w
    BY Zenon DEF PauseContract, Require, Ok, Err
  <2>3. QED
    BY <1>1, <2>1, <2>2, PauseOutcome, Zenon DEF AdminCalled
<1>3. CASE t.method = "UnpauseContract"
  <2>1. Dispatch(w, t) = UnpauseContract(w, t) /\ AdminFields(t.method) = {"paused_contracts"}
    BY <1>3, Zenon DEF Dispatch, AdminFields
  <2>2. ~UnpauseContract(w, t).ok => UnpauseContract(w, t).w = w
    BY Zenon DEF UnpauseContract, Require, Ok, Err
  <2>3. QED
    BY <1>1, <2>1, <2>2, PauseOutcome, Zenon DEF AdminCalled
<1>4. CASE t.method = "ScheduleUpgrade"
  <2>1. Dispatch(w, t) = ScheduleUpgrade(w, t) /\ AdminFields(t.method) = {"scheduled_upgrades"}
    BY <1>4, Zenon DEF Dispatch, AdminFields
  <2>2. ~ScheduleUpgrade(w, t).ok => ScheduleUpgrade(w, t).w = w
    BY Zenon DEF ScheduleUpgrade, Require, Ok, Err
  <2>3. QED
    BY <1>1, <2>1, <2>2, ScheduleUpgradeOutcome, Zenon DEF AdminCalled
<1>5. CASE t.method = "ExecuteUpgrade"
  <2>1. /\ Dispatch(w, t) = ExecuteUpgrade(w, t)
        /\ AdminFields(t.method) = {"contracts", "scheduled_upgrades"}
    BY <1>5, Zenon DEF Dispatch, AdminFields
  <2>2. ~ExecuteUpgrade(w, t).ok => ExecuteUpgrade(w, t).w = w
    <3> DEFINE upgrade == w.scheduled_upgrades[t.id]
               ready == /\ RequireGovernanceAdmin(w, t)
                        /\ t.id \in DOMAIN w.scheduled_upgrades
                        /\ Executable(w, upgrade, t)
               v == [w EXCEPT !.contracts[upgrade.target].code_hash = upgrade.new_code_hash,
                              !.scheduled_upgrades[t.id].executed = TRUE]
    <3>1. ExecuteUpgrade(w, t) = Require(ready, w, Ok(v))
      BY Zenon DEF ExecuteUpgrade
    <3> HIDE DEF ready, v
    <3>2. QED
      BY <3>1 DEF Require, Ok, Err
  <2>3. QED
    BY <2>1, <2>2, ExecuteUpgradeOutcome DEF AdminCalled
<1>6. CASE t.method = "SchedulePolicyUpdate"
  <2>1. /\ Dispatch(w, t) = SchedulePolicyUpdate(w, t)
        /\ AdminFields(t.method) = {"scheduled_policy_updates"}
    BY <1>6, Zenon DEF Dispatch, AdminFields
  <2>2. ~SchedulePolicyUpdate(w, t).ok => SchedulePolicyUpdate(w, t).w = w
    BY Zenon DEF SchedulePolicyUpdate, Require, Ok, Err
  <2>3. QED
    BY <1>1, <2>1, <2>2, SchedulePolicyUpdateOutcome, Zenon DEF AdminCalled
<1>7. CASE t.method = "ExecutePolicyUpdate"
  <2>1. /\ Dispatch(w, t) = ExecutePolicyUpdate(w, t)
        /\ AdminFields(t.method) = {"contracts", "scheduled_policy_updates"}
    BY <1>7, Zenon DEF Dispatch, AdminFields
  <2>2. ~ExecutePolicyUpdate(w, t).ok => ExecutePolicyUpdate(w, t).w = w
    BY Zenon DEF ExecutePolicyUpdate, Require, Ok, Err
  <2>3. QED
    BY <2>1, <2>2, ExecutePolicyUpdateOutcome DEF AdminCalled
<1>8. QED
    BY <1>2, <1>3, <1>4, <1>5, <1>6, <1>7, Zenon

LEMMA AdminCall ==
    ASSUME NEW w, StateInv(w), NEW t \in Transactions, Callable(w, t), t.method \in AdminMethods
    PROVE  AdminCalled(w, t)
<1>1. CASE t.method = "SubmitAspectModule"
  <2>1. /\ Dispatch(w, t) = SubmitAspectModuleFromFactory(w, t)
        /\ AdminFields(t.method) = {"aspect_modules"}
    BY <1>1, Zenon DEF Dispatch, AdminFields
  <2>2. ~SubmitAspectModuleFromFactory(w, t).ok => SubmitAspectModuleFromFactory(w, t).w = w
    BY Zenon DEF SubmitAspectModuleFromFactory, RegisterAspectModule, Require, Ok, Err
  <2>3. QED
    BY <1>1, <2>1, <2>2, SubmitAspectModuleOutcome, Zenon DEF AdminCalled
<1>2. CASE t.method = "RegisterAccountKey"
  <2>1. Dispatch(w, t) = RegisterAccountKey(w, t) /\ AdminFields(t.method) = {"registry"}
    BY <1>2, Zenon DEF Dispatch, AdminFields
  <2>2. ~RegisterAccountKey(w, t).ok => RegisterAccountKey(w, t).w = w
    BY Zenon DEF RegisterAccountKey, Require, Ok, Err
  <2>3. QED
    BY <2>1, <2>2, AccountKeyOutcome, Zenon DEF AdminCalled
<1>3. CASE t.method = "RevokeAccountKey"
  <2>1. Dispatch(w, t) = RevokeAccountKey(w, t) /\ AdminFields(t.method) = {"registry"}
    BY <1>3, Zenon DEF Dispatch, AdminFields
  <2>2. ~RevokeAccountKey(w, t).ok => RevokeAccountKey(w, t).w = w
    BY Zenon DEF RevokeAccountKey, Require, Ok, Err
  <2>3. QED
    BY <2>1, <2>2, AccountKeyOutcome, Zenon DEF AdminCalled
<1>4. QED
    BY <1>1, <1>2, <1>3, GovernanceCall, Zenon DEF AdminMethods

(* Every call keeps what is kept of a state, and leaves one that can be    *)
(* rolled back.                                                            *)
LEMMA CallState ==
    ASSUME NEW w, StateInv(w), NEW t \in Transactions
    PROVE  LET o == ExecuteCall(w, t)
           IN  Restorable(w, o.w) /\ (o.ok => Callable(w, t) /\ o = Dispatch(w, t) /\ StateInv(o.w))
<1> DEFINE o == Dispatch(w, t)
<1>1. Restorable(w, w)
    BY WellFormedSized, SelfRestorable, Zenon DEF StateInv
<1> HIDE DEF o
<1>2. ASSUME Callable(w, t) PROVE Restorable(w, o.w) /\ (o.ok => StateInv(o.w))
  <2>1. CASE t.method \in FramedMethods
    BY <1>2, <2>1, FramedCalls, Zenon DEF FramedCall, FramedOutcome, o
  <2>2. CASE t.method = "QueueBridgeMessage"
    BY <1>2, <2>2, QueueCall, Zenon DEF o
  <2>3. CASE t.method \in LaunchMethods
    BY <1>2, <2>3, LaunchCall, Zenon DEF o
  <2>4. CASE t.method \in AdminMethods
    BY <1>1, <1>2, <2>4, AdminCall, Zenon DEF AdminCalled, Administered, Restorable, o
  <2>5. QED
    BY <2>1, <2>2, <2>3, <2>4, MethodsCovered, Zenon
<1>3. ExecuteCall(w, t) = IF Callable(w, t) THEN o ELSE Err(w)
    BY Zenon DEF ExecuteCall, Require, o
<1>4. QED
    BY <1>1, <1>2, <1>3 DEF Err, o

(* apply_transaction restores all that an error may leave changed.         *)
LEMMA RolledBackSame ==
    ASSUME NEW w, StateInv(w), NEW v, Restorable(w, v)
    PROVE  LET u == RolledBack(w, v)
           IN  Changes(w, u, {}) /\ StateInv(u) /\ Administered(w, u)
<1> DEFINE u == RolledBack(w, v)
<1>1. DOMAIN v = Fields
    BY StateFields, Zenon DEF Restorable
<1>2. Changes(w, u, {})
    BY <1>1, StateFields, Zenon DEF RolledBack, Changes, Restorable, Fields
<1> HIDE DEF u
<1>3. Changes(w, u, ScheduleFields)
    BY <1>2, Zenon DEF Changes
<1>4. /\ u.paused_contracts = w.paused_contracts /\ u.scheduled_upgrades = w.scheduled_upgrades
      /\ u.scheduled_policy_updates = w.scheduled_policy_updates
    BY <1>2, Zenon DEF Changes, Fields
<1>5. StateInv(u) /\ Administered(w, u)
    BY <1>3, <1>4, StateSchedules, ScheduledState, Zenon
<1>6. QED
    BY <1>2, <1>5, Zenon DEF u

(* A block starts with the height, and nothing else, changed.              *)
LEMMA NewBlockState ==
    ASSUME NEW w, StateInv(w), NEW v, Changes(w, v, {"height"}), v.height \in Nat
    PROVE  StateInv(v)
<1>1. /\ DOMAIN v = DOMAIN NewState /\ v.storage = w.storage /\ v.registry = w.registry
      /\ v.contracts = w.contracts /\ v.paused_contracts = w.paused_contracts
      /\ v.aspect_modules = w.aspect_modules
      /\ v.scheduled_upgrades = w.scheduled_upgrades
      /\ v.scheduled_policy_updates = w.scheduled_policy_updates
      /\ v.outbound_message_ids = w.outbound_message_ids
      /\ v.cross_shard_outbox = w.cross_shard_outbox
    BY Zenon DEF Changes, Fields
<1>2. \A c : Kind(v, c) = Kind(w, c) /\ Contract(v, c) = Contract(w, c)
    BY <1>1, Zenon DEF Kind, Contract
<1>3. \A key : Same(w, v, key)
    BY <1>1, Zenon DEF Same
<1>4. \A grant : HasGrant(v, grant) <=> HasGrant(w, grant)
    BY <1>1, Zenon DEF HasGrant
<1>5. \A c \in DOMAIN w.contracts : WellFormedContract(v, c)
    BY <1>1, <1>2 DEF StateInv, WellFormed, WellFormedContract
<1>6. WellFormed(v)
    BY <1>1, <1>5, Zenon DEF StateInv, WellFormed
<1>7. Clean(v) /\ Recorded(v) /\ OutboxTaken(v)
    BY <1>1, <1>2, Zenon DEF StateInv, Clean, Recorded, OutboxTaken, OutboundMessagesAreUnique
<1>8. ASSUME NEW c \in DOMAIN w.contracts PROVE BooksHold(v, c)
  <2>1. BooksHold(w, c)
    BY Zenon DEF StateInv
  <2>2. TokenInvariantsHold(w, c) => TokenInvariantsHold(v, c)
    BY <1>3, TokenSame, Zenon
  <2>3. QED
    BY <1>2, <1>3, <2>1, <2>2, BooksSame, Zenon DEF BooksHold
<1>9. ASSUME NEW c \in DOMAIN w.contracts PROVE GrantsHold(v, c)
  <2>1. GrantsHold(w, c)
    BY Zenon DEF StateInv
  <2>2. /\ HasActiveOracleUpdater(w, c) => HasActiveOracleUpdater(v, c)
        /\ HasActiveGovernanceAdmin(w, c) => HasActiveGovernanceAdmin(v, c)
        /\ AccountSignerKeysCanonical(w) => AccountSignerKeysCanonical(v)
    BY <1>1, <1>4, Zenon
       DEF HasActiveOracleUpdater, HasActiveGovernanceAdmin, AccountSignerKeysCanonical
  <2>3. QED
    BY <1>2, <2>1, <2>2, Zenon DEF GrantsHold
<1>10. QED
    BY <1>1, <1>6, <1>7, <1>8, <1>9, Zenon DEF StateInv

-----------------------------------------------------------------------------
(* What every call keeps of the private books of contracts.                *)

RewardVariants == {"StakeBalance", "StakingRewardBalance", "StakingLastRewardHeight"}
PrivateVariants == RewardVariants \cup {"BridgeMessageConsumed", "Reserve"}

(* The kinds of the contracts, and their private books but for a scope.    *)
Kept(scope, w, v) ==
    /\ v.height = w.height /\ Keeps(w, v)
    /\ DOMAIN w.contracts \subseteq DOMAIN v.contracts
    /\ \A c \in DOMAIN w.contracts : Kind(v, c) = Kind(w, c)
    /\ Deployed(v, "Staking") = Deployed(w, "Staking")
    /\ \A key : key[1] \in PrivateVariants /\ key[2] \in DOMAIN w.contracts =>
                   Same(w, v, key) \/ key \in scope

LEMMA FramedKept ==
    ASSUME NEW scope, NEW w, NEW v, Framed(scope, w, v)
    PROVE  Kept(scope, w, v)
<1>1. v.contracts = w.contracts /\ v.height = w.height /\ Keeps(w, v)
    BY Zenon DEF Framed, SameElse
<1>2. \A key : key[1] \in PrivateVariants => Same(w, v, key) \/ key \in scope
    BY Zenon DEF Framed, LedgerKey, TokenVariants, PrivateVariants, RewardVariants
<1>3. QED
    BY <1>1, <1>2, Zenon DEF Kept, Kind, Deployed

LEMMA QueuedKept ==
    ASSUME NEW w, NEW v, NEW t, Queued(w, v, t)
    PROVE  Kept({}, w, v)
<1>1. PICK u, message : Framed({}, w, u) /\ Appended(u, v, t.id, message)
    BY QueuedSame, Zenon
<1>2. v.contracts = u.contracts /\ v.height = u.height /\ v.storage = u.storage
    BY <1>1, Zenon DEF Appended
<1>3. QED
    BY <1>1, <1>2, FramedKept DEF Kept, Kind, Deployed, Same, Keeps

LEMMA LaunchedKept ==
    ASSUME NEW w, NEW v, NEW c, Launched(w, v, c)
    PROVE  Kept({}, w, v)
<1>1. PICK u : Added(w, u, c) /\ Kind(u, c).name # "Staking" /\ Framed({}, u, v)
    BY Zenon DEF Launched
<1>2. v.contracts = u.contracts /\ v.height = u.height /\ Keeps(u, v)
    BY <1>1, Zenon DEF Framed, SameElse
<1>3. /\ c \notin DOMAIN w.contracts /\ DOMAIN u.contracts = DOMAIN w.contracts \cup {c}
      /\ \A d \in DOMAIN w.contracts : u.contracts[d] = w.contracts[d]
      /\ u.height = w.height /\ Keeps(w, u) /\ \A key : Same(w, u, key) \/ key[2] = c
    BY <1>1, Zenon DEF Added
<1>4. \A key : key[1] \in PrivateVariants => Same(u, v, key)
    BY <1>1, Zenon DEF Framed, LedgerKey, TokenVariants, PrivateVariants, RewardVariants
<1>5. \A key : key[1] \in PrivateVariants /\ key[2] \in DOMAIN w.contracts => Same(w, v, key)
    BY <1>3, <1>4, Zenon DEF Same
<1>6. Deployed(v, "Staking") = Deployed(w, "Staking")
    BY <1>1, <1>2, <1>3, Zenon DEF Deployed, Kind
<1>7. QED
    BY <1>2, <1>3, <1>5, <1>6, Zenon DEF Kept, Kind, Keeps

LEMMA AdministeredKept ==
    ASSUME NEW w, NEW v, Administered(w, v)
    PROVE  Kept({}, w, v)
    BY Zenon DEF Administered, Kept, Keeps, Same, Deployed, Kind

(* Which private books are in the scope of a call.                         *)
StakeMethods == {"Stake", "Unstake", "RequestUnstake"}

LEMMA ScopeVariants ==
    ASSUME NEW w, NEW t
    PROVE  /\ t.method \notin StakeMethods \cup {"ClaimStakingRewards"} =>
                 \A key \in Scope(w, t) : key[1] \notin RewardVariants
           /\ t.method \in StakeMethods \cup {"ClaimStakingRewards"} =>
                 \A key \in Scope(w, t) : key[1] \in RewardVariants => key[3] = t.sender
           /\ t.method # "RedeemBridgeMessage" =>
                 \A key \in Scope(w, t) : key[1] # "BridgeMessageConsumed"
           /\ t.method = "RedeemBridgeMessage" => Scope(w, t) = {ConsumedKey(t.target, t.id)}
<1>1. \A key \in LiquidityScope(w, t) \cup SwapScope(w, t) \cup PriceScope(t.target, t.asset) :
          key[1] \notin RewardVariants /\ key[1] # "BridgeMessageConsumed"
    BY DEF LiquidityScope, SwapScope, PriceScope, RewardVariants
<1>2. \A p : \A key \in VaultScope(t.target, p) \cup CompletionScope(t.target, p) :
          key[1] \notin RewardVariants /\ key[1] # "BridgeMessageConsumed"
    BY DEF VaultScope, CompletionScope, RewardVariants
<1>3. \A key \in AccrualScope(t.target, t.sender) \cup StakingScope(t.target, t.sender) :
          key[1] # "BridgeMessageConsumed" /\ (key[1] \in RewardVariants => key[3] = t.sender)
    BY DEF AccrualScope, StakingScope, StakeScope, RewardVariants
<1>4. \A id : ConsumedKey(t.target, id)[1] = "BridgeMessageConsumed"
    BY Zenon DEF ConsumedKey
<1>5. t.method \notin StakeMethods \cup {"ClaimStakingRewards"} =>
          \A key \in Scope(w, t) : key[1] \notin RewardVariants
    BY <1>1, <1>2, <1>4, Zenon DEF Scope, StakeMethods, RewardVariants
<1>6. t.method \in StakeMethods \cup {"ClaimStakingRewards"} =>
          \A key \in Scope(w, t) : key[1] \in RewardVariants => key[3] = t.sender
    BY <1>3, Zenon DEF Scope, StakeMethods
<1>7. t.method # "RedeemBridgeMessage" => \A key \in Scope(w, t) : key[1] # "BridgeMessageConsumed"
    BY <1>1, <1>2, <1>3, Zenon DEF Scope
<1>8. t.method = "RedeemBridgeMessage" => Scope(w, t) = {ConsumedKey(t.target, t.id)}
    BY Zenon DEF Scope
<1>9. QED
    BY <1>5, <1>6, <1>7, <1>8, Zenon

(* The action PoolProductNeverFalls asks of every step.                    *)
PoolsKeep(w, v) == \A c \in Deployed(w, "AmmPool") : PoolProduct(v, c) >= PoolProduct(w, c)

LEMMA PoolSame ==
    ASSUME NEW w, StateInv(w), NEW v, NEW scope, Kept(scope, w, v), NEW c \in DOMAIN w.contracts,
           \A key \in scope : key[2] # c
    PROVE  PoolProduct(v, c) >= PoolProduct(w, c)
<1>1. Kind(v, c) = Kind(w, c)
    BY Zenon DEF Kept
<1>2. \A asset : Reserve(v, c, asset) = Reserve(w, c, asset)
  <2> TAKE asset
  <2> DEFINE key == <<"Reserve", c, asset>>
  <2>1. key[1] = "Reserve" /\ key[2] = c
    BY Zenon
  <2> HIDE DEF key
  <2>2. Same(w, v, key)
    BY <2>1, Zenon DEF Kept, PrivateVariants
  <2>3. QED
    BY <2>2, SameUint, Zenon DEF Reserve, key
<1>3. PoolProduct(v, c) = PoolProduct(w, c)
    BY <1>1, <1>2, Zenon DEF PoolProduct
<1>4. PoolProduct(w, c) \in Nat
    BY WellFormedSized, ReservesNat DEF StateInv, Sized, PoolProduct
<1>5. QED
    BY <1>3, <1>4

LEMMA NothingPrivate ==
    ASSUME NEW w, StateInv(w), NEW v, Kept({}, w, v)
    PROVE  PoolsKeep(w, v) /\ \A scope : Kept(scope, w, v)
<1>1. PoolsKeep(w, v)
    BY PoolSame DEF PoolsKeep, Deployed
<1>2. QED
    BY <1>1, Zenon DEF Kept

LEMMA CallKept ==
    ASSUME NEW w, StateInv(w), NEW t \in Transactions, Callable(w, t), Dispatch(w, t).ok
    PROVE  LET v == Dispatch(w, t).w IN Kept(Scope(w, t), w, v) /\ PoolsKeep(w, v)
<1> DEFINE v == Dispatch(w, t).w
<1> HIDE DEF v
<1>1. CASE t.method \in FramedMethods
  <2>1. FramedCall(w, t)
    BY <1>1, FramedCalls, Zenon
  <2>2. Framed(Scope(w, t), w, v)
    BY <2>1, SuccessFramed, Zenon DEF FramedCall, v
  <2>3. Kept(Scope(w, t), w, v)
    BY <2>2, FramedKept, Zenon
  <2>4. PoolsKeep(w, v)
    <3> SUFFICES ASSUME NEW c \in Deployed(w, "AmmPool")
                 PROVE  PoolProduct(v, c) >= PoolProduct(w, c)
      BY Zenon DEF PoolsKeep
    <3>1. c \in DOMAIN w.contracts /\ Kind(w, c).name = "AmmPool"
      BY Zenon DEF Deployed, Kind
    <3>2. CASE c = t.target
      BY <2>1, <3>1, <3>2, Zenon DEF FramedCall, v
    <3>3. CASE c # t.target
      BY <2>3, <3>1, <3>3, ScopeOwned, PoolSame, Zenon
    <3>4. QED
      BY <3>2, <3>3, Zenon
  <2>5. QED
    BY <2>3, <2>4, Zenon DEF v
<1>2. CASE t.method \notin FramedMethods
  <2>1. CASE t.method = "QueueBridgeMessage"
    BY <2>1, QueueCall, QueuedKept, NothingPrivate, Zenon DEF v
  <2>2. CASE t.method \in LaunchMethods
    BY <2>2, LaunchCall, LaunchedKept, NothingPrivate, Zenon DEF v
  <2>3. CASE t.method \in AdminMethods
    BY <2>3, AdminCall, AdministeredKept, NothingPrivate, Zenon DEF AdminCalled, v
  <2>4. QED
    BY <1>2, <2>1, <2>2, <2>3, MethodsCovered, Zenon
<1>3. QED
    BY <1>1, <1>2, Zenon


-----------------------------------------------------------------------------
(* The invariant: what is kept of the state, with what history remembers   *)
(* of it.                                                                  *)

(* What has been paid is marked: a second payment is ruled out by the mark.*)
Marked(w, h) ==
    \A key \in DOMAIN h.redeemed :
        \E c, id : /\ key = <<c, id>> /\ h.redeemed[key] = 1
                  /\ UintAt(w, ConsumedKey(c, id)) # 0

(* A scheduled change was remembered when it was scheduled, and waits for  *)
(* the delay of its governance contract from then.                         *)
Timelocked(w, h, method, schedule) ==
    \A id \in DOMAIN schedule :
        LET change == schedule[id]
        IN  /\ change.governance \in Deployed(w, "Governance")
            /\ <<method, id>> \in DOMAIN h.scheduled
            /\ change.execute_after_height =
                  h.scheduled[<<method, id>>] + Kind(w, change.governance).timelock_delay

(* Every staker, also one that has left, has earned what it was paid and   *)
(* is owed, up to this block.                                              *)
StakesStored(w) ==
    {<<key[2], key[3]>> : key \in {k \in DOMAIN w.storage : k[1] = "StakeBalance"}}
Rewarded(w, h) ==
    /\ DOMAIN h.earned \subseteq StakesStored(w)
    /\ \A c \in Deployed(w, "Staking") : \A p :
          /\ At(h.claimed, <<c, p>>) \in Nat
          /\ At(h.earned, <<c, p>>) = At(h.claimed, <<c, p>>) + Due(w, c, p)
          /\ LastRewardHeight(w, c, p) <= w.height

Remembered(w, h) ==
    /\ DOMAIN h = DOMAIN NoHistory
    /\ Marked(w, h) /\ Rewarded(w, h)
    /\ Timelocked(w, h, "ScheduleUpgrade", w.scheduled_upgrades)
    /\ Timelocked(w, h, "SchedulePolicyUpdate", w.scheduled_policy_updates)

IInv == StateInv(state) /\ Remembered(state, history)

(* What history remembers of a call.                                       *)
Recalls(h, w, v, t, g) ==
    /\ DOMAIN g = DOMAIN NoHistory /\ g.earned = h.earned
    /\ t.method # "RedeemBridgeMessage" => g.redeemed = h.redeemed
    /\ t.method = "RedeemBridgeMessage" => g.redeemed = Plus(h.redeemed, <<t.target, t.id>>, 1)
    /\ t.method # "ClaimStakingRewards" => g.claimed = h.claimed
    /\ t.method = "ClaimStakingRewards" =>
          g.claimed = Plus(h.claimed, <<t.target, t.sender>>,
                           Holding(v, t.asset, t.sender) - Holding(w, t.asset, t.sender))
    /\ t.method \notin {"ScheduleUpgrade", "SchedulePolicyUpdate"} => g.scheduled = h.scheduled
    /\ t.method \in {"ScheduleUpgrade", "SchedulePolicyUpdate"} =>
          g.scheduled = Over(Entry(<<t.method, t.id>>, w.height), h.scheduled)

LEMMA RememberFields ==
    ASSUME NEW h, DOMAIN h = DOMAIN NoHistory, NEW w, NEW v, NEW t
    PROVE  Recalls(h, w, v, t, Remember(h, w, v, t))
    BY Zenon DEF Remember, NoHistory, Recalls

LEMMA PlusAt ==
    ASSUME NEW f, NEW key, NEW amount \in Nat, At(f, key) \in Nat
    PROVE  /\ At(Plus(f, key, amount), key) = At(f, key) + amount
           /\ \A k : k # key => At(Plus(f, key, amount), k) = At(f, k)
    BY DEF Plus, At, Over, Entry

(* The marks.                                                              *)
LEMMA MarkedKept ==
    ASSUME NEW w, StateInv(w), NEW v, NEW h, Marked(w, h),
           NEW scope, Kept(scope, w, v), \A key \in scope : key[1] # "BridgeMessageConsumed",
           NEW g, g.redeemed = h.redeemed
    PROVE  Marked(v, g)
<1> SUFFICES ASSUME NEW key \in DOMAIN h.redeemed
             PROVE  \E c, id : /\ key = <<c, id>> /\ h.redeemed[key] = 1
                              /\ UintAt(v, ConsumedKey(c, id)) # 0
    BY DEF Marked
<1>1. PICK c, id : /\ key = <<c, id>> /\ h.redeemed[key] = 1
                   /\ UintAt(w, ConsumedKey(c, id)) # 0
    BY Zenon DEF Marked
<1> DEFINE mark == ConsumedKey(c, id)
<1>2. mark[1] = "BridgeMessageConsumed" /\ mark[2] = c
    BY Zenon DEF ConsumedKey
<1> HIDE DEF mark
<1>3. mark \in DOMAIN w.storage
    BY <1>1, Zenon DEF UintAt, mark
<1>4. mark[2] \in DOMAIN w.contracts
    BY <1>3, Zenon DEF StateInv, WellFormed, OwnerContract
<1>5. Same(w, v, mark)
    BY <1>2, <1>4, Zenon DEF Kept, PrivateVariants
<1>6. UintAt(v, mark) # 0
    BY <1>1, <1>5, SameUint, Zenon DEF mark
<1>7. QED
    BY <1>1, <1>6, Zenon DEF mark

LEMMA MarkedRedemption ==
    ASSUME NEW w, StateInv(w), NEW v, NEW h, Marked(w, h), NEW c, NEW id,
           Kept({ConsumedKey(c, id)}, w, v),
           UintAt(w, ConsumedKey(c, id)) = 0, UintAt(v, ConsumedKey(c, id)) = 1,
           NEW g, g.redeemed = Plus(h.redeemed, <<c, id>>, 1)
    PROVE  Marked(v, g)
<1> DEFINE paid == <<c, id>>
<1>1. paid \notin DOMAIN h.redeemed
  <2> SUFFICES ASSUME paid \in DOMAIN h.redeemed PROVE FALSE
    BY Zenon
  <2>1. PICK d, i : paid = <<d, i>> /\ UintAt(w, ConsumedKey(d, i)) # 0
    BY Zenon DEF Marked
  <2>2. d = c /\ i = id
    BY <2>1, Zenon
  <2>3. QED
    BY <2>1, <2>2, Zenon
<1>2. g.redeemed = Over(Entry(paid, 1), h.redeemed)
    BY <1>1 DEF Plus, At
<1>3. /\ DOMAIN g.redeemed = DOMAIN h.redeemed \cup {paid} /\ g.redeemed[paid] = 1
      /\ \A k \in DOMAIN h.redeemed : k # paid => g.redeemed[k] = h.redeemed[k]
    BY <1>2, Zenon DEF Over, Entry
<1> SUFFICES ASSUME NEW key \in DOMAIN g.redeemed
             PROVE  \E d, i : /\ key = <<d, i>> /\ g.redeemed[key] = 1
                             /\ UintAt(v, ConsumedKey(d, i)) # 0
    BY Zenon DEF Marked
<1>4. CASE key = paid
    BY <1>3, <1>4
<1>5. CASE key # paid
  <2>1. key \in DOMAIN h.redeemed /\ g.redeemed[key] = h.redeemed[key]
    BY <1>3, <1>5, Zenon
  <2>2. PICK d, i : /\ key = <<d, i>> /\ h.redeemed[key] = 1
                    /\ UintAt(w, ConsumedKey(d, i)) # 0
    BY <2>1, Zenon DEF Marked
  <2> DEFINE mark == ConsumedKey(d, i)
  <2>3. mark[1] = "BridgeMessageConsumed" /\ mark[2] = d /\ mark # ConsumedKey(c, id)
    BY <1>5, <2>2, Zenon DEF ConsumedKey
  <2> HIDE DEF mark
  <2>4. mark \in DOMAIN w.storage
    BY <2>2, Zenon DEF UintAt, mark
  <2>5. mark[2] \in DOMAIN w.contracts
    BY <2>4, Zenon DEF StateInv, WellFormed, OwnerContract
  <2>6. Same(w, v, mark)
    BY <2>3, <2>5, Zenon DEF Kept, PrivateVariants
  <2>7. UintAt(v, mark) # 0
    BY <2>2, <2>6, SameUint, Zenon DEF mark
  <2>8. QED
    BY <2>1, <2>2, <2>7, Zenon DEF mark
<1>6. QED
    BY <1>4, <1>5, Zenon

(* The rewards.                                                            *)
LEMMA DueKept ==
    ASSUME NEW w, NEW v, NEW scope, Kept(scope, w, v), NEW c \in DOMAIN w.contracts, NEW p,
           \A key \in scope : key[1] \in RewardVariants => key[2] # c \/ key[3] # p
    PROVE  Due(v, c, p) = Due(w, c, p) /\ LastRewardHeight(v, c, p) = LastRewardHeight(w, c, p)
<1>1. \A variant \in RewardVariants : Same(w, v, <<variant, c, p>>)
  <2> TAKE variant \in RewardVariants
  <2> DEFINE key == <<variant, c, p>>
  <2>1. key[1] = variant /\ key[2] = c /\ key[3] = p
    BY Zenon
  <2> HIDE DEF key
  <2>2. key \notin scope
    BY <2>1, Zenon
  <2>3. Same(w, v, key)
    BY <2>1, <2>2, Zenon DEF Kept, PrivateVariants
  <2>4. QED
    BY <2>3, Zenon DEF key
<1>2. v.height = w.height /\ Kind(v, c) = Kind(w, c)
    BY Zenon DEF Kept
<1>3. QED
    BY <1>1, <1>2, DueSame, SMTT(20) DEF RewardVariants

LEMMA StakesKept ==
    ASSUME NEW w, NEW v, Keeps(w, v)
    PROVE  StakesStored(w) \subseteq StakesStored(v)
    BY Zenon DEF Keeps, StakesStored

LEMMA RewardedKept ==
    ASSUME NEW w, NEW v, NEW h, Rewarded(w, h), NEW scope, Kept(scope, w, v),
           \A key \in scope : key[1] \notin RewardVariants,
           NEW g, g.earned = h.earned, g.claimed = h.claimed
    PROVE  Rewarded(v, g)
<1>1. DOMAIN g.earned \subseteq StakesStored(v)
    BY StakesKept, Zenon DEF Rewarded, Kept
<1>2. ASSUME NEW c \in Deployed(v, "Staking"), NEW p
      PROVE  /\ At(g.claimed, <<c, p>>) \in Nat
             /\ At(g.earned, <<c, p>>) = At(g.claimed, <<c, p>>) + Due(v, c, p)
             /\ LastRewardHeight(v, c, p) <= v.height
  <2>1. c \in Deployed(w, "Staking") /\ c \in DOMAIN w.contracts /\ v.height = w.height
    BY Zenon DEF Kept, Deployed
  <2>2. Due(v, c, p) = Due(w, c, p) /\ LastRewardHeight(v, c, p) = LastRewardHeight(w, c, p)
    BY <2>1, DueKept
  <2>3. QED
    BY <2>1, <2>2, Zenon DEF Rewarded
<1>3. QED
    BY <1>1, <1>2, Zenon DEF Rewarded

(* What one staker is paid, it is owed no longer.                          *)
LEMMA RewardedPaid ==
    ASSUME NEW w, NEW v, NEW h, Rewarded(w, h), NEW scope, Kept(scope, w, v), NEW d, NEW q,
           \A key \in scope : key[1] \in RewardVariants => key[2] = d /\ key[3] = q,
           NEW g, g.earned = h.earned,
           \A key : key # <<d, q>> => At(g.claimed, key) = At(h.claimed, key),
           d \in Deployed(w, "Staking") =>
              /\ At(g.claimed, <<d, q>>) \in Nat
              /\ At(g.claimed, <<d, q>>) + Due(v, d, q) = At(h.claimed, <<d, q>>) + Due(w, d, q)
              /\ LastRewardHeight(v, d, q) <= v.height
    PROVE  Rewarded(v, g)
<1>1. DOMAIN g.earned \subseteq StakesStored(v)
    BY StakesKept, Zenon DEF Rewarded, Kept
<1>2. ASSUME NEW c \in Deployed(v, "Staking"), NEW p
      PROVE  /\ At(g.claimed, <<c, p>>) \in Nat
             /\ At(g.earned, <<c, p>>) = At(g.claimed, <<c, p>>) + Due(v, c, p)
             /\ LastRewardHeight(v, c, p) <= v.height
  <2>1. c \in Deployed(w, "Staking") /\ c \in DOMAIN w.contracts /\ v.height = w.height
    BY Zenon DEF Kept, Deployed
  <2>2. CASE c = d /\ p = q
    BY <2>1, <2>2, Zenon DEF Rewarded
  <2>3. CASE c # d \/ p # q
    <3>1. At(g.claimed, <<c, p>>) = At(h.claimed, <<c, p>>)
      BY <2>3, Zenon
    <3>2. Due(v, c, p) = Due(w, c, p) /\ LastRewardHeight(v, c, p) = LastRewardHeight(w, c, p)
      BY <2>1, <2>3, DueKept, SMTT(20)
    <3>3. QED
      BY <2>1, <3>1, <3>2, Zenon DEF Rewarded
  <2>4. QED
    BY <2>2, <2>3, Zenon
<1>3. QED
    BY <1>1, <1>2, Zenon DEF Rewarded

(* A block more.                                                           *)
LEMMA StakeUnstored ==
    ASSUME NEW w, NEW c, NEW p, <<c, p>> \notin StakesStored(w)
    PROVE  StakeBalance(w, c, p) = 0
<1> DEFINE key == <<"StakeBalance", c, p>>
<1>1. key[1] = "StakeBalance" /\ key[2] = c /\ key[3] = p
    BY Zenon
<1> HIDE DEF key
<1>2. key \notin DOMAIN w.storage
    BY <1>1, Zenon DEF StakesStored
<1>3. QED
    BY <1>2, Zenon DEF StakeBalance, UintAt, key

LEMMA AccruedNext ==
    ASSUME NEW stake \in Nat, NEW rate \in Nat, NEW height \in Nat, NEW last \in Nat, last <= height
    PROVE  stake * rate * SaturatingSub(height + 1, last)
               = stake * rate * SaturatingSub(height, last) + stake * rate
<1>1. /\ SaturatingSub(height, last) = height - last
      /\ SaturatingSub(height + 1, last) = (height - last) + 1
    BY DEF SaturatingSub
<1>2. stake * rate \in Nat /\ height - last \in Nat
    OBVIOUS
<1>3. \A a, b \in Nat : a * (b + 1) = a * b + a
    OBVIOUS
<1>4. QED
    BY <1>1, <1>2, <1>3, Zenon

LEMMA DueNext ==
    ASSUME NEW w, NEW v, StateInv(w), Changes(w, v, {"height"}), v.height = w.height + 1,
           NEW c \in Deployed(w, "Staking"), NEW p, LastRewardHeight(w, c, p) <= w.height
    PROVE  /\ Due(v, c, p) = Due(w, c, p) + StakeBalance(w, c, p) * Kind(w, c).reward_per_block
           /\ LastRewardHeight(v, c, p) <= v.height
           /\ Due(w, c, p) \in Nat /\ Kind(w, c).reward_per_block \in Nat
           /\ StakeBalance(w, c, p) \in Nat
<1> DEFINE stake == StakeBalance(w, c, p)
           rate == Kind(w, c).reward_per_block
           last == LastRewardHeight(w, c, p)
           booked == StakingRewardBalance(w, c, p)
<1>1. v.storage = w.storage /\ v.contracts = w.contracts
    BY Zenon DEF Changes, Fields
<1>2. /\ StakeBalance(v, c, p) = stake /\ Kind(v, c).reward_per_block = rate
      /\ LastRewardHeight(v, c, p) = last /\ StakingRewardBalance(v, c, p) = booked
    BY <1>1, Zenon DEF StakeBalance, Kind, LastRewardHeight, StakingRewardBalance, UintAt
<1>3. Typed(w) /\ w.height \in Nat
    BY WellFormedSized, Zenon DEF StateInv, Sized
<1>4. rate \in Nat
    BY Zenon DEF StateInv, WellFormed, WellFormedContract, WellTyped, Deployed, Kind
<1>5. stake \in Nat /\ last \in Nat /\ booked \in Nat
    BY <1>3, UintNat, Zenon DEF StakeBalance, LastRewardHeight, StakingRewardBalance
<1>6. /\ Accrued(w, c, p) = stake * rate * SaturatingSub(w.height, last)
      /\ Accrued(v, c, p) = stake * rate * SaturatingSub(w.height + 1, last)
    BY <1>2, Zenon DEF Accrued, LastRewardHeight
<1>7. Accrued(w, c, p) \in Nat /\ Due(w, c, p) \in Nat
    BY <1>3, <1>4, DueNat, Zenon
<1>8. Due(w, c, p) = booked + Accrued(w, c, p) /\ Due(v, c, p) = booked + Accrued(v, c, p)
    BY <1>2, Zenon DEF Due
<1>9. last <= w.height
    BY Zenon
<1> HIDE DEF stake, rate, last, booked
<1>10. Accrued(v, c, p) = Accrued(w, c, p) + stake * rate
    BY <1>3, <1>4, <1>5, <1>6, <1>9, AccruedNext
<1>11. stake * rate \in Nat
    BY <1>4, <1>5
<1>12. Due(v, c, p) = Due(w, c, p) + stake * rate
    BY <1>5, <1>7, <1>8, <1>10, <1>11
<1>13. last <= w.height + 1
    BY <1>3, <1>5, <1>9, SMTT(20)
<1>14. QED
    BY <1>2, <1>4, <1>5, <1>7, <1>12, <1>13, Zenon DEF stake, rate, last

(* What StartBlock remembers of the stakes.                                *)
EarnedNext(w, earned) ==
    [k \in StakesStored(w) |->
        At(earned, k) + StakeBalance(w, k[1], k[2]) * Kind(w, k[1]).reward_per_block]

LEMMA RewardedBlock ==
    ASSUME NEW w, NEW v, StateInv(w), Changes(w, v, {"height"}), v.height = w.height + 1,
           NEW h, Rewarded(w, h), NEW g, g.claimed = h.claimed, g.earned = EarnedNext(w, h.earned)
    PROVE  Rewarded(v, g)
<1>1. v.storage = w.storage /\ v.contracts = w.contracts
    BY Zenon DEF Changes, Fields
<1>2. DOMAIN g.earned = StakesStored(w) /\ StakesStored(v) = StakesStored(w)
    BY <1>1, Zenon DEF EarnedNext, StakesStored
<1>3. ASSUME NEW c \in Deployed(v, "Staking"), NEW p
      PROVE  /\ At(g.claimed, <<c, p>>) \in Nat
             /\ At(g.earned, <<c, p>>) = At(g.claimed, <<c, p>>) + Due(v, c, p)
             /\ LastRewardHeight(v, c, p) <= v.height
  <2> DEFINE key == <<c, p>>
             gain == StakeBalance(w, c, p) * Kind(w, c).reward_per_block
  <2>1. c \in Deployed(w, "Staking")
    BY <1>1, Zenon DEF Deployed
  <2>2. /\ At(h.claimed, key) \in Nat /\ At(h.earned, key) = At(h.claimed, key) + Due(w, c, p)
        /\ LastRewardHeight(w, c, p) <= w.height
    BY <2>1, Zenon DEF Rewarded
  <2>3. /\ Due(v, c, p) = Due(w, c, p) + gain /\ LastRewardHeight(v, c, p) <= v.height
        /\ Due(w, c, p) \in Nat /\ gain \in Nat
    BY <2>1, <2>2, DueNext, SMTT(20)
  <2>4. At(g.earned, key) = At(h.earned, key) + gain
    <3>1. CASE key \in StakesStored(w)
      <4>1. key[1] = c /\ key[2] = p
        BY Zenon
      <4>2. g.earned[key] = At(h.earned, key) + StakeBalance(w, key[1], key[2])
                                                    * Kind(w, key[1]).reward_per_block
        BY <3>1, Zenon DEF EarnedNext
      <4>3. QED
        BY <1>2, <3>1, <4>1, <4>2, Zenon DEF At
    <3>2. CASE key \notin StakesStored(w)
      <4>1. key \notin DOMAIN h.earned /\ key \notin DOMAIN g.earned
        BY <1>2, <3>2, Zenon DEF Rewarded
      <4>2. StakeBalance(w, c, p) = 0 /\ Kind(w, c).reward_per_block \in Nat
        BY <2>1, <2>2, <3>2, StakeUnstored, DueNext, Zenon
      <4>3. gain = 0
        BY <4>2
      <4>4. QED
        BY <4>1, <4>3 DEF At
    <3>3. QED
      BY <3>1, <3>2, Zenon
  <2> HIDE DEF key, gain
  <2>5. At(g.earned, key) = At(h.claimed, key) + Due(v, c, p)
    BY <2>2, <2>3, <2>4
  <2>6. QED
    BY <2>2, <2>3, <2>5, Zenon DEF key
<1>4. QED
    BY <1>2, <1>3, Zenon DEF Rewarded

LEMMA RewardedCommit ==
    ASSUME NEW w, StateInv(w), NEW t \in Transactions, Callable(w, t), Dispatch(w, t).ok,
           NEW h, Rewarded(w, h), NEW g, Recalls(h, w, Dispatch(w, t).w, t, g)
    PROVE  Rewarded(Dispatch(w, t).w, g)
<1> DEFINE v == Dispatch(w, t).w
           c == t.target
           p == t.sender
           scope == Scope(w, t)
<1>1. Kept(scope, w, v)
    BY CallKept, Zenon
<1>2. StateInv(v)
    BY CallState, Zenon DEF ExecuteCall, Require
<1>3. /\ g.earned = h.earned
      /\ t.method # "ClaimStakingRewards" => g.claimed = h.claimed
      /\ t.method = "ClaimStakingRewards" =>
            g.claimed = Plus(h.claimed, <<c, p>>, Holding(v, t.asset, p) - Holding(w, t.asset, p))
    BY Zenon DEF Recalls
<1> HIDE DEF v, scope
<1>4. CASE t.method \notin StakeMethods \cup {"ClaimStakingRewards"}
  <2>1. \A key \in scope : key[1] \notin RewardVariants
    BY <1>4, ScopeVariants, Zenon DEF scope
  <2>2. g.claimed = h.claimed
    BY <1>3, <1>4, Zenon
  <2>3. Rewarded(v, g)
    BY <1>1, <1>3, <2>1, <2>2, RewardedKept, Zenon
  <2>4. QED
    BY <2>3, Zenon DEF v
<1>5. ASSUME t.method \in StakeMethods \cup {"ClaimStakingRewards"}
      PROVE  \A key \in scope : key[1] \in RewardVariants => key[2] = c /\ key[3] = p
    BY <1>5, ScopeVariants, ScopeOwned DEF scope
<1>6. w.height \in Nat /\ v.height = w.height
    BY <1>1, Zenon DEF StateInv, WellFormed, Kept
<1>7. CASE t.method \in StakeMethods
  <2>1. Due(v, c, p) = Due(w, c, p) /\ LastRewardHeight(v, c, p) = v.height
    BY <1>7, StakeChangingCall, Zenon DEF StakeMethods, StakeChanged, v
  <2>2. g.claimed = h.claimed
    BY <1>3, <1>7, Zenon DEF StakeMethods
  <2>3. /\ At(g.claimed, <<c, p>>) = At(h.claimed, <<c, p>>)
        /\ \A key : key # <<c, p>> => At(g.claimed, key) = At(h.claimed, key)
    BY <2>2, Zenon
  <2>4. c \in Deployed(w, "Staking") =>
            /\ At(g.claimed, <<c, p>>) \in Nat
            /\ At(g.claimed, <<c, p>>) + Due(v, c, p) = At(h.claimed, <<c, p>>) + Due(w, c, p)
            /\ LastRewardHeight(v, c, p) <= v.height
    BY <1>6, <2>1, <2>3, SMTT(20) DEF Rewarded
  <2> HIDE DEF c, p
  <2>5. Rewarded(v, g)
    BY <1>1, <1>3, <1>5, <1>7, <2>3, <2>4, RewardedPaid, Zenon
  <2>6. QED
    BY <2>5, Zenon DEF v
<1>8. CASE t.method = "ClaimStakingRewards"
  <2>1. /\ Due(v, c, p) = 0 /\ LastRewardHeight(v, c, p) = v.height
        /\ Holding(v, t.asset, p) = Holding(w, t.asset, p) + Due(w, c, p)
    BY <1>8, ClaimCall, Zenon DEF RewardsPaid, v
  <2>2. c \in DOMAIN w.contracts /\ Kind(w, c).name = "Staking"
    BY <1>8, StandardCall, SMTT(20) DEF StateInv, StandardEffects, KindOfMethod
  <2>3. c \in Deployed(w, "Staking") /\ Kind(w, c).reward_per_block \in Nat
    BY <2>2, Zenon DEF Deployed, Kind, StateInv, WellFormed, WellFormedContract, WellTyped
  <2>4. Typed(w) /\ Typed(v)
    BY <1>2, WellFormedSized, Zenon DEF StateInv, Sized
  <2>5. Holding(w, t.asset, p) \in Nat /\ Due(w, c, p) \in Nat
    BY <1>6, <2>3, <2>4, HoldingNat, DueNat, Zenon
  <2>6. Holding(v, t.asset, p) - Holding(w, t.asset, p) = Due(w, c, p)
    BY <2>1, <2>5, SMTT(20)
  <2>7. At(h.claimed, <<c, p>>) \in Nat
    BY <2>3, Zenon DEF Rewarded
  <2>8. g.claimed = Plus(h.claimed, <<c, p>>, Due(w, c, p))
    BY <1>3, <1>8, <2>6, Zenon
  <2>9. /\ At(g.claimed, <<c, p>>) = At(h.claimed, <<c, p>>) + Due(w, c, p)
        /\ \A k : k # <<c, p>> => At(g.claimed, k) = At(h.claimed, k)
    BY <2>5, <2>7, <2>8, PlusAt, SMTT(20)
  <2>10. /\ At(g.claimed, <<c, p>>) \in Nat
         /\ At(g.claimed, <<c, p>>) + Due(v, c, p) = At(h.claimed, <<c, p>>) + Due(w, c, p)
         /\ LastRewardHeight(v, c, p) <= v.height
    BY <1>6, <2>1, <2>5, <2>7, <2>9, SMTT(20)
  <2> HIDE DEF c, p
  <2>11. Rewarded(v, g)
    BY <1>1, <1>3, <1>5, <1>8, <2>9, <2>10, RewardedPaid, Zenon
  <2>12. QED
    BY <2>11, Zenon DEF v
<1>9. QED
    BY <1>4, <1>7, <1>8, Zenon

(* The schedules.                                                          *)

(* Only the methods of governance schedule and execute, and only execution *)
(* changes the record of a contract that is there.                         *)
Administrative(w, v, method) ==
    /\ method \notin {"ScheduleUpgrade", "ExecuteUpgrade"} => v.scheduled_upgrades = w.scheduled_upgrades
    /\ method \notin {"SchedulePolicyUpdate", "ExecutePolicyUpdate"} =>
          v.scheduled_policy_updates = w.scheduled_policy_updates
    /\ method \notin {"ExecuteUpgrade", "ExecutePolicyUpdate"} =>
          \A c \in DOMAIN w.contracts : v.contracts[c] = w.contracts[c]

LEMMA CallAdministrative ==
    ASSUME NEW w, StateInv(w), NEW t \in Transactions, Callable(w, t), Dispatch(w, t).ok
    PROVE  Administrative(w, Dispatch(w, t).w, t.method)
<1> DEFINE v == Dispatch(w, t).w
<1> HIDE DEF v
<1>1. CASE t.method \in FramedMethods
  <2>1. Framed(Scope(w, t), w, v)
    BY <1>1, FramedCalls, SuccessFramed, Zenon DEF FramedCall, v
  <2>2. QED
    BY <2>1, Zenon DEF Framed, SameElse, Administrative, v
<1>2. CASE t.method = "QueueBridgeMessage"
  <2>1. PICK u, message : Framed({}, w, u) /\ Appended(u, v, t.id, message)
    BY <1>2, QueueCall, QueuedSame, Zenon DEF v
  <2>2. QED
    BY <2>1, Zenon DEF Framed, SameElse, Appended, Administrative, v
<1>3. CASE t.method \in LaunchMethods
  <2>1. PICK u : Added(w, u, t.contract) /\ Framed({}, u, v)
    BY <1>3, LaunchCall, Zenon DEF Launched, v
  <2>2. QED
    BY <2>1, Zenon DEF Framed, SameElse, Added, Administrative, v
<1>4. CASE t.method \in AdminMethods
  <2>1. Changes(w, v, AdminFields(t.method))
    BY <1>4, AdminCall, Zenon DEF AdminCalled, v
  <2>2. /\ "scheduled_upgrades" \in AdminFields(t.method) =>
              t.method \in {"ScheduleUpgrade", "ExecuteUpgrade"}
        /\ "scheduled_policy_updates" \in AdminFields(t.method) =>
              t.method \in {"SchedulePolicyUpdate", "ExecutePolicyUpdate"}
        /\ "contracts" \in AdminFields(t.method) =>
              t.method \in {"ExecuteUpgrade", "ExecutePolicyUpdate"}
    BY Zenon DEF AdminFields
  <2>3. QED
    BY <2>1, <2>2, Zenon DEF Changes, Fields, Administrative, v
<1>5. QED
    BY <1>1, <1>2, <1>3, <1>4, MethodsCovered, Zenon

LEMMA TimelockedAfter ==
    ASSUME NEW w, NEW v, NEW h, NEW g, NEW m, NEW before, NEW after, Timelocked(w, h, m, before),
           NEW scope, Kept(scope, w, v),
           \A id \in DOMAIN after :
              \/ /\ id \in DOMAIN before /\ after[id].governance = before[id].governance
                 /\ after[id].execute_after_height = before[id].execute_after_height
                 /\ <<m, id>> \in DOMAIN h.scheduled =>
                       /\ <<m, id>> \in DOMAIN g.scheduled
                       /\ g.scheduled[<<m, id>>] = h.scheduled[<<m, id>>]
              \/ /\ after[id].governance \in Deployed(w, "Governance")
                 /\ <<m, id>> \in DOMAIN g.scheduled
                 /\ after[id].execute_after_height =
                       g.scheduled[<<m, id>>] + Kind(w, after[id].governance).timelock_delay
    PROVE  Timelocked(v, g, m, after)
<1>1. \A c \in Deployed(w, "Governance") : c \in Deployed(v, "Governance") /\ Kind(v, c) = Kind(w, c)
    BY Zenon DEF Kept, Deployed, Kind
<1> SUFFICES ASSUME NEW id \in DOMAIN after
             PROVE  LET change == after[id]
                    IN  /\ change.governance \in Deployed(v, "Governance")
                        /\ <<m, id>> \in DOMAIN g.scheduled
                        /\ change.execute_after_height =
                              g.scheduled[<<m, id>>] + Kind(v, change.governance).timelock_delay
    BY Zenon DEF Timelocked
<1>2. /\ after[id].governance \in Deployed(w, "Governance")
      /\ <<m, id>> \in DOMAIN g.scheduled
      /\ after[id].execute_after_height =
            g.scheduled[<<m, id>>] + Kind(w, after[id].governance).timelock_delay
    BY Zenon DEF Timelocked
<1>3. QED
    BY <1>1, <1>2, Zenon

LEMMA TimelockedSame ==
    ASSUME NEW w, NEW v, NEW h, NEW g, NEW m, NEW before, Timelocked(w, h, m, before),
           NEW scope, Kept(scope, w, v),
           \A id \in DOMAIN before : <<m, id>> \in DOMAIN h.scheduled =>
              <<m, id>> \in DOMAIN g.scheduled /\ g.scheduled[<<m, id>>] = h.scheduled[<<m, id>>]
    PROVE  Timelocked(v, g, m, before)
    BY TimelockedAfter, Zenon

LEMMA TimelockedScheduled ==
    ASSUME NEW w, NEW v, NEW h, NEW g, NEW m, NEW before, NEW after, Timelocked(w, h, m, before),
           NEW scope, Kept(scope, w, v), NEW t, t.target \in Deployed(w, "Governance"),
           Scheduling(w, t, t.id, before, after),
           g.scheduled = Over(Entry(<<m, t.id>>, w.height), h.scheduled)
    PROVE  Timelocked(v, g, m, after)
<1>1. Extended(h.scheduled, <<m, t.id>>, w.height, g.scheduled)
    BY OverEntry, Zenon
<1>2. ASSUME NEW id \in DOMAIN before
      PROVE  /\ id \in DOMAIN before /\ after[id] = before[id]
             /\ <<m, id>> \in DOMAIN h.scheduled =>
                   <<m, id>> \in DOMAIN g.scheduled /\ g.scheduled[<<m, id>>] = h.scheduled[<<m, id>>]
  <2>1. id # t.id /\ after[id] = before[id]
    BY Zenon DEF Scheduling
  <2>2. <<m, id>> # <<m, t.id>>
    BY <2>1, Zenon
  <2>3. QED
    BY <1>1, <2>1, <2>2, Zenon DEF Extended
<1>3. /\ after[t.id].governance = t.target
      /\ <<m, t.id>> \in DOMAIN g.scheduled
      /\ after[t.id].execute_after_height =
            g.scheduled[<<m, t.id>>] + Kind(w, after[t.id].governance).timelock_delay
    BY <1>1, Zenon DEF Extended, Scheduling
<1>4. DOMAIN after = DOMAIN before \cup {t.id}
    BY Zenon DEF Scheduling
<1>5. QED
    BY <1>2, <1>3, <1>4, TimelockedAfter, SMTT(20)

LEMMA TimelockedExecuted ==
    ASSUME NEW w, NEW v, NEW h, NEW g, NEW m, NEW before, NEW after, Timelocked(w, h, m, before),
           NEW scope, Kept(scope, w, v), NEW t,
           \A id \in DOMAIN before : ChangeFields \subseteq DOMAIN before[id],
           Executing(w, t, t.id, before, after), g.scheduled = h.scheduled
    PROVE  Timelocked(v, g, m, after)
<1>1. \A id \in DOMAIN before : /\ after[id].governance = before[id].governance
                                /\ after[id].execute_after_height = before[id].execute_after_height
    BY Zenon DEF Executing, ChangeFields
<1>2. DOMAIN after = DOMAIN before
    BY Zenon DEF Executing
<1>3. QED
    BY <1>1, <1>2, TimelockedAfter, Zenon

LEMMA GovernanceCalled ==
    ASSUME NEW w, StateInv(w), NEW t, Callable(w, t),
           t.method \in {"ScheduleUpgrade", "ExecuteUpgrade", "SchedulePolicyUpdate",
                         "ExecutePolicyUpdate"}
    PROVE  /\ t.target \in DOMAIN w.contracts /\ Kind(w, t.target).name = "Governance"
           /\ t.target \in Deployed(w, "Governance")
<1>1. t.target \in DOMAIN w.contracts /\ Kind(w, t.target).name = "Governance"
    BY StandardCall DEF StateInv, StandardEffects, KindOfMethod
<1>2. QED
    BY <1>1, Zenon DEF Deployed, Kind

LEMMA UpgradesCommit ==
    ASSUME NEW w, StateInv(w), NEW t \in Transactions, Callable(w, t), Dispatch(w, t).ok,
           NEW h, Timelocked(w, h, "ScheduleUpgrade", w.scheduled_upgrades),
           NEW g, Recalls(h, w, Dispatch(w, t).w, t, g)
    PROVE  LET v == Dispatch(w, t).w IN Timelocked(v, g, "ScheduleUpgrade", v.scheduled_upgrades)
<1> DEFINE v == Dispatch(w, t).w
           m == "ScheduleUpgrade"
           scope == Scope(w, t)
<1>1. Kept(scope, w, v) /\ Administrative(w, v, t.method)
    BY CallKept, CallAdministrative, Zenon
<1>2. CASE t.method = "ScheduleUpgrade"
  <2>1. Dispatch(w, t) = ScheduleUpgrade(w, t)
    BY <1>2, Zenon DEF Dispatch
  <2>2. Scheduling(w, t, t.id, w.scheduled_upgrades, v.scheduled_upgrades)
    BY <1>2, <2>1, GovernanceCalled, ScheduleUpgradeOutcome, Zenon
  <2>3. g.scheduled = Over(Entry(<<m, t.id>>, w.height), h.scheduled)
    BY <1>2, Zenon DEF Recalls
  <2> HIDE DEF v, m, scope
  <2>4. Timelocked(v, g, m, v.scheduled_upgrades)
    BY <1>1, <1>2, <2>2, <2>3, GovernanceCalled, TimelockedScheduled, Zenon DEF m
  <2>5. QED
    BY <2>4, Zenon DEF v, m
<1>3. CASE t.method = "ExecuteUpgrade"
  <2>1. Dispatch(w, t) = ExecuteUpgrade(w, t)
    BY <1>3, Zenon DEF Dispatch
  <2>2. Executing(w, t, t.id, w.scheduled_upgrades, v.scheduled_upgrades)
    BY <1>3, <2>1, ExecuteUpgradeOutcome, Zenon
  <2>3. g.scheduled = h.scheduled
    BY <1>3, Zenon DEF Recalls
  <2>4. \A id \in DOMAIN w.scheduled_upgrades : ChangeFields \subseteq DOMAIN w.scheduled_upgrades[id]
    BY StateSchedules, Zenon DEF CleanSchedules
  <2> HIDE DEF v, m, scope
  <2>5. Timelocked(v, g, m, v.scheduled_upgrades)
    BY <1>1, <2>2, <2>3, <2>4, TimelockedExecuted, Zenon DEF m
  <2>6. QED
    BY <2>5, Zenon DEF v, m
<1>4. CASE t.method \notin {"ScheduleUpgrade", "ExecuteUpgrade"}
  <2>1. v.scheduled_upgrades = w.scheduled_upgrades
    BY <1>1, <1>4, Zenon DEF Administrative
  <2>2. ASSUME NEW id, <<m, id>> \in DOMAIN h.scheduled
        PROVE  <<m, id>> \in DOMAIN g.scheduled /\ g.scheduled[<<m, id>>] = h.scheduled[<<m, id>>]
    <3>1. CASE t.method = "SchedulePolicyUpdate"
      <4> DEFINE key == <<"SchedulePolicyUpdate", t.id>>
      <4>1. g.scheduled = Over(Entry(key, w.height), h.scheduled)
        BY <3>1, Zenon DEF Recalls
      <4>2. key # <<m, id>>
        BY Zenon
      <4> HIDE DEF key
      <4>3. Extended(h.scheduled, key, w.height, g.scheduled)
        BY <4>1, OverEntry, Zenon
      <4>4. QED
        BY <2>2, <4>2, <4>3, Zenon DEF Extended
    <3>2. CASE t.method # "SchedulePolicyUpdate"
      BY <1>4, <2>2, <3>2, Zenon DEF Recalls
    <3>3. QED
      BY <3>1, <3>2, Zenon
  <2> HIDE DEF v, m, scope
  <2>3. Timelocked(v, g, m, w.scheduled_upgrades)
    BY <1>1, <2>2, TimelockedSame, Zenon DEF m
  <2>4. QED
    BY <2>1, <2>3, Zenon DEF v, m
<1>5. QED
    BY <1>2, <1>3, <1>4, Zenon

LEMMA UpdatesCommit ==
    ASSUME NEW w, StateInv(w), NEW t \in Transactions, Callable(w, t), Dispatch(w, t).ok,
           NEW h, Timelocked(w, h, "SchedulePolicyUpdate", w.scheduled_policy_updates),
           NEW g, Recalls(h, w, Dispatch(w, t).w, t, g)
    PROVE  LET v == Dispatch(w, t).w
           IN  Timelocked(v, g, "SchedulePolicyUpdate", v.scheduled_policy_updates)
<1> DEFINE v == Dispatch(w, t).w
           m == "SchedulePolicyUpdate"
           scope == Scope(w, t)
<1>1. Kept(scope, w, v) /\ Administrative(w, v, t.method)
    BY CallKept, CallAdministrative, Zenon
<1>2. CASE t.method = "SchedulePolicyUpdate"
  <2>1. Dispatch(w, t) = SchedulePolicyUpdate(w, t)
    BY <1>2, Zenon DEF Dispatch
  <2>2. Scheduling(w, t, t.id, w.scheduled_policy_updates, v.scheduled_policy_updates)
    BY <1>2, <2>1, GovernanceCalled, SchedulePolicyUpdateOutcome, Zenon
  <2>3. g.scheduled = Over(Entry(<<m, t.id>>, w.height), h.scheduled)
    BY <1>2, Zenon DEF Recalls
  <2> HIDE DEF v, m, scope
  <2>4. Timelocked(v, g, m, v.scheduled_policy_updates)
    BY <1>1, <1>2, <2>2, <2>3, GovernanceCalled, TimelockedScheduled, Zenon DEF m
  <2>5. QED
    BY <2>4, Zenon DEF v, m
<1>3. CASE t.method = "ExecutePolicyUpdate"
  <2>1. Dispatch(w, t) = ExecutePolicyUpdate(w, t)
    BY <1>3, Zenon DEF Dispatch
  <2>2. Executing(w, t, t.id, w.scheduled_policy_updates, v.scheduled_policy_updates)
    BY <1>3, <2>1, ExecutePolicyUpdateOutcome, Zenon
  <2>3. g.scheduled = h.scheduled
    BY <1>3, Zenon DEF Recalls
  <2>4. \A id \in DOMAIN w.scheduled_policy_updates :
            ChangeFields \subseteq DOMAIN w.scheduled_policy_updates[id]
    BY StateSchedules, Zenon DEF CleanSchedules
  <2> HIDE DEF v, m, scope
  <2>5. Timelocked(v, g, m, v.scheduled_policy_updates)
    BY <1>1, <2>2, <2>3, <2>4, TimelockedExecuted, Zenon DEF m
  <2>6. QED
    BY <2>5, Zenon DEF v, m
<1>4. CASE t.method \notin {"SchedulePolicyUpdate", "ExecutePolicyUpdate"}
  <2>1. v.scheduled_policy_updates = w.scheduled_policy_updates
    BY <1>1, <1>4, Zenon DEF Administrative
  <2>2. ASSUME NEW id, <<m, id>> \in DOMAIN h.scheduled
        PROVE  <<m, id>> \in DOMAIN g.scheduled /\ g.scheduled[<<m, id>>] = h.scheduled[<<m, id>>]
    <3>1. CASE t.method = "ScheduleUpgrade"
      <4> DEFINE key == <<"ScheduleUpgrade", t.id>>
      <4>1. g.scheduled = Over(Entry(key, w.height), h.scheduled)
        BY <3>1, Zenon DEF Recalls
      <4>2. key # <<m, id>>
        BY Zenon
      <4> HIDE DEF key
      <4>3. Extended(h.scheduled, key, w.height, g.scheduled)
        BY <4>1, OverEntry, Zenon
      <4>4. QED
        BY <2>2, <4>2, <4>3, Zenon DEF Extended
    <3>2. CASE t.method # "ScheduleUpgrade"
      BY <1>4, <2>2, <3>2, Zenon DEF Recalls
    <3>3. QED
      BY <3>1, <3>2, Zenon
  <2> HIDE DEF v, m, scope
  <2>3. Timelocked(v, g, m, w.scheduled_policy_updates)
    BY <1>1, <2>2, TimelockedSame, Zenon DEF m
  <2>4. QED
    BY <2>1, <2>3, Zenon DEF v, m
<1>5. QED
    BY <1>2, <1>3, <1>4, Zenon

=============================================================================
