-------------------------- MODULE Contracts_proofs --------------------------
(***************************************************************************)
(* What the composed contract families keep, for every set of transactions *)
(* and every genesis: the manifests stay true, rewards match stake time,   *)
(* timelocks and declared effects are respected, a bridge pays a message   *)
(* once, and the product of a pool's reserves never falls.                 *)
(***************************************************************************)
EXTENDS Contracts, ContractHistory_proofs

-----------------------------------------------------------------------------
(* The steps.                                                              *)

LEMMA InitInvariant ==
    ASSUME Init
    PROVE  IInv
<1>1. StateInv(state)
    BY GenesisInv, Zenon DEF Init
<1>2. /\ history.earned = Nothing /\ history.claimed = Nothing /\ history.redeemed = Nothing
      /\ DOMAIN history = DOMAIN NoHistory
    BY Zenon DEF Init, NoHistory
<1>3. /\ state.scheduled_upgrades = Nothing /\ state.scheduled_policy_updates = Nothing
      /\ \A key \in DOMAIN state.storage : key[1] \notin RewardVariants
    BY GenesesAssumption, Zenon DEF Init, RewardVariants
<1>4. DOMAIN Nothing = {} /\ \A key : At(Nothing, key) = 0
    BY Zenon DEF Nothing, At
<1>5. ASSUME NEW c \in Deployed(state, "Staking"), NEW p
      PROVE  Due(state, c, p) = 0 /\ LastRewardHeight(state, c, p) <= state.height
  <2>1. \A variant \in RewardVariants : UintAt(state, <<variant, c, p>>) = 0
    BY <1>3, Zenon DEF UintAt
  <2>2. /\ StakeBalance(state, c, p) = 0 /\ StakingRewardBalance(state, c, p) = 0
        /\ LastRewardHeight(state, c, p) = 0
    BY <2>1, Zenon DEF RewardVariants, StakeBalance, StakingRewardBalance, LastRewardHeight
  <2>3. Kind(state, c).reward_per_block \in Nat /\ state.height \in Nat
    BY <1>1, Zenon DEF Deployed, Kind, StateInv, WellFormed, WellFormedContract, WellTyped
  <2>4. SaturatingSub(state.height, 0) \in Nat
    BY <2>3 DEF SaturatingSub
  <2>5. Accrued(state, c, p) = 0
    BY <2>2, <2>3, <2>4 DEF Accrued, LastRewardHeight
  <2>6. QED
    BY <2>2, <2>3, <2>5 DEF Due
<1>6. Rewarded(state, history)
    BY <1>2, <1>4, <1>5 DEF Rewarded
<1>7. Marked(state, history)
    BY <1>2, <1>4, Zenon DEF Marked
<1>8. /\ Timelocked(state, history, "ScheduleUpgrade", state.scheduled_upgrades)
      /\ Timelocked(state, history, "SchedulePolicyUpdate", state.scheduled_policy_updates)
    BY <1>3, <1>4, Zenon DEF Timelocked
<1>9. QED
    BY <1>1, <1>2, <1>6, <1>7, <1>8, Zenon DEF IInv, Remembered

(* A step that changes neither private books nor schedules nor history.    *)
LEMMA Unremarkable ==
    ASSUME NEW w, StateInv(w), NEW h, Remembered(w, h), NEW v, Kept({}, w, v),
           v.scheduled_upgrades = w.scheduled_upgrades,
           v.scheduled_policy_updates = w.scheduled_policy_updates
    PROVE  Remembered(v, h)
<1>1. Marked(v, h)
    BY MarkedKept DEF Remembered
<1>2. Rewarded(v, h)
    BY RewardedKept DEF Remembered
<1>3. /\ Timelocked(v, h, "ScheduleUpgrade", w.scheduled_upgrades)
      /\ Timelocked(v, h, "SchedulePolicyUpdate", w.scheduled_policy_updates)
    BY TimelockedSame, Zenon DEF Remembered
<1>4. QED
    BY <1>1, <1>2, <1>3, Zenon DEF Remembered

LEMMA MarkedCommit ==
    ASSUME NEW w, StateInv(w), NEW t \in Transactions, Callable(w, t), Dispatch(w, t).ok,
           NEW h, Marked(w, h), NEW g, Recalls(h, w, Dispatch(w, t).w, t, g)
    PROVE  Marked(Dispatch(w, t).w, g)
<1> DEFINE v == Dispatch(w, t).w
           scope == Scope(w, t)
           mark == ConsumedKey(t.target, t.id)
<1>1. Kept(scope, w, v)
    BY CallKept, Zenon
<1>2. CASE t.method # "RedeemBridgeMessage"
  <2>1. g.redeemed = h.redeemed
    BY <1>2, Zenon DEF Recalls
  <2>2. \A key \in scope : key[1] # "BridgeMessageConsumed"
    BY <1>2, ScopeVariants, Zenon
  <2> HIDE DEF v, scope
  <2>3. Marked(v, g)
    BY <1>1, <2>1, <2>2, MarkedKept, Zenon
  <2>4. QED
    BY <2>3, Zenon DEF v
<1>3. CASE t.method = "RedeemBridgeMessage"
  <2>1. g.redeemed = Plus(h.redeemed, <<t.target, t.id>>, 1)
    BY <1>3, Zenon DEF Recalls
  <2>2. scope = {mark}
    BY <1>3, ScopeVariants, Zenon
  <2>3. Dispatch(w, t) = RedeemBridgeMessage(w, t)
    BY <1>3, Zenon DEF Dispatch
  <2>4. Sized(w) /\ t.amount \in Nat
    BY <1>3, WellFormedSized, TransactionsAssumption, Zenon DEF StateInv, AmountMethods
  <2>5. UintAt(w, mark) = 0 /\ UintAt(v, mark) = 1
    BY <2>3, <2>4, RedeemOutcome, Zenon
  <2> HIDE DEF v, scope
  <2>6. Marked(v, g)
    BY <1>1, <2>1, <2>2, <2>5, MarkedRedemption, Zenon
  <2>7. QED
    BY <2>6, Zenon DEF v
<1>4. QED
    BY <1>2, <1>3, Zenon

LEMMA CommitStep ==
    ASSUME IInv, NEW t \in Transactions, Commit(t)
    PROVE  /\ IInv' /\ PoolsKeep(state, state')
           /\ Callable(state, t) /\ Dispatch(state, t).ok /\ state' = Dispatch(state, t).w
<1>1. StateInv(state) /\ Remembered(state, history)
    BY Zenon DEF IInv
<1>2. /\ Callable(state, t) /\ Dispatch(state, t).ok /\ state' = Dispatch(state, t).w
      /\ StateInv(state')
    BY <1>1, CallState, Zenon DEF Commit
<1>3. PoolsKeep(state, state')
    BY <1>1, <1>2, CallKept, Zenon
<1>4. history' = Remember(history, state, state', t) /\ DOMAIN history = DOMAIN NoHistory
    BY <1>1, Zenon DEF Commit, Remembered
<1>5. Recalls(history, state, Dispatch(state, t).w, t, history')
    BY <1>2, <1>4, RememberFields, Zenon
<1>6. Rewarded(state', history')
    BY <1>1, <1>2, <1>5, RewardedCommit, Zenon DEF Remembered
<1>7. Marked(state', history')
    BY <1>1, <1>2, <1>5, MarkedCommit, Zenon DEF Remembered
<1>8. Timelocked(state', history', "ScheduleUpgrade", state'.scheduled_upgrades)
    BY <1>1, <1>2, <1>5, UpgradesCommit, Zenon DEF Remembered
<1>9. Timelocked(state', history', "SchedulePolicyUpdate", state'.scheduled_policy_updates)
    BY <1>1, <1>2, <1>5, UpdatesCommit, Zenon DEF Remembered
<1>10. DOMAIN history' = DOMAIN NoHistory
    BY <1>5, Zenon DEF Recalls
<1>11. Remembered(state', history')
    BY <1>6, <1>7, <1>8, <1>9, <1>10, Zenon DEF Remembered
<1>12. IInv'
    BY <1>2, <1>11, Zenon DEF IInv, StateInv, Remembered
<1>13. QED
    BY <1>2, <1>3, <1>12, Zenon

LEMMA RevertStep ==
    ASSUME IInv, NEW t \in Transactions, Revert(t)
    PROVE  IInv' /\ PoolsKeep(state, state') /\ Changes(state, state', {})
<1> DEFINE dirty == ExecuteCall(state, t).w
<1>1. StateInv(state) /\ Remembered(state, history)
    BY Zenon DEF IInv
<1>2. Restorable(state, dirty)
    BY <1>1, CallState, Zenon
<1>3. state' = RolledBack(state, dirty) /\ history' = history
    BY Zenon DEF Revert
<1> HIDE DEF dirty
<1>4. Changes(state, state', {}) /\ StateInv(state') /\ Administered(state, state')
    BY <1>1, <1>2, <1>3, RolledBackSame, Zenon
<1>5. /\ state'.scheduled_upgrades = state.scheduled_upgrades
      /\ state'.scheduled_policy_updates = state.scheduled_policy_updates
    BY <1>4, Zenon DEF Changes, Fields
<1>6. Kept({}, state, state')
    BY <1>4, AdministeredKept, Zenon
<1>7. Remembered(state', history)
    BY <1>1, <1>5, <1>6, Unremarkable, Zenon
<1>8. PoolsKeep(state, state')
    BY <1>1, <1>6, NothingPrivate, Zenon
<1>9. QED
    BY <1>3, <1>4, <1>7, <1>8, Zenon DEF IInv, StateInv, Remembered

LEMMA StutterStep ==
    ASSUME IInv, UNCHANGED vars
    PROVE  IInv' /\ PoolsKeep(state, state')
<1>1. state' = state /\ history' = history
    BY Zenon DEF vars
<1>2. StateInv(state)
    BY Zenon DEF IInv
<1>3. Kept({}, state, state)
    BY Zenon DEF Kept, Keeps, Same
<1>4. PoolsKeep(state, state')
    BY <1>1, <1>2, <1>3, NothingPrivate, Zenon
<1>5. QED
    BY <1>1, <1>4, Zenon DEF IInv, StateInv, Remembered

LEMMA StartBlockStep ==
    ASSUME IInv, StartBlock
    PROVE  IInv' /\ PoolsKeep(state, state') /\ Changes(state, state', {"height"})
<1>1. StateInv(state) /\ Remembered(state, history)
    BY Zenon DEF IInv
<1>2. DOMAIN state = Fields /\ state.height \in Nat
    BY <1>1, StateFields, Zenon DEF StateInv, WellFormed
<1>3. Changes(state, state', {"height"}) /\ state'.height = state.height + 1
    BY <1>2, StateFields, Zenon DEF StartBlock, Changes, Fields
<1>4. StateInv(state')
    BY <1>1, <1>2, <1>3, NewBlockState
<1>5. DOMAIN history = DOMAIN NoHistory
    BY <1>1, Zenon DEF Remembered
<1>6. /\ DOMAIN history' = DOMAIN NoHistory /\ history'.claimed = history.claimed
      /\ history'.redeemed = history.redeemed /\ history'.scheduled = history.scheduled
    BY <1>5, Zenon DEF StartBlock, NoHistory
<1>7. history'.earned = EarnedNext(state, history.earned)
    BY <1>5, Zenon DEF StartBlock, NoHistory, EarnedNext, StakesStored
<1>8. Rewarded(state', history')
    BY <1>1, <1>3, <1>6, <1>7, RewardedBlock, Zenon DEF Remembered
<1>9. /\ state'.storage = state.storage /\ state'.contracts = state.contracts
      /\ state'.scheduled_upgrades = state.scheduled_upgrades
      /\ state'.scheduled_policy_updates = state.scheduled_policy_updates
    BY <1>3, Zenon DEF Changes, Fields
<1>10. Marked(state', history')
    BY <1>1, <1>6, <1>9, SMTT(20) DEF Remembered, Marked, UintAt
<1>11. /\ Timelocked(state', history', "ScheduleUpgrade", state'.scheduled_upgrades)
       /\ Timelocked(state', history', "SchedulePolicyUpdate", state'.scheduled_policy_updates)
    BY <1>1, <1>6, <1>9, Zenon DEF Remembered, Timelocked, Deployed, Kind
<1>12. Remembered(state', history')
    BY <1>6, <1>8, <1>10, <1>11, Zenon DEF Remembered
<1>13. PoolsKeep(state, state')
  <2> SUFFICES ASSUME NEW c \in Deployed(state, "AmmPool")
               PROVE  PoolProduct(state', c) >= PoolProduct(state, c)
    BY Zenon DEF PoolsKeep
  <2>1. PoolProduct(state', c) = PoolProduct(state, c)
    BY <1>9, Zenon DEF PoolProduct, Reserve, UintAt, Kind
  <2>2. PoolProduct(state, c) \in Nat
    BY <1>1, WellFormedSized, ReservesNat, SMTT(20) DEF StateInv, Sized, PoolProduct
  <2>3. QED
    BY <2>1, <2>2, SMTT(20)
<1>14. QED
    BY <1>3, <1>4, <1>12, <1>13, Zenon DEF IInv, StateInv, Remembered

LEMMA NextStep ==
    ASSUME IInv, [Next]_vars
    PROVE  IInv' /\ PoolsKeep(state, state')
    BY CommitStep, RevertStep, StartBlockStep, StutterStep, Zenon DEF Next

-----------------------------------------------------------------------------
(* The theorems.                                                           *)

(* The inductive invariant holds of every behaviour, whatever is deployed  *)
(* and called.                                                             *)
THEOREM Invariant == Spec => []IInv
<1>1. Init => IInv
    BY InitInvariant, Zenon
<1>2. IInv /\ [Next]_vars => IInv'
    BY NextStep, Zenon
<1>3. QED
    BY <1>1, <1>2, PTL DEF Spec

(* redeem_bridge_message pays a message at most once, whichever proofs of  *)
(* it arrive, in whatever order, and whatever else is called in between.   *)
THEOREM BridgePaysOnce == Spec => []RedeemedOnce
<1>1. IInv => RedeemedOnce
    BY Zenon DEF IInv, Remembered, Marked, RedeemedOnce
<1>2. QED
    BY <1>1, Invariant, PTL

(* No step lets the product of a pool's reserves fall: swap and            *)
(* add_liquidity by their arithmetic, everything else because it does not  *)
(* touch a reserve, errors because they are rolled back.                   *)
THEOREM PoolsNeverLose == Spec => PoolProductNeverFalls
<1>1. IInv /\ [Next]_vars =>
          [\A c \in Deployed(state, "AmmPool") :
              PoolProduct(state', c) >= PoolProduct(state, c)]_vars
    BY NextStep, Zenon DEF PoolsKeep
<1>2. QED
    BY <1>1, Invariant, PTL DEF Spec, PoolProductNeverFalls

(* The invariants that the manifests of the contracts declare, but for the *)
(* vaults' loan limit, which a new price breaks, hold in every state, and  *)
(* lint_state finds no error in one: also those that the handler of the    *)
(* last transaction does not check, and for whatever contracts, modules    *)
(* and schedules there are.                                                *)
THEOREM ManifestsHold == Spec => []ManifestsAreTrue
<1>1. IInv => ManifestsAreTrue
    BY StateInvTrue, Zenon DEF IInv, ManifestsAreTrue
<1>2. QED
    BY <1>1, Invariant, PTL

(* accrue_staking_rewards and claim_staking_rewards pay a staker for its   *)
(* stake at every block, once: whatever the rate, the amounts and the      *)
(* order of stakes, withdrawals and claims.                                *)
THEOREM RewardsExact == Spec => []RewardsMatchStakeTime
<1>1. ASSUME IInv, NEW c \in Deployed(state, "Staking"), NEW p
      PROVE  At(history.earned, <<c, p>>) =
                 At(history.claimed, <<c, p>>) + StakingRewardBalance(state, c, p) + Accrued(state, c, p)
  <2>1. /\ At(history.claimed, <<c, p>>) \in Nat
        /\ At(history.earned, <<c, p>>) = At(history.claimed, <<c, p>>) + Due(state, c, p)
    BY <1>1, Zenon DEF IInv, Remembered, Rewarded
  <2>2. Typed(state) /\ state.height \in Nat
    BY <1>1, WellFormedSized, Zenon DEF IInv, StateInv, Sized
  <2>3. Kind(state, c).reward_per_block \in Nat
    BY <1>1, Zenon DEF IInv, StateInv, WellFormed, WellFormedContract, WellTyped, Deployed, Kind
  <2>4. Accrued(state, c, p) \in Nat /\ StakingRewardBalance(state, c, p) \in Nat
    BY <2>2, <2>3, DueNat, Zenon
  <2>5. QED
    BY <2>1, <2>4, SMTT(20) DEF Due
<1>2. IInv => RewardsMatchStakeTime
    BY <1>1, Zenon DEF RewardsMatchStakeTime
<1>3. QED
    BY <1>2, Invariant, PTL

-----------------------------------------------------------------------------
(* The timelock.                                                           *)

(* What TimelockRespected asks of a step.                                  *)
LockedContract(w, h, v, c) ==
    LET upgrades == ExecutedNow(w.scheduled_upgrades, v.scheduled_upgrades, c)
        updates == ExecutedNow(w.scheduled_policy_updates, v.scheduled_policy_updates, c)
        delay(change) == Kind(w, change.governance).timelock_delay
    IN  /\ Contract(w, c).code_hash # Contract(v, c).code_hash => upgrades # {}
        /\ Contract(w, c).method_policies # Contract(v, c).method_policies => updates # {}
        /\ \A id \in upgrades : w.height >= h.scheduled[<<"ScheduleUpgrade", id>>]
                                                + delay(w.scheduled_upgrades[id])
        /\ \A id \in upgrades : \E report \in RehearseScheduledUpgrade(w, id) :
              /\ report.ready_at_height
              /\ report.invariant_failures \subseteq Deployed(w, "LendingVault")
              /\ report.state.contracts = v.contracts
              /\ report.state.storage = v.storage
        /\ \A id \in updates : w.height >= h.scheduled[<<"SchedulePolicyUpdate", id>>]
                                               + delay(w.scheduled_policy_updates[id])
Locked(w, h, v) == \A c \in DOMAIN w.contracts : LockedContract(w, h, v, c)

LEMMA NoneExecuted ==
    ASSUME NEW before, NEW after, \A id \in DOMAIN before : after[id] = before[id]
    PROVE  \A c : ExecutedNow(before, after, c) = {}
    BY Zenon DEF ExecutedNow

LEMMA OneExecuted ==
    ASSUME NEW w, NEW t, NEW before, NEW after, Executing(w, t, t.id, before, after)
    PROVE  /\ t.id \in ExecutedNow(before, after, before[t.id].target)
           /\ \A c : \A id \in ExecutedNow(before, after, c) : id = t.id
    BY Zenon DEF ExecutedNow, Executing, Executable

(* A step that executes nothing and amends nothing.                        *)
LEMMA LockedQuietly ==
    ASSUME NEW w, NEW h, NEW v,
           \A id \in DOMAIN w.scheduled_upgrades :
              v.scheduled_upgrades[id] = w.scheduled_upgrades[id],
           \A id \in DOMAIN w.scheduled_policy_updates :
              v.scheduled_policy_updates[id] = w.scheduled_policy_updates[id],
           \A c \in DOMAIN w.contracts : v.contracts[c] = w.contracts[c]
    PROVE  Locked(w, h, v)
<1>1. \A c : /\ ExecutedNow(w.scheduled_upgrades, v.scheduled_upgrades, c) = {}
             /\ ExecutedNow(w.scheduled_policy_updates, v.scheduled_policy_updates, c) = {}
    BY NoneExecuted, Zenon
<1>2. QED
    BY <1>1, Zenon DEF Locked, LockedContract, Contract

(* Some rehearsal of upgrade id at w is ready, fails no invariant but a    *)
(* vault's and ends in the contracts and the storage of v.                 *)
Foretells(w, id, v) ==
    \E report \in RehearseScheduledUpgrade(w, id) :
        /\ report.ready_at_height
        /\ report.invariant_failures \subseteq Deployed(w, "LendingVault")
        /\ report.state.contracts = v.contracts /\ report.state.storage = v.storage

(* The rehearsal of an upgrade that can be executed.                       *)
LEMMA Rehearsed ==
    ASSUME NEW w, StateInv(w), NEW id \in DOMAIN w.scheduled_upgrades, NEW t,
           Executable(w, w.scheduled_upgrades[id], t), t.target \in Deployed(w, "Governance"),
           NEW v, v.storage = w.storage,
           v.contracts = Upgraded(w.contracts, w.scheduled_upgrades[id].target,
                                  w.scheduled_upgrades[id].new_code_hash)
    PROVE  Foretells(w, id, v)
<1> DEFINE upgrade == w.scheduled_upgrades[id]
           c == upgrade.target
           hash == upgrade.new_code_hash
           rehearsed == [w EXCEPT !.contracts[c].code_hash = hash]
           report == [ready_at_height |-> w.height >= upgrade.execute_after_height,
                      invariant_failures |-> CheckDeclaredInvariants(rehearsed), state |-> rehearsed]
<1>1. DOMAIN w = Fields
    BY StateFields, Zenon DEF StateInv, WellFormed
<1>2. /\ Changes(w, rehearsed, {"contracts"}) /\ rehearsed.contracts = Upgraded(w.contracts, c, hash)
    BY <1>1, StateFields, Zenon DEF Changes, Fields, Upgraded
<1>3. /\ ~upgrade.executed /\ upgrade.governance = t.target /\ c = Kind(w, t.target).governed
      /\ w.height >= upgrade.execute_after_height /\ c \in DOMAIN w.contracts
    BY Zenon DEF Executable
<1>4. t.target \in DOMAIN w.contracts /\ Kind(w, t.target).name = "Governance"
    BY Zenon DEF Deployed, Kind
<1>5. RehearseScheduledUpgrade(w, id) = {report}
    BY <1>3, <1>4, Zenon DEF RehearseScheduledUpgrade
<1>6. v.contracts = Upgraded(w.contracts, c, hash)
    BY Zenon
<1> HIDE DEF upgrade, c, hash, rehearsed
<1>7. /\ rehearsed.storage = w.storage /\ rehearsed.aspect_modules = w.aspect_modules
      /\ rehearsed.scheduled_upgrades = w.scheduled_upgrades
      /\ rehearsed.scheduled_policy_updates = w.scheduled_policy_updates
      /\ Changes(w, rehearsed, {"contracts", "scheduled_upgrades", "scheduled_policy_updates"})
    BY <1>2, Zenon DEF Changes, Fields
<1>8. UpgradedTo(w, rehearsed, c, hash)
    BY <1>2, <1>7, Zenon DEF UpgradedTo
<1>9. /\ Amended(w, rehearsed, c) /\ WellFormedContract(rehearsed, c)
      /\ \A d \in DOMAIN w.contracts :
            rehearsed.contracts[d].method_policies = w.contracts[d].method_policies
    BY <1>3, <1>8, UpgradedContracts, SMTT(20)
<1>10. CleanSchedules(rehearsed, w.scheduled_upgrades, w.scheduled_policy_updates)
    BY <1>9, StateSchedules, Zenon DEF CleanSchedules, Amended, Contract
<1>11. StateInv(rehearsed)
    BY <1>3, <1>7, <1>9, <1>10, AmendedState, Zenon
<1>12. CheckDeclaredInvariants(rehearsed) \subseteq Deployed(w, "LendingVault")
  <2>1. Deployed(rehearsed, "LendingVault") = Deployed(w, "LendingVault")
    BY <1>9, Zenon DEF Amended, Deployed, Kind, Contract
  <2>2. QED
    BY <1>11, <2>1, StateInvTrue, Zenon
<1>13. /\ report.ready_at_height
       /\ report.invariant_failures \subseteq Deployed(w, "LendingVault")
       /\ report.state.contracts = v.contracts /\ report.state.storage = v.storage
    BY <1>2, <1>3, <1>6, <1>7, <1>12, Zenon
<1>14. QED
    BY <1>5, <1>13, Zenon DEF Foretells

LEMMA UpgradeLocked ==
    ASSUME NEW w, StateInv(w), NEW h, Remembered(w, h), NEW t, Callable(w, t),
           t.method = "ExecuteUpgrade", ExecuteUpgrade(w, t).ok
    PROVE  Locked(w, h, ExecuteUpgrade(w, t).w)
<1> DEFINE v == ExecuteUpgrade(w, t).w
           id == t.id
           upgrade == w.scheduled_upgrades[id]
           target == upgrade.target
<1>1. /\ Administered(w, v) /\ Changes(w, v, {"contracts", "scheduled_upgrades"})
      /\ Executing(w, t, id, w.scheduled_upgrades, v.scheduled_upgrades)
      /\ v.contracts = Upgraded(w.contracts, target, upgrade.new_code_hash)
      /\ Amended(w, v, target)
      /\ \A d \in DOMAIN w.contracts : v.contracts[d].method_policies = w.contracts[d].method_policies
    BY ExecuteUpgradeOutcome, Zenon
<1> HIDE DEF v
<1>2. v.scheduled_policy_updates = w.scheduled_policy_updates
    BY <1>1, Zenon DEF Changes, Fields
<1>3. \A c : ExecutedNow(w.scheduled_policy_updates, v.scheduled_policy_updates, c) = {}
    BY <1>2, NoneExecuted, Zenon
<1>4. /\ id \in ExecutedNow(w.scheduled_upgrades, v.scheduled_upgrades, target)
      /\ \A c : \A i \in ExecutedNow(w.scheduled_upgrades, v.scheduled_upgrades, c) : i = id
    BY <1>1, OneExecuted, Zenon
<1>5. id \in DOMAIN w.scheduled_upgrades /\ Executable(w, upgrade, t)
    BY <1>1, Zenon DEF Executing
<1>6. w.height >= h.scheduled[<<"ScheduleUpgrade", id>>] + Kind(w, upgrade.governance).timelock_delay
    BY <1>5, Zenon DEF Executable, Remembered, Timelocked
<1>7. v.storage = w.storage /\ t.target \in Deployed(w, "Governance")
    BY <1>1, GovernanceCalled, Zenon DEF Administered
<1>8. Foretells(w, id, v)
    BY <1>1, <1>5, <1>7, Rehearsed, Zenon
<1> HIDE DEF target, upgrade, id
<1>9. ASSUME NEW c \in DOMAIN w.contracts
      PROVE  /\ Contract(w, c).code_hash # Contract(v, c).code_hash => c = target
             /\ Contract(w, c).method_policies = Contract(v, c).method_policies
    BY <1>1, Zenon DEF Amended, Contract
<1>10. ASSUME NEW c \in DOMAIN w.contracts PROVE LockedContract(w, h, v, c)
    BY <1>3, <1>4, <1>6, <1>8, <1>9, Zenon DEF LockedContract, Foretells, upgrade
<1>11. QED
    BY <1>10, Zenon DEF Locked, v

LEMMA UpdateLocked ==
    ASSUME NEW w, StateInv(w), NEW h, Remembered(w, h), NEW t,
           ExecutePolicyUpdate(w, t).ok
    PROVE  Locked(w, h, ExecutePolicyUpdate(w, t).w)
<1> DEFINE v == ExecutePolicyUpdate(w, t).w
           id == t.id
           update == w.scheduled_policy_updates[id]
           target == update.target
<1>1. /\ Changes(w, v, {"contracts", "scheduled_policy_updates"})
      /\ Executing(w, t, id, w.scheduled_policy_updates, v.scheduled_policy_updates)
      /\ Amended(w, v, target) /\ v.contracts[target].code_hash = w.contracts[target].code_hash
    BY ExecutePolicyUpdateOutcome, Zenon
<1> HIDE DEF v
<1>2. v.scheduled_upgrades = w.scheduled_upgrades
    BY <1>1, Zenon DEF Changes, Fields
<1>3. \A c : ExecutedNow(w.scheduled_upgrades, v.scheduled_upgrades, c) = {}
    BY <1>2, NoneExecuted, Zenon
<1>4. /\ id \in ExecutedNow(w.scheduled_policy_updates, v.scheduled_policy_updates, target)
      /\ \A c : \A i \in ExecutedNow(w.scheduled_policy_updates, v.scheduled_policy_updates, c) : i = id
    BY <1>1, OneExecuted, Zenon
<1>5. id \in DOMAIN w.scheduled_policy_updates /\ Executable(w, update, t)
    BY <1>1, Zenon DEF Executing
<1>6. w.height >= h.scheduled[<<"SchedulePolicyUpdate", id>>]
                      + Kind(w, update.governance).timelock_delay
    BY <1>5, Zenon DEF Executable, Remembered, Timelocked
<1> HIDE DEF target, update, id
<1>7. ASSUME NEW c \in DOMAIN w.contracts
      PROVE  /\ Contract(w, c).code_hash = Contract(v, c).code_hash
             /\ Contract(w, c).method_policies # Contract(v, c).method_policies => c = target
    BY <1>1, Zenon DEF Amended, Contract
<1>8. ASSUME NEW c \in DOMAIN w.contracts PROVE LockedContract(w, h, v, c)
    BY <1>3, <1>4, <1>6, <1>7, Zenon DEF LockedContract, update
<1>9. QED
    BY <1>8, Zenon DEF Locked, v

LEMMA CallLocked ==
    ASSUME NEW w, StateInv(w), NEW h, Remembered(w, h), NEW t \in Transactions, Callable(w, t),
           Dispatch(w, t).ok
    PROVE  Locked(w, h, Dispatch(w, t).w)
<1> DEFINE v == Dispatch(w, t).w
<1>1. Administrative(w, v, t.method)
    BY CallAdministrative, Zenon
<1>2. CASE t.method = "ExecuteUpgrade"
  <2>1. Dispatch(w, t) = ExecuteUpgrade(w, t)
    BY <1>2, Zenon DEF Dispatch
  <2>2. QED
    BY <1>2, <2>1, UpgradeLocked, Zenon
<1>3. CASE t.method = "ExecutePolicyUpdate"
  <2>1. Dispatch(w, t) = ExecutePolicyUpdate(w, t)
    BY <1>3, Zenon DEF Dispatch
  <2>2. QED
    BY <2>1, UpdateLocked, Zenon
<1>4. CASE t.method \notin {"ExecuteUpgrade", "ExecutePolicyUpdate"}
  <2>1. \A c \in DOMAIN w.contracts : v.contracts[c] = w.contracts[c]
    BY <1>1, <1>4, Zenon DEF Administrative
  <2>2. \A id \in DOMAIN w.scheduled_upgrades : v.scheduled_upgrades[id] = w.scheduled_upgrades[id]
    <3>1. CASE t.method = "ScheduleUpgrade"
      <4>1. Dispatch(w, t) = ScheduleUpgrade(w, t)
        BY <3>1, Zenon DEF Dispatch
      <4>2. Scheduling(w, t, t.id, w.scheduled_upgrades, v.scheduled_upgrades)
        BY <3>1, <4>1, GovernanceCalled, ScheduleUpgradeOutcome, Zenon
      <4>3. QED
        BY <4>2, Zenon DEF Scheduling
    <3>2. CASE t.method # "ScheduleUpgrade"
      BY <1>1, <1>4, <3>2, Zenon DEF Administrative
    <3>3. QED
      BY <3>1, <3>2, Zenon
  <2>3. \A id \in DOMAIN w.scheduled_policy_updates :
            v.scheduled_policy_updates[id] = w.scheduled_policy_updates[id]
    <3>1. CASE t.method = "SchedulePolicyUpdate"
      <4>1. Dispatch(w, t) = SchedulePolicyUpdate(w, t)
        BY <3>1, Zenon DEF Dispatch
      <4>2. Scheduling(w, t, t.id, w.scheduled_policy_updates, v.scheduled_policy_updates)
        BY <3>1, <4>1, GovernanceCalled, SchedulePolicyUpdateOutcome, Zenon
      <4>3. QED
        BY <4>2, Zenon DEF Scheduling
    <3>2. CASE t.method # "SchedulePolicyUpdate"
      BY <1>1, <1>4, <3>2, Zenon DEF Administrative
    <3>3. QED
      BY <3>1, <3>2, Zenon
  <2> HIDE DEF v
  <2>4. Locked(w, h, v)
    BY <2>1, <2>2, <2>3, LockedQuietly, Zenon
  <2>5. QED
    BY <2>4, Zenon DEF v
<1>5. QED
    BY <1>2, <1>3, <1>4, Zenon

LEMMA LockedStep ==
    ASSUME IInv, [Next]_vars
    PROVE  Locked(state, history, state')
<1>1. StateInv(state) /\ Remembered(state, history)
    BY Zenon DEF IInv
<1>2. ASSUME NEW t \in Transactions, Commit(t) PROVE Locked(state, history, state')
  <2>1. Callable(state, t) /\ Dispatch(state, t).ok /\ state' = Dispatch(state, t).w
    BY <1>2, CommitStep, Zenon
  <2>2. QED
    BY <1>1, <2>1, CallLocked, Zenon
<1>3. ASSUME Changes(state, state', {"height"}) PROVE Locked(state, history, state')
  <2>1. /\ state'.contracts = state.contracts
        /\ state'.scheduled_upgrades = state.scheduled_upgrades
        /\ state'.scheduled_policy_updates = state.scheduled_policy_updates
    BY <1>3, Zenon DEF Changes, Fields
  <2>2. QED
    BY <2>1, LockedQuietly, Zenon
<1>4. ASSUME NEW t \in Transactions, Revert(t) PROVE Changes(state, state', {"height"})
    BY <1>4, RevertStep, Zenon DEF Changes
<1>5. CASE UNCHANGED vars
    BY <1>5, LockedQuietly, Zenon DEF vars
<1>6. QED
    BY <1>2, <1>3, <1>4, <1>5, StartBlockStep, Zenon DEF Next

(* schedule_upgrade, schedule_policy_update and their executions keep the  *)
(* delay of the governance contract: no sequence of calls changes a code   *)
(* hash or a declared effect sooner, without a schedule or twice by one,   *)
(* and rehearse_scheduled_upgrade foretells what execute_upgrade does.     *)
THEOREM TimelockHolds == Spec => TimelockRespected
<1>1. IInv /\ [Next]_vars => [Locked(state, history, state')]_vars
    BY LockedStep, Zenon
<1>2. Locked(state, history, state') <=>
        \A c \in DOMAIN state.contracts :
          LET upgrades == ExecutedNow(state.scheduled_upgrades, state'.scheduled_upgrades, c)
              updates == ExecutedNow(state.scheduled_policy_updates,
                                     state'.scheduled_policy_updates, c)
              delay(change) == Kind(state, change.governance).timelock_delay
          IN  /\ Contract(state, c).code_hash # Contract(state', c).code_hash => upgrades # {}
              /\ Contract(state, c).method_policies # Contract(state', c).method_policies
                    => updates # {}
              /\ \A id \in upgrades : state.height >= history.scheduled[<<"ScheduleUpgrade", id>>]
                                          + delay(state.scheduled_upgrades[id])
              /\ \A id \in upgrades : \E report \in RehearseScheduledUpgrade(state, id) :
                    /\ report.ready_at_height
                    /\ report.invariant_failures \subseteq Deployed(state, "LendingVault")
                    /\ report.state.contracts = state'.contracts
                    /\ report.state.storage = state'.storage
              /\ \A id \in updates : state.height >= history.scheduled[<<"SchedulePolicyUpdate", id>>]
                                         + delay(state.scheduled_policy_updates[id])
    BY Zenon DEF Locked, LockedContract
<1>3. QED
    BY <1>1, <1>2, Invariant, PTL DEF Spec, TimelockRespected


-----------------------------------------------------------------------------
(* A paused contract stands still.                                         *)

(* Of what a paused contract has, only a native token's ledger is written. *)
StorageStill(w, v, c) ==
    \A key \in DOMAIN v.storage : key[2] = c =>
        UintAt(v, key) = UintAt(w, key) \/ DirectlyWritten(w, key)

SchedulesStill(w, v, c) ==
    /\ ChangesOf(v.scheduled_upgrades, c) = ChangesOf(w.scheduled_upgrades, c)
    /\ ChangesOf(v.scheduled_policy_updates, c) = ChangesOf(w.scheduled_policy_updates, c)

OutboxStill(w, v, c) ==
    \A i \in DOMAIN v.cross_shard_outbox \ DOMAIN w.cross_shard_outbox :
        v.cross_shard_outbox[i].source_contract # c

Still(w, v) ==
    \A c \in w.paused_contracts \cap DOMAIN w.contracts :
        StorageStill(w, v, c) /\ OutboxStill(w, v, c) /\ SchedulesStill(w, v, c)

LEMMA SameStill ==
    ASSUME NEW w, NEW v, NEW key, Same(w, v, key)
    PROVE  UintAt(v, key) = UintAt(w, key)
    BY Zenon DEF Same, UintAt

LEMMA LedgerStill ==
    ASSUME NEW w, NEW key, LedgerKey(w, key), key[2] \in w.paused_contracts
    PROVE  DirectlyWritten(w, key)
    BY Zenon DEF LedgerKey, CalledLedgers, DirectlyWritten, TokenVariants, Deployed, Kind

(* The changes that contract c scheduled are those of before.              *)
ChangesStill(before, after, c) == ChangesOf(after, c) = ChangesOf(before, c)

LEMMA ChangesSame ==
    ASSUME NEW before, NEW after, NEW c,
           \A id : id \in DOMAIN after /\ after[id].governance = c
                       <=> id \in DOMAIN before /\ before[id].governance = c,
           \A id \in DOMAIN before : before[id].governance = c => after[id] = before[id]
    PROVE  ChangesStill(before, after, c)
<1> DEFINE old == {i \in DOMAIN before : before[i].governance = c}
           new == {i \in DOMAIN after : after[i].governance = c}
<1>1. new = old /\ \A id \in old : after[id] = before[id]
    BY Zenon
<1> HIDE DEF old, new
<1>2. {<<id, after[id]>> : id \in new} = {<<id, before[id]>> : id \in old}
    BY <1>1, Zenon
<1>3. QED
    BY <1>2, Zenon DEF ChangesStill, ChangesOf, old, new

LEMMA SchedulingStill ==
    ASSUME NEW w, NEW t, NEW id, NEW before, NEW after, Scheduling(w, t, id, before, after),
           NEW c, c # t.target
    PROVE  ChangesStill(before, after, c)
<1>1. ASSUME NEW i PROVE i \in DOMAIN after /\ after[i].governance = c
                            <=> i \in DOMAIN before /\ before[i].governance = c
    BY <1>1, Zenon DEF Scheduling
<1>2. \A i \in DOMAIN before : before[i].governance = c => after[i] = before[i]
    BY Zenon DEF Scheduling
<1>3. QED
    BY <1>1, <1>2, ChangesSame, Zenon

LEMMA ExecutingStill ==
    ASSUME NEW w, NEW t, NEW id, NEW before, NEW after, Executing(w, t, id, before, after),
           ChangeFields \subseteq DOMAIN before[id], NEW c, c # t.target
    PROVE  ChangesStill(before, after, c)
<1>1. before[id].governance = t.target
    BY Zenon DEF Executing, Executable
<1>2. after[id].governance = before[id].governance
  <2>1. "governance" \in DOMAIN before[id] \ {"executed"}
    BY DEF ChangeFields
  <2>2. QED
    BY <2>1, Zenon DEF Executing
<1>3. ASSUME NEW i PROVE i \in DOMAIN after /\ after[i].governance = c
                            <=> i \in DOMAIN before /\ before[i].governance = c
    BY <1>1, <1>2, Zenon DEF Executing
<1>4. \A i \in DOMAIN before : before[i].governance = c => after[i] = before[i]
    BY <1>1, Zenon DEF Executing
<1>5. QED
    BY <1>3, <1>4, ChangesSame, Zenon

LEMMA CallSchedulesStill ==
    ASSUME NEW w, StateInv(w), NEW t \in Transactions, Callable(w, t), Dispatch(w, t).ok,
           NEW c, c # t.target
    PROVE  SchedulesStill(w, Dispatch(w, t).w, c)
<1> DEFINE v == Dispatch(w, t).w
<1>1. Administrative(w, v, t.method)
    BY CallAdministrative, Zenon
<1>2. Recorded(w)
    BY Zenon DEF StateInv
<1>3. ChangesStill(w.scheduled_upgrades, v.scheduled_upgrades, c)
  <2>1. CASE t.method = "ScheduleUpgrade"
    <3>1. Dispatch(w, t) = ScheduleUpgrade(w, t)
      BY <2>1, Zenon DEF Dispatch
    <3>2. Scheduling(w, t, t.id, w.scheduled_upgrades, v.scheduled_upgrades)
      BY <2>1, <3>1, GovernanceCalled, ScheduleUpgradeOutcome, Zenon
    <3> HIDE DEF v
    <3>3. QED
      BY <3>2, SchedulingStill, Zenon
  <2>2. CASE t.method = "ExecuteUpgrade"
    <3>1. Dispatch(w, t) = ExecuteUpgrade(w, t)
      BY <2>2, Zenon DEF Dispatch
    <3>2. Executing(w, t, t.id, w.scheduled_upgrades, v.scheduled_upgrades)
      BY <3>1, ExecuteUpgradeOutcome, Zenon
    <3>3. ChangeFields \subseteq DOMAIN w.scheduled_upgrades[t.id]
      BY <1>2, <3>2, Zenon DEF Recorded, Executing
    <3> HIDE DEF v
    <3>4. QED
      BY <3>2, <3>3, ExecutingStill, Zenon
  <2>3. CASE t.method \notin {"ScheduleUpgrade", "ExecuteUpgrade"}
    BY <1>1, <2>3, Zenon DEF Administrative, ChangesStill
  <2>4. QED
    BY <2>1, <2>2, <2>3, Zenon
<1>4. ChangesStill(w.scheduled_policy_updates, v.scheduled_policy_updates, c)
  <2>1. CASE t.method = "SchedulePolicyUpdate"
    <3>1. Dispatch(w, t) = SchedulePolicyUpdate(w, t)
      BY <2>1, Zenon DEF Dispatch
    <3>2. Scheduling(w, t, t.id, w.scheduled_policy_updates, v.scheduled_policy_updates)
      BY <2>1, <3>1, GovernanceCalled, SchedulePolicyUpdateOutcome, Zenon
    <3> HIDE DEF v
    <3>3. QED
      BY <3>2, SchedulingStill, Zenon
  <2>2. CASE t.method = "ExecutePolicyUpdate"
    <3>1. Dispatch(w, t) = ExecutePolicyUpdate(w, t)
      BY <2>2, Zenon DEF Dispatch
    <3>2. Executing(w, t, t.id, w.scheduled_policy_updates, v.scheduled_policy_updates)
      BY <3>1, ExecutePolicyUpdateOutcome, Zenon
    <3>3. ChangeFields \subseteq DOMAIN w.scheduled_policy_updates[t.id]
      BY <1>2, <3>2, Zenon DEF Recorded, Executing
    <3> HIDE DEF v
    <3>4. QED
      BY <3>2, <3>3, ExecutingStill, Zenon
  <2>3. CASE t.method \notin {"SchedulePolicyUpdate", "ExecutePolicyUpdate"}
    BY <1>1, <2>3, Zenon DEF Administrative, ChangesStill
  <2>4. QED
    BY <2>1, <2>2, <2>3, Zenon
<1>5. QED
    BY <1>3, <1>4, Zenon DEF SchedulesStill, ChangesStill

LEMMA CallStill ==
    ASSUME NEW w, StateInv(w), NEW t \in Transactions, Callable(w, t), Dispatch(w, t).ok
    PROVE  Still(w, Dispatch(w, t).w)
<1> DEFINE v == Dispatch(w, t).w
<1> SUFFICES ASSUME NEW c \in w.paused_contracts \cap DOMAIN w.contracts
             PROVE  StorageStill(w, v, c) /\ OutboxStill(w, v, c) /\ SchedulesStill(w, v, c)
    BY Zenon DEF Still
<1>1. c # t.target
    BY Zenon DEF Callable
<1>2. SchedulesStill(w, v, c)
    BY <1>1, CallSchedulesStill, Zenon
<1> HIDE DEF v
<1>3. ASSUME NEW scope, NEW u, Framed(scope, w, u), \A key \in scope : key[2] = t.target
      PROVE  StorageStill(w, u, c) /\ u.cross_shard_outbox = w.cross_shard_outbox
  <2>1. ASSUME NEW key \in DOMAIN u.storage, key[2] = c
        PROVE  UintAt(u, key) = UintAt(w, key) \/ DirectlyWritten(w, key)
    BY <1>1, <1>3, <2>1, SameStill, LedgerStill, Zenon DEF Framed
  <2>2. QED
    BY <1>3, <2>1, Zenon DEF StorageStill, Framed, SameElse
<1>4. CASE t.method \in FramedMethods
  <2>1. Framed(Scope(w, t), w, v)
    BY <1>4, FramedCalls, SuccessFramed, Zenon DEF FramedCall, v
  <2>2. QED
    BY <1>2, <1>3, <2>1, ScopeOwned, Zenon DEF OutboxStill
<1>5. CASE t.method = "QueueBridgeMessage"
  <2>1. PICK u, message : /\ Framed({}, w, u) /\ Appended(u, v, t.id, message)
                          /\ message.source_contract = t.target
    <3>1. Queued(w, v, t)
      BY <1>5, QueueCall, Zenon DEF v
    <3>2. \E u, message : /\ Framed({}, w, u) /\ Appended(u, v, t.id, message)
                          /\ message.message_id = t.id /\ message.source_contract = t.target
      BY <3>1, QueuedSame, Zenon
    <3>3. QED
      BY <3>2, Zenon
  <2>2. StorageStill(w, u, c) /\ u.cross_shard_outbox = w.cross_shard_outbox
    <3> DEFINE none == {}
    <3>1. Framed(none, w, u) /\ \A key \in none : key[2] = t.target
      BY <2>1, Zenon
    <3> HIDE DEF none
    <3>2. QED
      BY <1>3, <3>1, Zenon
  <2>3. StorageStill(w, v, c)
    BY <2>1, <2>2, Zenon DEF StorageStill, Appended, UintAt
  <2>4. OutboxStill(w, v, c)
    <3> DEFINE s == w.cross_shard_outbox
               r == Append(s, message)
    <3>1. PICK S : s \in Seq(S)
      BY Zenon DEF StateInv, OutboxTaken
    <3>2. \A i \in DOMAIN r \ DOMAIN s : r[i] = message
      BY <3>1
    <3>3. v.cross_shard_outbox = r
      BY <2>1, <2>2, Zenon DEF Appended
    <3> HIDE DEF s, r
    <3>4. QED
      BY <1>1, <2>1, <3>2, <3>3, Zenon DEF OutboxStill, s
  <2>5. QED
    BY <1>2, <2>3, <2>4, Zenon
<1>6. CASE t.method \in LaunchMethods
  <2>1. PICK u : Added(w, u, t.contract) /\ Framed({}, u, v)
    BY <1>6, LaunchCall, Zenon DEF Launched, v
  <2>2. c # t.contract /\ c \in u.paused_contracts /\ u.contracts[c] = w.contracts[c]
    BY <2>1, Zenon DEF Added
  <2>3. ASSUME NEW key \in DOMAIN v.storage, key[2] = c
        PROVE  UintAt(v, key) = UintAt(w, key) \/ DirectlyWritten(w, key)
    <3>1. Same(w, u, key)
      BY <2>1, <2>2, <2>3, Zenon DEF Added
    <3>2. UintAt(u, key) = UintAt(w, key)
      BY <3>1, SameStill, Zenon
    <3>3. Same(u, v, key) \/ DirectlyWritten(u, key)
      BY <2>1, <2>2, <2>3, LedgerStill, Zenon DEF Framed
    <3>4. DirectlyWritten(u, key) => DirectlyWritten(w, key)
      BY <2>2, <2>3, Zenon DEF DirectlyWritten, Kind
    <3>5. Same(u, v, key) => UintAt(v, key) = UintAt(u, key)
      BY SameStill, Zenon
    <3>6. QED
      BY <3>2, <3>3, <3>4, <3>5, Zenon
  <2>4. v.cross_shard_outbox = w.cross_shard_outbox
    BY <2>1, Zenon DEF Added, Framed, SameElse
  <2>5. QED
    BY <1>2, <2>3, <2>4, Zenon DEF StorageStill, OutboxStill
<1>7. CASE t.method \in AdminMethods
  <2>1. Administered(w, v) /\ Changes(w, v, AdminFields(t.method))
    BY <1>7, AdminCall, Zenon DEF AdminCalled, v
  <2>2. v.storage = w.storage
    BY <2>1, Zenon DEF Administered
  <2>3. v.cross_shard_outbox = w.cross_shard_outbox
    BY <2>1, Zenon DEF Changes, AdminFields, Fields
  <2>4. QED
    BY <1>2, <2>2, <2>3, Zenon DEF StorageStill, OutboxStill, UintAt
<1>8. QED
    BY <1>4, <1>5, <1>6, <1>7, MethodsCovered, Zenon

LEMMA StillStep ==
    ASSUME IInv, [Next]_vars
    PROVE  Still(state, state')
<1>1. StateInv(state)
    BY Zenon DEF IInv
<1>2. ASSUME NEW t \in Transactions, Commit(t) PROVE Still(state, state')
  <2>1. Callable(state, t) /\ Dispatch(state, t).ok /\ state' = Dispatch(state, t).w
    BY <1>2, CommitStep, Zenon
  <2>2. QED
    BY <1>1, <2>1, CallStill, Zenon
<1>3. ASSUME NEW v, v.storage = state.storage, v.cross_shard_outbox = state.cross_shard_outbox,
             v.scheduled_upgrades = state.scheduled_upgrades,
             v.scheduled_policy_updates = state.scheduled_policy_updates
      PROVE  Still(state, v)
    BY <1>3, Zenon DEF Still, StorageStill, OutboxStill, SchedulesStill, UintAt
<1>4. ASSUME Changes(state, state', {"height"}) PROVE Still(state, state')
    BY <1>3, <1>4, Zenon DEF Changes, Fields
<1>5. ASSUME NEW t \in Transactions, Revert(t) PROVE Changes(state, state', {"height"})
    BY <1>5, RevertStep, Zenon DEF Changes
<1>6. CASE UNCHANGED vars
    BY <1>3, <1>6, Zenon DEF vars
<1>7. QED
    BY <1>2, <1>4, <1>5, <1>6, StartBlockStep, Zenon DEF Next

(* No step of any kind changes what a paused contract stores, what it has  *)
(* queued or what it has scheduled, except the ledger of a native token:   *)
(* neither a call of it nor a call of another contract that reaches it.    *)
THEOREM PausesHold == Spec => PausedContractsStandStill
<1>1. IInv /\ [Next]_vars => [Still(state, state')]_vars
    BY StillStep, Zenon
<1>2. Still(state, state') <=>
          \A c \in state.paused_contracts \cap DOMAIN state.contracts :
              /\ \A key \in DOMAIN state'.storage : key[2] = c =>
                    UintAt(state', key) = UintAt(state, key) \/ DirectlyWritten(state, key)
              /\ \A i \in DOMAIN state'.cross_shard_outbox \ DOMAIN state.cross_shard_outbox :
                    state'.cross_shard_outbox[i].source_contract # c
              /\ ChangesOf(state'.scheduled_upgrades, c) = ChangesOf(state.scheduled_upgrades, c)
              /\ ChangesOf(state'.scheduled_policy_updates, c)
                    = ChangesOf(state.scheduled_policy_updates, c)
    BY Zenon DEF Still, StorageStill, OutboxStill, SchedulesStill
<1>3. QED
    BY <1>1, <1>2, Invariant, PTL DEF Spec, PausedContractsStandStill

-----------------------------------------------------------------------------
(* What a call changes is among the declared effects, and what it writes   *)
(* belongs to these contracts.                                             *)
Declared(w, v, effects) ==
    /\ v.storage = w.storage \/ "StorageWrite" \in effects
    /\ v.registry = w.registry \/ "RegistryWrite" \in effects
    /\ v.paused_contracts = w.paused_contracts \/ "ContractPause" \in effects
    /\ DOMAIN v.contracts = DOMAIN w.contracts \/ "ContractDeploy" \in effects
    /\ v.aspect_modules = w.aspect_modules \/ "ModuleRegister" \in effects
    /\ DOMAIN v.scheduled_upgrades = DOMAIN w.scheduled_upgrades \/ "UpgradeSchedule" \in effects
    /\ \/ DOMAIN v.scheduled_policy_updates = DOMAIN w.scheduled_policy_updates
       \/ "PolicyUpdateSchedule" \in effects
    /\ \/ \A c \in DOMAIN w.contracts : v.contracts[c].code_hash = w.contracts[c].code_hash
       \/ "ContractCodeUpgrade" \in effects
    /\ \/ \A c \in DOMAIN w.contracts :
             v.contracts[c].method_policies = w.contracts[c].method_policies
       \/ "MethodPolicyUpdate" \in effects
    /\ v.cross_shard_outbox = w.cross_shard_outbox \/ "CrossShardOutboxAppend" \in effects

WritesOnly(w, v, owners) == \A key : Same(w, v, key) \/ key[2] \in owners

LEMMA DeclaredObserved ==
    ASSUME NEW w, NEW v, NEW effects, Declared(w, v, effects)
    PROVE  ObservedEffects(w, v) \subseteq effects
<1> SUFFICES ASSUME NEW e \in ObservedEffects(w, v) PROVE e \in effects
    BY Zenon
<1>1. \/ e = "StorageWrite" /\ w.storage # v.storage
      \/ e = "RegistryWrite" /\ w.registry # v.registry
      \/ e = "ContractPause" /\ w.paused_contracts # v.paused_contracts
      \/ e = "ContractDeploy" /\ DOMAIN w.contracts # DOMAIN v.contracts
      \/ e = "ModuleRegister" /\ w.aspect_modules # v.aspect_modules
      \/ e = "UpgradeSchedule" /\ DOMAIN w.scheduled_upgrades # DOMAIN v.scheduled_upgrades
      \/ /\ e = "PolicyUpdateSchedule"
         /\ DOMAIN w.scheduled_policy_updates # DOMAIN v.scheduled_policy_updates
      \/ /\ e = "ContractCodeUpgrade"
         /\ \E c \in DOMAIN w.contracts : w.contracts[c].code_hash # v.contracts[c].code_hash
      \/ /\ e = "MethodPolicyUpdate"
         /\ \E c \in DOMAIN w.contracts :
               w.contracts[c].method_policies # v.contracts[c].method_policies
      \/ e = "CrossShardOutboxAppend" /\ w.cross_shard_outbox # v.cross_shard_outbox
    BY DEF ObservedEffects
<1>2. QED
    BY <1>1, Zenon DEF Declared

LEMMA WrittenOnly ==
    ASSUME NEW w, NEW v, NEW owners, WritesOnly(w, v, owners)
    PROVE  WrittenContracts(w, v) \subseteq owners
<1> SUFFICES ASSUME NEW key \in DOMAIN v.storage,
                    key \notin DOMAIN w.storage \/ UintAt(w, key) # UintAt(v, key)
             PROVE  key[2] \in owners
    BY Zenon DEF WrittenContracts, OwnerContract
<1>1. ~Same(w, v, key)
    BY Zenon DEF Same, UintAt
<1>2. QED
    BY <1>1, Zenon DEF WritesOnly

(* What the policy of the called method allows.                            *)
AllowedEffects(w, t) == Effects(w, t) \cup UndeclaredEffects(t.method)
AllowedOwners(w, v, t) ==
    {t.target} \cup Deployed(v, "Token") \cup Deployed(v, "AspectModule")
        \cup (DOMAIN v.contracts \ DOMAIN w.contracts)
CallDeclared(w, v, t) ==
    Declared(w, v, AllowedEffects(w, t)) /\ WritesOnly(w, v, AllowedOwners(w, v, t))

LEMMA FramedDeclared ==
    ASSUME NEW w, StateInv(w), NEW t \in Transactions, Callable(w, t), t.method \in FramedMethods,
           NEW v, Framed(Scope(w, t), w, v)
    PROVE  CallDeclared(w, v, t)
<1>1. "StorageWrite" \in Effects(w, t)
  <2>1. CASE t.method \in AspectMethods
    BY <2>1, AspectCall, Zenon DEF StateInv
  <2>2. CASE t.method \notin AspectMethods
    <3>1. t.method \in DOMAIN StandardEffects /\ StandardEffects[t.method] = "StorageWrite"
      BY <2>2 DEF FramedMethods, StandardEffects
    <3>2. QED
      BY <3>1, StandardCall, Zenon DEF StateInv
  <2>3. QED
    BY <2>1, <2>2, Zenon
<1>2. Declared(w, v, AllowedEffects(w, t))
    BY <1>1, Zenon DEF Declared, Framed, SameElse, AllowedEffects
<1>3. v.contracts = w.contracts
    BY Zenon DEF Framed, SameElse
<1>4. ASSUME NEW key PROVE Same(w, v, key) \/ key[2] \in AllowedOwners(w, v, t)
    BY <1>3, ScopeOwned, Zenon DEF Framed, LedgerKey, CalledLedgers, Deployed, AllowedOwners
<1>5. QED
    BY <1>2, <1>4, Zenon DEF CallDeclared, WritesOnly

LEMMA QueuedDeclared ==
    ASSUME NEW w, StateInv(w), NEW t \in Transactions, Callable(w, t),
           t.method = "QueueBridgeMessage", NEW v, Queued(w, v, t)
    PROVE  CallDeclared(w, v, t)
<1>1. PICK u, message : Framed({}, w, u) /\ message.message_id = t.id /\ Appended(u, v, t.id, message)
    BY QueuedSame, Zenon
<1>2. "CrossShardOutboxAppend" \in Effects(w, t) /\ "StorageWrite" \in UndeclaredEffects(t.method)
    BY StandardCall DEF StateInv, StandardEffects, UndeclaredEffects
<1>3. v.contracts = w.contracts /\ v.storage = u.storage
    BY <1>1, Zenon DEF Framed, SameElse, Appended
<1>4. Declared(w, v, AllowedEffects(w, t))
    BY <1>1, <1>2, Zenon DEF Declared, Framed, SameElse, Appended, AllowedEffects
<1>5. ASSUME NEW key PROVE Same(w, v, key) \/ key[2] \in AllowedOwners(w, v, t)
  <2>1. Same(w, u, key) \/ key[2] \in Deployed(w, "Token") \cup Deployed(w, "AspectModule")
    BY <1>1, Zenon DEF Framed, LedgerKey, CalledLedgers
  <2>2. QED
    BY <1>3, <2>1, Zenon DEF Same, Deployed, AllowedOwners
<1>6. QED
    BY <1>4, <1>5, Zenon DEF CallDeclared, WritesOnly

(* Neither a token nor a pool comes with a grant.                          *)
LEMMA LaunchRegistry ==
    ASSUME NEW w, StateInv(w), NEW t
    PROVE  /\ DeployTokenFromFactory(w, t).w.registry = w.registry
           /\ DeployAmmPoolFromFactory(w, t).w.registry = w.registry
<1>1. DOMAIN w = Fields
    BY StateFields, Zenon DEF StateInv, WellFormed
<1>2. \A v, entries : DOMAIN v = Fields => /\ DOMAIN Written(v, entries) = Fields
                                           /\ Written(v, entries).registry = v.registry
    BY Zenon DEF Written, Fields
<1>3. \A kind, policies : LET v == Insert(w, t.contract, kind, policies)
                          IN  DOMAIN v = Fields /\ v.registry = w.registry
    BY <1>1, ZenonT(30) DEF Insert, Fields
<1>4. DeployAmmPoolFromFactory(w, t).w.registry = w.registry
    BY <1>2, <1>3 DEF DeployAmmPoolFromFactory, DeployAmmPool, DeployAmmPoolWithParameters,
                      Require, Ok, Err
<1>5. DeployTokenFromFactory(w, t).w.registry = w.registry
  <2> DEFINE c == t.contract
             balances == <<<<t.to, t.amount>>>>
             owners == {balances[i][1] : i \in DOMAIN balances}
             total == SumFunction([i \in DOMAIN balances |-> balances[i][2]])
             opening == [key \in {<<"Balance", c, owner>> : owner \in owners} |->
                            balances[CHOOSE i \in DOMAIN balances : balances[i][1] = key[3]][2]]
             inserted == Insert(w, c, [name |-> "Token", asset |-> t.asset], TokenPolicies)
             deployed == Written(Written(inserted, opening), Entry(<<"TotalSupply", c>>, total))
             o == DeployTokenFromFactory(w, t)
  <2>1. \/ o = Err(w)
        \/ o = Require(TokenInvariantsHold(deployed, c), deployed, Ok(deployed))
    BY Zenon DEF DeployTokenFromFactory, DeployToken, Require, StateSet
  <2>2. DOMAIN inserted = Fields /\ inserted.registry = w.registry
    BY <1>3
  <2> HIDE DEF inserted, opening, total, o
  <2>3. deployed.registry = w.registry
    BY <1>2, <2>2, Zenon
  <2> HIDE DEF deployed
  <2>4. QED
    BY <2>1, <2>3 DEF Require, Ok, Err, o
<1>6. QED
    BY <1>4, <1>5, Zenon

LEMMA LaunchedDeclared ==
    ASSUME NEW w, StateInv(w), NEW t \in Transactions, Callable(w, t), t.method \in LaunchMethods,
           NEW v, Launched(w, v, t.contract),
           t.method # "DeployAspectContract" => v.registry = w.registry
    PROVE  CallDeclared(w, v, t)
<1>1. PICK u : Added(w, u, t.contract) /\ Framed({}, u, v)
    BY Zenon DEF Launched
<1>2. /\ "ContractDeploy" \in Effects(w, t)
      /\ "StorageWrite" \in AllowedEffects(w, t)
      /\ t.method = "DeployAspectContract" => "RegistryWrite" \in AllowedEffects(w, t)
    BY StandardCall DEF StateInv, StandardEffects, LaunchMethods, UndeclaredEffects, AllowedEffects
<1>3. v.contracts = u.contracts
    BY <1>1, Zenon DEF Framed, SameElse
<1>4. Declared(w, v, AllowedEffects(w, t))
  <2>1. \A c \in DOMAIN w.contracts : v.contracts[c] = w.contracts[c]
    BY <1>1, <1>3, Zenon DEF Added
  <2>2. v.registry = w.registry \/ "RegistryWrite" \in AllowedEffects(w, t)
    BY <1>2, Zenon
  <2>3. /\ v.paused_contracts = w.paused_contracts /\ v.aspect_modules = w.aspect_modules
        /\ v.scheduled_upgrades = w.scheduled_upgrades
        /\ v.scheduled_policy_updates = w.scheduled_policy_updates
        /\ v.cross_shard_outbox = w.cross_shard_outbox
    BY <1>1, Zenon DEF Framed, SameElse, Added
  <2>4. "ContractDeploy" \in AllowedEffects(w, t)
    BY <1>2, Zenon DEF AllowedEffects
  <2>5. QED
    BY <1>2, <2>1, <2>2, <2>3, <2>4, Zenon DEF Declared
<1>5. ASSUME NEW key PROVE Same(w, v, key) \/ key[2] \in AllowedOwners(w, v, t)
  <2>1. Same(u, v, key) \/ key[2] \in Deployed(u, "Token") \cup Deployed(u, "AspectModule")
    BY <1>1, Zenon DEF Framed, LedgerKey, CalledLedgers
  <2>2. Same(w, u, key) \/ key[2] \in DOMAIN u.contracts \ DOMAIN w.contracts
    BY <1>1, Zenon DEF Added
  <2>3. QED
    BY <1>3, <2>1, <2>2, Zenon DEF Same, Deployed, AllowedOwners
<1>6. QED
    BY <1>4, <1>5, Zenon DEF CallDeclared, WritesOnly

(* Of an execution, the contract's code or a policy changes, and which     *)
(* changes are scheduled does not.                                         *)
LEMMA AmendedDeclared ==
    ASSUME NEW w, NEW v, NEW effects, NEW fields,
           fields = {"contracts", "scheduled_upgrades"}
               \/ fields = {"contracts", "scheduled_policy_updates"},
           Changes(w, v, fields),
           DOMAIN v.contracts = DOMAIN w.contracts,
           DOMAIN v.scheduled_upgrades = DOMAIN w.scheduled_upgrades,
           DOMAIN v.scheduled_policy_updates = DOMAIN w.scheduled_policy_updates,
           \/ "ContractCodeUpgrade" \in effects
           \/ \A c \in DOMAIN w.contracts : v.contracts[c].code_hash = w.contracts[c].code_hash,
           \/ "MethodPolicyUpdate" \in effects
           \/ \A c \in DOMAIN w.contracts :
                 v.contracts[c].method_policies = w.contracts[c].method_policies
    PROVE  Declared(w, v, effects)
<1>1. /\ v.storage = w.storage /\ v.registry = w.registry
      /\ v.paused_contracts = w.paused_contracts /\ v.aspect_modules = w.aspect_modules
      /\ v.cross_shard_outbox = w.cross_shard_outbox
    BY Zenon DEF Changes, Fields
<1>2. QED
    BY <1>1, Zenon DEF Declared

LEMMA UpgradeDeclared ==
    ASSUME NEW w, StateInv(w), NEW t, ExecuteUpgrade(w, t).ok,
           NEW effects, "ContractCodeUpgrade" \in effects
    PROVE  Declared(w, ExecuteUpgrade(w, t).w, effects)
<1> DEFINE v == ExecuteUpgrade(w, t).w
<1>1. /\ Changes(w, v, {"contracts", "scheduled_upgrades"})
      /\ Executing(w, t, t.id, w.scheduled_upgrades, v.scheduled_upgrades)
      /\ Administered(w, v)
      /\ \A c \in DOMAIN w.contracts :
            v.contracts[c].method_policies = w.contracts[c].method_policies
    BY ExecuteUpgradeOutcome, Zenon
<1> HIDE DEF v
<1>2. /\ DOMAIN v.scheduled_upgrades = DOMAIN w.scheduled_upgrades
      /\ DOMAIN v.contracts = DOMAIN w.contracts
    BY <1>1, Zenon DEF Executing, Administered
<1>3. v.scheduled_policy_updates = w.scheduled_policy_updates
    BY <1>1, Zenon DEF Changes, Fields
<1>4. Declared(w, v, effects)
    BY <1>1, <1>2, <1>3, AmendedDeclared, Zenon
<1>5. QED
    BY <1>4, Zenon DEF v

LEMMA UpdateDeclared ==
    ASSUME NEW w, StateInv(w), NEW t, ExecutePolicyUpdate(w, t).ok,
           NEW effects, "MethodPolicyUpdate" \in effects
    PROVE  Declared(w, ExecutePolicyUpdate(w, t).w, effects)
<1> DEFINE v == ExecutePolicyUpdate(w, t).w
           target == w.scheduled_policy_updates[t.id].target
<1>1. /\ Changes(w, v, {"contracts", "scheduled_policy_updates"})
      /\ Executing(w, t, t.id, w.scheduled_policy_updates, v.scheduled_policy_updates)
      /\ Amended(w, v, target) /\ v.contracts[target].code_hash = w.contracts[target].code_hash
    BY ExecutePolicyUpdateOutcome, Zenon
<1> HIDE DEF v, target
<1>2. /\ DOMAIN v.scheduled_policy_updates = DOMAIN w.scheduled_policy_updates
      /\ DOMAIN v.contracts = DOMAIN w.contracts
      /\ \A c \in DOMAIN w.contracts : v.contracts[c].code_hash = w.contracts[c].code_hash
    BY <1>1, Zenon DEF Executing, Amended
<1>3. v.scheduled_upgrades = w.scheduled_upgrades
    BY <1>1, Zenon DEF Changes, Fields
<1>4. Declared(w, v, effects)
    BY <1>1, <1>2, <1>3, AmendedDeclared, Zenon
<1>5. QED
    BY <1>4, Zenon DEF v

LEMMA AdministeredDeclared ==
    ASSUME NEW w, StateInv(w), NEW t \in Transactions, Callable(w, t), t.method \in AdminMethods,
           Dispatch(w, t).ok
    PROVE  CallDeclared(w, Dispatch(w, t).w, t)
<1> DEFINE o == Dispatch(w, t)
           v == o.w
           effects == AllowedEffects(w, t)
<1>1. Changes(w, v, AdminFields(t.method)) /\ Administered(w, v)
    BY AdminCall, Zenon DEF AdminCalled
<1>2. t.method \in DOMAIN StandardEffects /\ StandardEffects[t.method] \in effects
  <2>1. t.method \in DOMAIN StandardEffects
    BY Zenon DEF AdminMethods, StandardEffects
  <2>2. QED
    BY <2>1, StandardCall, Zenon DEF StateInv, AllowedEffects
<1>3. Declared(w, v, effects)
  <2>1. CASE t.method = "ExecuteUpgrade"
    <3>1. o = ExecuteUpgrade(w, t) /\ "ContractCodeUpgrade" \in effects
      BY <1>2, <2>1 DEF Dispatch, StandardEffects
    <3>2. QED
      BY <3>1, UpgradeDeclared, Zenon
  <2>2. CASE t.method = "ExecutePolicyUpdate"
    <3>1. o = ExecutePolicyUpdate(w, t) /\ "MethodPolicyUpdate" \in effects
      BY <1>2, <2>2 DEF Dispatch, StandardEffects
    <3>2. QED
      BY <3>1, UpdateDeclared, Zenon
  <2> HIDE DEF o, v, effects
  <2>3. CASE t.method \in {"PauseContract", "UnpauseContract"}
    <3>1. Changes(w, v, {"paused_contracts"}) /\ "ContractPause" \in effects
      BY <1>1, <1>2, <2>3 DEF AdminFields, StandardEffects
    <3>2. QED
      BY <3>1, ZenonT(30) DEF Changes, Fields, Declared
  <2>4. CASE t.method = "ScheduleUpgrade"
    <3>1. Changes(w, v, {"scheduled_upgrades"}) /\ "UpgradeSchedule" \in effects
      BY <1>1, <1>2, <2>4 DEF AdminFields, StandardEffects
    <3>2. QED
      BY <3>1, ZenonT(30) DEF Changes, Fields, Declared
  <2>5. CASE t.method = "SchedulePolicyUpdate"
    <3>1. Changes(w, v, {"scheduled_policy_updates"}) /\ "PolicyUpdateSchedule" \in effects
      BY <1>1, <1>2, <2>5 DEF AdminFields, StandardEffects
    <3>2. QED
      BY <3>1, ZenonT(30) DEF Changes, Fields, Declared
  <2>6. CASE t.method = "SubmitAspectModule"
    <3>1. Changes(w, v, {"aspect_modules"}) /\ "ModuleRegister" \in effects
      BY <1>1, <1>2, <2>6 DEF AdminFields, StandardEffects
    <3>2. QED
      BY <3>1, ZenonT(30) DEF Changes, Fields, Declared
  <2>7. CASE t.method \in {"RegisterAccountKey", "RevokeAccountKey"}
    <3>1. Changes(w, v, {"registry"}) /\ "RegistryWrite" \in effects
      BY <1>1, <1>2, <2>7 DEF AdminFields, StandardEffects
    <3>2. QED
      BY <3>1, ZenonT(30) DEF Changes, Fields, Declared
  <2>8. QED
    BY <2>1, <2>2, <2>3, <2>4, <2>5, <2>6, <2>7, Zenon DEF AdminMethods
<1> HIDE DEF o, v, effects
<1>4. WritesOnly(w, v, AllowedOwners(w, v, t))
    BY <1>1, Zenon DEF WritesOnly, Same, Administered
<1>5. QED
    BY <1>3, <1>4, Zenon DEF CallDeclared, o, v, effects

LEMMA CallsDeclared ==
    ASSUME NEW w, StateInv(w), NEW t \in Transactions, ExecuteCall(w, t).ok
    PROVE  CallDeclared(w, ExecuteCall(w, t).w, t)
<1> DEFINE o == Dispatch(w, t)
<1>1. Callable(w, t) /\ ExecuteCall(w, t) = o /\ o.ok
    BY CallState, Zenon
<1>2. CASE t.method \in FramedMethods
  <2>1. FramedOutcome(Scope(w, t), w, o)
    BY <1>1, <1>2, FramedCalls, Zenon DEF FramedCall
  <2> HIDE DEF o
  <2>2. Framed(Scope(w, t), w, o.w)
    BY <1>1, <2>1, Zenon DEF FramedOutcome
  <2>3. QED
    BY <1>1, <1>2, <2>2, FramedDeclared, Zenon
<1>3. CASE t.method = "QueueBridgeMessage"
    BY <1>1, <1>3, QueueCall, QueuedDeclared, Zenon
<1>4. CASE t.method \in LaunchMethods
  <2>1. Launched(w, o.w, t.contract)
    BY <1>1, <1>4, LaunchCall, Zenon
  <2>2. t.method # "DeployAspectContract" => o.w.registry = w.registry
    <3>1. t.method = "DeployToken" => o = DeployTokenFromFactory(w, t)
      BY Zenon DEF Dispatch
    <3>2. t.method = "DeployAmmPool" => o = DeployAmmPoolFromFactory(w, t)
      BY Zenon DEF Dispatch
    <3>3. QED
      BY <1>4, <3>1, <3>2, LaunchRegistry DEF LaunchMethods
  <2> HIDE DEF o
  <2>3. QED
    BY <1>1, <1>4, <2>1, <2>2, LaunchedDeclared, Zenon
<1>5. CASE t.method \in AdminMethods
    BY <1>1, <1>5, AdministeredDeclared, Zenon
<1>6. QED
    BY <1>2, <1>3, <1>4, <1>5, MethodsCovered, Zenon

(* What a call that succeeds changes, the policy of its method declares,   *)
(* but for the effects two manifests leave out, and it writes the storage  *)
(* of no contract but the called one, the ledgers and what it deploys: for *)
(* every call in every reachable state.                                    *)
THEOREM EffectsHold == Spec => []EffectsAreDeclared
<1>1. IInv => EffectsAreDeclared
  <2> SUFFICES ASSUME StateInv(state), NEW t \in Transactions, ExecuteCall(state, t).ok
               PROVE  LET v == ExecuteCall(state, t).w
                      IN  /\ ObservedEffects(state, v) \subseteq AllowedEffects(state, t)
                          /\ WrittenContracts(state, v) \subseteq AllowedOwners(state, v, t)
    BY Zenon DEF IInv, EffectsAreDeclared, AllowedEffects, AllowedOwners, Effects
  <2>1. CallDeclared(state, ExecuteCall(state, t).w, t)
    BY CallsDeclared, Zenon
  <2>2. QED
    BY <2>1, DeclaredObserved, WrittenOnly, Zenon DEF CallDeclared
<1>2. QED
    BY <1>1, Invariant, PTL

=============================================================================
