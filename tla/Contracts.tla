----------------------------- MODULE Contracts -----------------------------
(***************************************************************************)
(* The contract families of detta-core composed: one state, to which       *)
(* blocks of transactions are applied.  execute_call checks and dispatches *)
(* a call; apply_transaction keeps its effects or restores the checkpoint. *)
(*                                                                         *)
(* Left to Executor: signatures, expiry, nonces, budgets, reentrancy, and  *)
(* the token's approve, transfer_from and permit.  Blocks have consecutive *)
(* heights, as a node that proposes them gives them.                       *)
(***************************************************************************)
EXTENDS AmmPool, LendingVault, Staking, Bridge, Governance, Factory, StateLint

CONSTANTS
    Geneses,          \* the states a chain may start from
    Transactions,     \* the calls that may be applied
    MaxCommitted,     \* bound: committed transactions in a behaviour
    LastHeight        \* bound: the last block's height

VARIABLES
    state,      \* DeTTaState
    receipt,    \* the status of the last transaction
    history     \* what happened, for the properties: no operation reads it

vars == <<state, receipt, history>>

(* The methods Dispatch knows, and those that take an amount.              *)
AspectMethods == {"ERC20_initialize", "ERC20_transfer"}
DispatchedMethods ==
    {"Transfer", "AddLiquidity", "Swap", "SubmitPrice", "QueueBridgeMessage",
     "RedeemBridgeMessage", "PauseContract", "UnpauseContract", "ScheduleUpgrade",
     "ExecuteUpgrade", "SchedulePolicyUpdate", "ExecutePolicyUpdate", "DepositCollateral",
     "Borrow", "Liquidate", "Stake", "Unstake", "RequestUnstake", "CompleteUnstake",
     "ClaimStakingRewards", "DeployToken", "DeployAmmPool", "SubmitAspectModule",
     "DeployAspectContract", "RegisterAccountKey", "RevokeAccountKey"} \cup AspectMethods

AmountMethods ==
    {"Transfer", "AddLiquidity", "Swap", "QueueBridgeMessage", "RedeemBridgeMessage",
     "DepositCollateral", "Borrow", "Liquidate", "Stake", "Unstake", "RequestUnstake",
     "CompleteUnstake", "DeployToken"} \cup AspectMethods

(* Amounts are unsigned, and the verifier has seen to the policies of a    *)
(* module whose source it accepts.                                         *)
ASSUME TransactionsAssumption ==
    \A t \in Transactions :
        /\ {"target", "method"} \subseteq DOMAIN t
        /\ t.method \in DispatchedMethods
        /\ t.method \in AmountMethods => t.amount \in Nat
        /\ t.method = "AddLiquidity" => t.amount_b \in Nat
        /\ t.method = "SubmitPrice" => t.price \in Nat /\ t.timestamp \in Nat
        /\ t.method = "DeployAspectContract" =>
              \/ t.initializer = ""
              \/ t.initializer \in AspectMethods /\ "amount" \in DOMAIN t /\ t.amount \in Nat
        /\ t.method = "SubmitAspectModule" /\ t.module.has_ir /\ t.module.verified =>
              \A b \in DOMAIN t.module.bundles : AspectExports(t.module.bundles[b])

-----------------------------------------------------------------------------
(* execute_call.                                                           *)

EnforceMethodAuthority(w, t, policy) ==
    CASE policy.authority = "OracleUpdaterGrant" -> HasGrant(w, <<"OracleUpdater", t.target, t.sender>>)
      [] policy.authority = "GovernanceAdminGrant" ->
            HasGrant(w, <<"GovernanceAdmin", t.target, t.sender>>)
      [] OTHER -> TRUE

Callable(w, t) ==
    /\ t.target \in DOMAIN w.contracts
    /\ t.method \in DOMAIN Contract(w, t.target).method_policies
    /\ EnforceMethodAuthority(w, t, Contract(w, t.target).method_policies[t.method])
    /\ t.target \notin w.paused_contracts

ExecuteAspectModuleMethod(w, t) ==
    CASE t.method = "ERC20_initialize" -> AspectInitialize(w, t.target, t.to, t.amount)
      [] t.method = "ERC20_transfer" -> AspectTransfer(w, t.target, t.sender, t.to, t.amount)

(* The call with which the factory initializes what it has deployed.       *)
CallInitializer(w, t) ==
    LET init == [t EXCEPT !.target = t.contract, !.method = t.initializer]
    IN  IF t.initializer = "" THEN Ok(w)
        ELSE Require(Callable(w, init), w, ExecuteAspectModuleMethod(w, init))

DeployAndInitialize(w, t) ==
    LET deployed == DeployAspectContractFromFactory(w, t)
    IN  IF deployed.ok THEN CallInitializer(deployed.w, t) ELSE deployed

Dispatch(w, t) ==
    CASE t.method = "Transfer" -> TransferNative(w, t.target, t.sender, t.to, t.amount)
      [] t.method = "AddLiquidity" -> AddLiquidity(w, t)
      [] t.method = "Swap" -> Swap(w, t)
      [] t.method = "SubmitPrice" -> SubmitPrice(w, t)
      [] t.method = "QueueBridgeMessage" -> QueueBridgeMessage(w, t)
      [] t.method = "RedeemBridgeMessage" -> RedeemBridgeMessage(w, t)
      [] t.method = "PauseContract" -> PauseContract(w, t)
      [] t.method = "UnpauseContract" -> UnpauseContract(w, t)
      [] t.method = "ScheduleUpgrade" -> ScheduleUpgrade(w, t)
      [] t.method = "ExecuteUpgrade" -> ExecuteUpgrade(w, t)
      [] t.method = "SchedulePolicyUpdate" -> SchedulePolicyUpdate(w, t)
      [] t.method = "ExecutePolicyUpdate" -> ExecutePolicyUpdate(w, t)
      [] t.method = "DepositCollateral" -> DepositCollateral(w, t)
      [] t.method = "Borrow" -> Borrow(w, t)
      [] t.method = "Liquidate" -> Liquidate(w, t)
      [] t.method = "Stake" -> Stake(w, t)
      [] t.method = "Unstake" -> Unstake(w, t)
      [] t.method = "RequestUnstake" -> RequestUnstake(w, t)
      [] t.method = "CompleteUnstake" -> CompleteUnstake(w, t)
      [] t.method = "ClaimStakingRewards" -> ClaimStakingRewards(w, t)
      [] t.method = "DeployToken" -> DeployTokenFromFactory(w, t)
      [] t.method = "DeployAmmPool" -> DeployAmmPoolFromFactory(w, t)
      [] t.method = "SubmitAspectModule" -> SubmitAspectModuleFromFactory(w, t)
      [] t.method = "DeployAspectContract" -> DeployAndInitialize(w, t)
      [] t.method = "RegisterAccountKey" -> RegisterAccountKey(w, t)
      [] t.method = "RevokeAccountKey" -> RevokeAccountKey(w, t)
      [] OTHER -> ExecuteAspectModuleMethod(w, t)

ExecuteCall(w, t) == Require(Callable(w, t), w, Dispatch(w, t))

(* Mutant: storage keeps what was written before the error.                *)
RolledBackButStorage(before, dirty) ==
    [dirty EXCEPT !.contracts = before.contracts, !.registry = before.registry]

(* The fields apply_transaction restores after an error.                   *)
RolledBack(before, dirty) ==
    [dirty EXCEPT !.contracts = before.contracts, !.aspect_modules = before.aspect_modules,
                  !.storage = before.storage, !.registry = before.registry,
                  !.paused_contracts = before.paused_contracts,
                  !.scheduled_upgrades = before.scheduled_upgrades,
                  !.scheduled_policy_updates = before.scheduled_policy_updates,
                  !.outbound_message_ids = before.outbound_message_ids,
                  !.cross_shard_outbox = before.cross_shard_outbox]

-----------------------------------------------------------------------------
(* What the properties need to remember.                                   *)

At(f, key) == IF key \in DOMAIN f THEN f[key] ELSE 0
Plus(f, key, amount) == IF amount = 0 THEN f ELSE Over(Entry(key, At(f, key) + amount), f)

NoHistory ==
    [committed |-> 0,           \* transactions committed
     earned |-> Nothing,        \* by contract and staker: stake x reward rate x blocks
     claimed |-> Nothing,       \* by contract and staker: rewards paid out
     requested |-> Nothing,     \* by contract, staker and height: put to unbonding
     completed |-> Nothing,     \* by contract and staker: unbonded and paid out
     redeemed |-> Nothing,      \* by bridge and message id: times paid
     scheduled |-> Nothing]     \* by kind and id of change: the height it was scheduled

Remember(h, w, v, t) ==
    LET c == t.target
        key == <<c, t.sender>>
        paid(asset) == Holding(v, asset, t.sender) - Holding(w, asset, t.sender)
        pending(u) == PendingUnbond(u, c, t.sender)
        n == [h EXCEPT !.committed = @ + 1]
    IN  CASE t.method = "ClaimStakingRewards" ->
                [n EXCEPT !.claimed = Plus(@, key, paid(t.asset))]
          [] t.method = "RequestUnstake" ->
                [n EXCEPT !.requested = Plus(@, <<c, t.sender, w.height>>, pending(v) - pending(w))]
          [] t.method = "CompleteUnstake" ->
                [n EXCEPT !.completed = Plus(@, key, paid(t.asset))]
          [] t.method = "RedeemBridgeMessage" ->
                [n EXCEPT !.redeemed = Plus(@, <<c, t.id>>, 1)]
          [] t.method \in {"ScheduleUpgrade", "SchedulePolicyUpdate"} ->
                [n EXCEPT !.scheduled = Over(Entry(<<t.method, t.id>>, w.height), @)]
          [] OTHER -> n

-----------------------------------------------------------------------------
Init ==
    /\ state \in Geneses
    /\ receipt = "none"
    /\ history = NoHistory

Commit(t) ==
    LET outcome == ExecuteCall(state, t)
    IN  /\ history.committed < MaxCommitted
        /\ outcome.ok
        /\ state' = outcome.w
        /\ receipt' = "committed"
        /\ history' = Remember(history, state, outcome.w, t)

Revert(t) ==
    LET outcome == ExecuteCall(state, t)
    IN  /\ history.committed < MaxCommitted
        /\ ~outcome.ok
        /\ state' = RolledBack(state, outcome.w)
        /\ receipt' = "reverted"
        /\ UNCHANGED history

(* A block of the next height; every staker has then been staked through   *)
(* one more block.                                                         *)
StartBlock ==
    /\ state.height < LastHeight
    /\ state' = [state EXCEPT !.height = @ + 1]
    /\ receipt' = "none"
    /\ history' = [history EXCEPT !.earned =
                     LET stakes == {key \in DOMAIN state.storage : key[1] = "StakeBalance"}
                     IN  [k \in {<<key[2], key[3]>> : key \in stakes} |->
                            At(@, k) + StakeBalance(state, k[1], k[2])
                                       * Kind(state, k[1]).reward_per_block]]

Next == (\E t \in Transactions : Commit(t) \/ Revert(t)) \/ StartBlock

Spec == Init /\ [][Next]_vars

-----------------------------------------------------------------------------
(* Properties.                                                             *)

HasActiveOracleUpdater(w, c) ==
    \E g \in DOMAIN w.registry : g[1] = "OracleUpdater" /\ g[2] = c /\ HasGrant(w, g)

HasActiveGovernanceAdmin(w, c) ==
    \E g \in DOMAIN w.registry : g[1] = "GovernanceAdmin" /\ g[2] = c /\ HasGrant(w, g)

OutboundMessagesAreUnique(w) ==
    \A i, j \in DOMAIN w.cross_shard_outbox : i # j =>
        w.cross_shard_outbox[i].message_id # w.cross_shard_outbox[j].message_id

AccountSignerKeysCanonical(w) ==
    \A g \in DOMAIN w.registry : g[1] = "AccountSigner" => g[3].canonical

(* The roots of an aspect contract are those of its module.                *)
FactoryDeploymentsDeclarePolicies(w) ==
    \A c \in DOMAIN w.contracts :
        IF Kind(w, c).name = "AspectModule" THEN w.aspect_modules[Kind(w, c).module_hash].complete
        ELSE DOMAIN Contract(w, c).method_policies # {}

(* declared_invariant_holds, for the invariants that the manifest of a     *)
(* contract of each kind declares.                                         *)
DeclaredInvariantsHold(w, c) ==
    CASE Kind(w, c).name = "Token" -> TokenInvariantsHold(w, c)
      [] Kind(w, c).name = "AmmPool" ->
            Kind(w, c).asset_a # Kind(w, c).asset_b /\ AmmInvariantsHold(w, c)
      [] Kind(w, c).name = "Oracle" -> HasActiveOracleUpdater(w, c)
      [] Kind(w, c).name = "Bridge" -> OutboundMessagesAreUnique(w)
      [] Kind(w, c).name = "Governance" ->
            Kind(w, c).timelock_delay > 0 /\ HasActiveGovernanceAdmin(w, c)
      [] Kind(w, c).name = "LendingVault" -> LendingInvariantsHold(w, c)
      [] Kind(w, c).name = "Staking" ->
            StakingInvariantsHold(w, c) /\ StakingPendingUnbondingInvariantsHold(w, c)
      [] Kind(w, c).name = "Factory" -> FactoryDeploymentsDeclarePolicies(w)
      [] Kind(w, c).name = "AccountRegistry" -> AccountSignerKeysCanonical(w)
      [] OTHER -> TRUE

(* check_declared_invariants: the contracts with a failing invariant.      *)
CheckDeclaredInvariants(w) == {c \in DOMAIN w.contracts : ~DeclaredInvariantsHold(w, c)}

(* rehearse_scheduled_upgrade: what an operator is told an upgrade would   *)
(* do if it were executed now, or nothing.                                 *)
RehearseScheduledUpgrade(w, id) ==
    LET upgrade == w.scheduled_upgrades[id]
        governance == Kind(w, upgrade.governance)
        rehearsed == [w EXCEPT !.contracts[upgrade.target].code_hash = upgrade.new_code_hash]
    IN  IF /\ id \in DOMAIN w.scheduled_upgrades /\ ~upgrade.executed
           /\ upgrade.governance \in DOMAIN w.contracts
           /\ governance.name = "Governance" /\ governance.governed = upgrade.target
           /\ upgrade.target \in DOMAIN w.contracts
        THEN {[ready_at_height |-> w.height >= upgrade.execute_after_height,
               invariant_failures |-> CheckDeclaredInvariants(rehearsed), state |-> rehearsed]}
        ELSE {}

(* What the contract c owes to others of an asset.                         *)
Claims(w, c, asset) ==
    LET k == Kind(w, c)
        queued == {i \in DOMAIN w.cross_shard_outbox :
                      /\ w.cross_shard_outbox[i].source_contract = c
                      /\ w.cross_shard_outbox[i].asset = asset}
    IN  CASE k.name = "AmmPool" -> Reserve(w, c, asset)
          [] k.name = "Staking" /\ k.asset = asset ->
                TotalStaked(w, c) + TotalPendingUnbond(w, c)
                    + StakingPenaltyCollected(w, c)
          [] k.name = "LendingVault" /\ k.collateral_asset = asset -> SumOver(w, "Collateral", c)
          [] k.name = "Bridge" -> MapThenSumSet(LAMBDA i : w.cross_shard_outbox[i].amount, queued)
          [] OTHER -> 0

HeldAssets(w) ==
    {Kind(w, c).asset : c \in Deployed(w, "Token")}
        \cup {c \in Deployed(w, "AspectModule") : AspectLedgers(w, c) # {}}

(* A pool holds its reserves, a staking contract its stakes, its unbonding *)
(* amounts and its penalties, a vault its collateral, and a bridge what it *)
(* has queued: the books of the handlers and the ledgers they call agree,  *)
(* whatever fails in between.                                              *)
CustodyCoversClaims ==
    \A c \in DOMAIN state.contracts, asset \in HeldAssets(state) :
        Holding(state, asset, c) >= Claims(state, c, asset)

(* After every transaction the invariants the manifests declare hold, also *)
(* those the handler of that transaction does not check itself.  One of    *)
(* them is excepted: the limit of a vault's loans, which submit_price does *)
(* not look at (LoansStayWithinLimit has what holds of it).  The lint      *)
(* finds nothing but that an aspect module declares no invariants and that *)
(* one registered without its source exports nothing.                      *)
LintedClean(w) ==
    \A error \in LintState(w) :
        /\ error[1] \in {"ContractHasNoDeclaredInvariants", "ContractHasNoExports"}
        /\ error[2] \in Deployed(w, "AspectModule")
ManifestsAreTrue ==
    CheckDeclaredInvariants(state) \subseteq Deployed(state, "LendingVault") /\ LintedClean(state)

(* A chain starts from a state whose manifests are true, in which nothing  *)
(* is staked, scheduled or queued yet.                                     *)
ASSUME GenesesAssumption ==
    \A w \in Geneses :
        /\ WellFormed(w) /\ CheckDeclaredInvariants(w) = {} /\ LintedClean(w)
        /\ w.scheduled_upgrades = Nothing /\ w.scheduled_policy_updates = Nothing
        /\ w.cross_shard_outbox = <<>>
        /\ \A key \in DOMAIN w.storage :
              key[1] \notin {"StakeBalance", "StakingRewardBalance", "StakingLastRewardHeight"}

(* What a staker was paid, has booked and has still to accrue is exactly   *)
(* the sum over the blocks of its stake at that block: accrual at each     *)
(* change of the stake loses nothing and pays nothing twice.               *)
RewardsMatchStakeTime ==
    \A c \in Deployed(state, "Staking") :
        \A p \in {key[2] : key \in DOMAIN history.earned} :
            At(history.earned, <<c, p>>) =
                At(history.claimed, <<c, p>>)
                    + StakingRewardBalance(state, c, p) + Accrued(state, c, p)

(* Nothing leaves a staking contract with an unbonding delay sooner than   *)
(* that delay after it was put to unbonding, however requests and          *)
(* completions alternate.                                                  *)
UnbondingDelayRespected ==
    \A key \in DOMAIN history.completed :
        LET due == {r \in DOMAIN history.requested :
                       /\ r[1] = key[1] /\ r[2] = key[2]
                       /\ r[3] + Kind(state, key[1]).unbonding_delay <= state.height}
        IN  history.completed[key] <= MapThenSumSet(LAMBDA r : history.requested[r], due)

(* A bridge pays a message once, whichever proofs of it arrive.            *)
RedeemedOnce == \A key \in DOMAIN history.redeemed : history.redeemed[key] = 1

(* The product of a pool's reserves never falls: the rounding of a swap,   *)
(* its fee and its order of reads are never against the providers.         *)
PoolProductNeverFalls ==
    [][\A c \in Deployed(state, "AmmPool") : PoolProduct(state', c) >= PoolProduct(state, c)]_vars

(* What the lenders of a vault own, its cash, the debts owed to it with    *)
(* their interest so far and the bad debt it has written off, never        *)
(* shrinks: a loan is booked as it is paid, interest is not lost when it   *)
(* is accrued, and a liquidation forgives nothing without recording it.    *)
LenderAssets(w, c) ==
    LET borrowers == {key[3] : key \in {k \in DOMAIN w.storage : k[1] = "Debt" /\ k[2] = c}}
    IN  Holding(w, Kind(w, c).debt_asset, c) + SumOver(w, "Debt", c)
            + MapThenSumSet(LAMBDA b : Interest(w, c, b), borrowers) + BadDebt(w, c)
LenderAssetsNeverShrink ==
    [][\A c \in Deployed(state, "LendingVault") : LenderAssets(state', c) >= LenderAssets(state, c)]_vars

(* The debts of a vault stay within its loan-to-value limit, its declared  *)
(* invariant, until its oracle stores another price: no loan, interest     *)
(* charged with one, deposit or liquidation of one borrower takes another  *)
(* or the same debt over it.  (A deposit so large that its value is no     *)
(* longer a u128 also fails the check of the invariant.)                   *)
CollateralValuesFit(w, c) ==
    \A key \in DOMAIN w.storage : key[1] = "Collateral" /\ key[2] = c =>
        LimitFits(w.storage[key], CollateralPrice(w, Kind(w, c)), Kind(w, c).ltv_bps)
LoansStayWithinLimit ==
    [][\A c \in Deployed(state, "LendingVault") \ CheckDeclaredInvariants(state) :
          /\ CollateralPrice(state', Kind(state, c)) = CollateralPrice(state, Kind(state, c))
          /\ CollateralValuesFit(state', c)
          => c \notin CheckDeclaredInvariants(state')]_vars

(* While a contract is paused it stands still: none of its storage changes,*)
(* it queues no message, and it neither schedules nor executes a change.   *)
(* That holds for an aspect token too, which pools and vaults move through *)
(* calls.  The ledger of a native token is the exception: they write its   *)
(* balances and its supply directly, and execute_call is not asked.        *)
DirectlyWritten(w, key) ==
    Kind(w, key[2]).name = "Token" /\ key[1] \in {"Balance", "TotalSupply"}
ChangesOf(changes, c) == {<<id, changes[id]>> : id \in {i \in DOMAIN changes : changes[i].governance = c}}
PausedContractsStandStill ==
    [][\A c \in state.paused_contracts \cap DOMAIN state.contracts :
          /\ \A key \in DOMAIN state'.storage : key[2] = c =>
                UintAt(state', key) = UintAt(state, key) \/ DirectlyWritten(state, key)
          /\ \A i \in DOMAIN state'.cross_shard_outbox \ DOMAIN state.cross_shard_outbox :
                state'.cross_shard_outbox[i].source_contract # c
          /\ ChangesOf(state'.scheduled_upgrades, c) = ChangesOf(state.scheduled_upgrades, c)
          /\ ChangesOf(state'.scheduled_policy_updates, c)
                = ChangesOf(state.scheduled_policy_updates, c)]_vars

(* The code hash and the declared effects of a contract change only by a   *)
(* change that was scheduled by its governance contract, at least that     *)
(* contract's delay before, and that was not executed before; an upgrade   *)
(* that is executed was rehearsed as ready, with no failing invariant but  *)
(* the limit of a vault's loans, and leaves the contracts and the storage  *)
(* as its rehearsal had them.                                              *)
ExecutedNow(before, after, c) ==
    {id \in DOMAIN before : before[id].target = c /\ ~before[id].executed /\ after[id].executed}
TimelockRespected ==
    [][\A c \in DOMAIN state.contracts :
          LET upgrades == ExecutedNow(state.scheduled_upgrades, state'.scheduled_upgrades, c)
              updates == ExecutedNow(state.scheduled_policy_updates,
                                     state'.scheduled_policy_updates, c)
              delay(change) == Kind(state, change.governance).timelock_delay
          IN  /\ Contract(state, c).code_hash # Contract(state', c).code_hash => upgrades # {}
              /\ Contract(state, c).method_policies # Contract(state', c).method_policies
                    => updates # {}
              /\ \A id \in upgrades : state.height >= history.scheduled[<<"ScheduleUpgrade", id>>]
                                          + delay(state.scheduled_upgrades[id])
              /\ \A id \in upgrades : \E report \in RehearseScheduledUpgrade(state, id) :
                    /\ report.ready_at_height
                    /\ report.invariant_failures \subseteq Deployed(state, "LendingVault")
                    /\ report.state.contracts = state'.contracts
                    /\ report.state.storage = state'.storage
              /\ \A id \in updates : state.height >= history.scheduled[<<"SchedulePolicyUpdate", id>>]
                                         + delay(state.scheduled_policy_updates[id])]_vars

(* The effects a call has had, in the terms of the policies.               *)
ObservedEffects(w, v) ==
    LET changed(c) == c \in DOMAIN w.contracts /\ w.contracts[c] # v.contracts[c]
        Effect(name, happened) == IF happened THEN {name} ELSE {}
    IN  UNION {Effect("StorageWrite", w.storage # v.storage),
               Effect("RegistryWrite", w.registry # v.registry),
               Effect("ContractPause", w.paused_contracts # v.paused_contracts),
               Effect("ContractDeploy", DOMAIN w.contracts # DOMAIN v.contracts),
               Effect("ModuleRegister", w.aspect_modules # v.aspect_modules),
               Effect("UpgradeSchedule",
                      DOMAIN w.scheduled_upgrades # DOMAIN v.scheduled_upgrades),
               Effect("PolicyUpdateSchedule",
                      DOMAIN w.scheduled_policy_updates # DOMAIN v.scheduled_policy_updates),
               Effect("ContractCodeUpgrade",
                      \E c \in DOMAIN v.contracts :
                          changed(c) /\ w.contracts[c].code_hash # v.contracts[c].code_hash),
               Effect("MethodPolicyUpdate",
                      \E c \in DOMAIN v.contracts :
                          changed(c) /\ w.contracts[c].method_policies # v.contracts[c].method_policies),
               Effect("CrossShardOutboxAppend", w.cross_shard_outbox # v.cross_shard_outbox)}

(* The effects two manifests leave out: queueing a message moves the asset *)
(* into custody, and deploying an aspect contract grants its admin right   *)
(* and runs its initializer.                                               *)
UndeclaredEffects(method) ==
    CASE method = "QueueBridgeMessage" -> {"StorageWrite"}
      [] method = "DeployAspectContract" -> {"StorageWrite", "RegistryWrite"}
      [] OTHER -> {}

(* The contracts whose storage a call has changed.                         *)
WrittenContracts(w, v) ==
    {OwnerContract(key) : key \in
        {k \in DOMAIN v.storage : k \notin DOMAIN w.storage \/ UintAt(w, k) # UintAt(v, k)}}

(* Whatever a call that succeeds changes, its method's policy declares, in *)
(* every reachable state and for every call, with the two exceptions named *)
(* above; and it writes the storage of the contract that was called, of    *)
(* the asset ledgers and of what it deploys, and of no other contract.     *)
(* The executor does not check this.                                       *)
EffectsAreDeclared ==
    \A t \in Transactions :
        LET outcome == ExecuteCall(state, t)
        IN  outcome.ok =>
                /\ ObservedEffects(state, outcome.w)
                      \subseteq Contract(state, t.target).method_policies[t.method].effects
                                    \cup UndeclaredEffects(t.method)
                /\ WrittenContracts(state, outcome.w)
                      \subseteq {t.target} \cup Deployed(outcome.w, "Token")
                          \cup Deployed(outcome.w, "AspectModule")
                          \cup (DOMAIN outcome.w.contracts \ DOMAIN state.contracts)

=============================================================================
