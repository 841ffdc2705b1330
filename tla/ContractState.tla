--------------------------- MODULE ContractState ---------------------------
(***************************************************************************)
(* The part of DeTTaState (detta-core) that the contract families share:   *)
(* contract records with their policy manifests, storage and registry, the *)
(* deployment functions, and the asset ledgers through which a contract    *)
(* takes assets into custody and pays them out.                            *)
(*                                                                         *)
(* As in Executor, a handler is an operator from a working state w to an   *)
(* outcome, dirty on an error.  w.storage maps the keys that were written  *)
(* to their values.  A StateKey is a tuple: its variant, its contract, and *)
(* its other fields; the asset is left out where the contract determines   *)
(* it.  A handler writes only keys it has put in the write scope of its    *)
(* own frame, so the checks of state_set never fail and frames are left    *)
(* out.                                                                    *)
(***************************************************************************)
EXTENDS Integers, FiniteSets, FiniteSetsExt, Sequences, TLC

CONSTANTS
    MaxAmount,    \* u128::MAX
    MaxHeight     \* u64::MAX

ASSUME AmountAssumption == MaxAmount \in Nat

BasisPoints == 10000

-----------------------------------------------------------------------------
(* Outcomes, and the sequencing of fallible steps (the ? of the source).   *)

Ok(w) == [ok |-> TRUE, w |-> w]
Err(w) == [ok |-> FALSE, w |-> w]
Require(condition, w, outcome) == IF condition THEN outcome ELSE Err(w)
Then(outcome, Step(_)) == IF outcome.ok THEN Step(outcome.w) ELSE outcome

Fits(amount) == amount <= MaxAmount
SaturatingAdd(h, d) == IF h + d > MaxHeight THEN MaxHeight ELSE h + d
SaturatingSub(h, g) == IF h < g THEN 0 ELSE h - g

(* Storage: a key that was never written reads as 0.                       *)
UintAt(w, key) == IF key \in DOMAIN w.storage THEN w.storage[key] ELSE 0
Entry(key, value) == [k \in {key} |-> value]
Over(new, old) == [k \in DOMAIN old \cup DOMAIN new |-> IF k \in DOMAIN new THEN new[k] ELSE old[k]]
Written(w, entries) == [w EXCEPT !.storage = Over(entries, @)]
StateSet(w, key, value) == Written(w, Entry(key, value))

(* owner_contract: every key belongs to one contract.                      *)
OwnerContract(key) == key[2]

(* The public views of the state, through which clients and the checks of  *)
(* declared invariants read it.                                            *)
Balance(w, c, owner) == UintAt(w, <<"Balance", c, owner>>)
TotalSupply(w, c) == UintAt(w, <<"TotalSupply", c>>)
Reserve(w, c, asset) == UintAt(w, <<"Reserve", c, asset>>)
AmmFeeCollected(w, c, asset) == UintAt(w, <<"AmmFeeCollected", c, asset>>)
LpSupply(w, c) == UintAt(w, <<"LpSupply", c>>)
LpBalance(w, c, owner) == UintAt(w, <<"LpBalance", c, owner>>)
OraclePrice(w, c, asset) == UintAt(w, <<"OraclePrice", c, asset>>)
OracleTimestamp(w, c, asset) == UintAt(w, <<"OracleTimestamp", c, asset>>)
Collateral(w, c, borrower) == UintAt(w, <<"Collateral", c, borrower>>)
Debt(w, c, borrower) == UintAt(w, <<"Debt", c, borrower>>)
BadDebt(w, c) == UintAt(w, <<"BadDebt", c>>)
StakeBalance(w, c, staker) == UintAt(w, <<"StakeBalance", c, staker>>)
TotalStaked(w, c) == UintAt(w, <<"TotalStaked", c>>)
PendingUnbond(w, c, staker) == UintAt(w, <<"PendingUnbond", c, staker>>)
TotalPendingUnbond(w, c) == UintAt(w, <<"TotalPendingUnbond", c>>)
StakingPenaltyCollected(w, c) == UintAt(w, <<"StakingPenaltyCollected", c>>)
StakingRewardBalance(w, c, staker) == UintAt(w, <<"StakingRewardBalance", c, staker>>)

(* The sum over the keys of one variant that one contract owns.            *)
SumOver(w, variant, c) ==
    SumFunction(Restrict(w.storage, {key \in DOMAIN w.storage : key[1] = variant /\ key[2] = c}))

(* The grants of the registry that are neither inactive nor revoked.       *)
HasGrant(w, grant) == grant \in DOMAIN w.registry /\ w.registry[grant] = "active"
AddGrant(w, grant) == [w EXCEPT !.registry = Over(Entry(grant, "active"), @)]

-----------------------------------------------------------------------------
(* Policy manifests: the methods a contract of each kind exports, who may  *)
(* call them and the effects they are declared to have.                    *)

Policy(authority, effects) == [authority |-> authority, effects |-> effects]
Writes == {"StorageWrite", "EventEmit"}

TokenPolicies ==
    [Transfer |-> Policy("TxSender", Writes),
     Approve |-> Policy("TxSender", {"RegistryWrite", "EventEmit"}),
     TransferFrom |-> Policy("LiveAllowanceGrant", Writes \cup {"RegistryWrite"}),
     Permit |-> Policy("PermitCertificate", {"RegistryWrite", "EventEmit"})]

AmmPoolPolicies ==
    [AddLiquidity |-> Policy("TxSender", Writes), Swap |-> Policy("TxSender", Writes)]

OraclePolicies == [SubmitPrice |-> Policy("OracleUpdaterGrant", Writes)]

BridgePolicies ==
    [QueueBridgeMessage |-> Policy("TxSender", {"CrossShardOutboxAppend", "EventEmit"}),
     RedeemBridgeMessage |-> Policy("BridgeCertificate", Writes)]

GovernancePolicies ==
    LET Admin(effect) == Policy("GovernanceAdminGrant", {effect, "EventEmit"})
    IN  [PauseContract |-> Admin("ContractPause"),
         UnpauseContract |-> Admin("ContractPause"),
         ScheduleUpgrade |-> Admin("UpgradeSchedule"),
         ExecuteUpgrade |-> Admin("ContractCodeUpgrade"),
         SchedulePolicyUpdate |-> Admin("PolicyUpdateSchedule"),
         ExecutePolicyUpdate |-> Admin("MethodPolicyUpdate")]

LendingVaultPolicies ==
    [DepositCollateral |-> Policy("TxSender", Writes),
     Borrow |-> Policy("TxSender", Writes),
     Liquidate |-> Policy("TxSender", Writes)]

StakingPolicies ==
    [Stake |-> Policy("TxSender", Writes),
     Unstake |-> Policy("TxSender", Writes),
     RequestUnstake |-> Policy("TxSender", Writes),
     CompleteUnstake |-> Policy("TxSender", Writes),
     ClaimStakingRewards |-> Policy("TxSender", Writes)]

RouterPolicies == [RouteTransferFrom |-> Policy("TxSender", {"CrossContractCall"})]

FactoryPolicies ==
    [DeployToken |-> Policy("TxSender", Writes \cup {"ContractDeploy"}),
     DeployAmmPool |-> Policy("TxSender", Writes \cup {"ContractDeploy"}),
     SubmitAspectModule |-> Policy("TxSender", {"ModuleRegister", "EventEmit"}),
     DeployAspectContract |-> Policy("TxSender", {"ContractDeploy", "EventEmit"})]

AccountRegistryPolicies ==
    [RegisterAccountKey |-> Policy("TxSender", {"RegistryWrite", "EventEmit"}),
     RevokeAccountKey |-> Policy("TxSender", {"RegistryWrite", "EventEmit"})]

(* The policies core_method_policy_from_aspect makes of those of the       *)
(* standard bundle ERC20ConformantToken, for the projections that move its *)
(* ledger.                                                                 *)
AspectTokenPolicies ==
    [ERC20_initialize |-> Policy("GovernanceAdminGrant", Writes),
     ERC20_transfer |-> Policy("TxSender", Writes)]

(* A contract's record: its kind with the parameters it was deployed with, *)
(* its code hash, and its method policies, whose domain is what it exports.*)
Record(kind, policies) ==
    [kind |-> kind, code_hash |-> "genesis", method_policies |-> policies]

Contract(w, c) == w.contracts[c]
Kind(w, c) == w.contracts[c].kind
Deployed(w, kind) == {c \in DOMAIN w.contracts : w.contracts[c].kind.name = kind}

-----------------------------------------------------------------------------
(* The empty state, and deployment.                                        *)

Nothing == [x \in {} |-> x]

NewState ==
    [height |-> 0, storage |-> Nothing, registry |-> Nothing, contracts |-> Nothing,
     paused_contracts |-> {}, aspect_modules |-> Nothing,
     scheduled_upgrades |-> Nothing, scheduled_policy_updates |-> Nothing,
     trusted_bridge_validator_sets |-> Nothing,
     outbound_message_ids |-> {}, cross_shard_outbox |-> <<>>]

Insert(w, c, kind, policies) ==
    [w EXCEPT !.contracts = Over(Entry(c, Record(kind, policies)), @)]

(* The token contracts holding a total supply of this asset.               *)
NativeLedgers(w, asset) == {c \in Deployed(w, "Token") : Kind(w, c).asset = asset}

AspectLedgers(w, asset) ==
    {c \in Deployed(w, "AspectModule") :
        c = asset /\ "ERC20_transfer" \in DOMAIN Contract(w, c).method_policies}

(* resolve_asset_ledger: there is exactly one contract, of either kind, to *)
(* hold the asset.                                                         *)
Resolves(w, asset) ==
    \E c \in DOMAIN w.contracts : NativeLedgers(w, asset) \cup AspectLedgers(w, asset) = {c}
LedgerOf(w, asset) ==
    CHOOSE c \in NativeLedgers(w, asset) \cup AspectLedgers(w, asset) : TRUE

TokenInvariantsHold(w, c) ==
    LET sum == SumOver(w, "Balance", c)
    IN  Fits(sum) /\ sum = TotalSupply(w, c)

(* deploy_token: balances is a sequence of (owner, amount).                *)
DeployToken(w, c, asset, balances) ==
    LET owners == {balances[i][1] : i \in DOMAIN balances}
        total == SumFunction([i \in DOMAIN balances |-> balances[i][2]])
        opening == [key \in {<<"Balance", c, owner>> : owner \in owners} |->
                       balances[CHOOSE i \in DOMAIN balances : balances[i][1] = key[3]][2]]
        inserted == Insert(w, c, [name |-> "Token", asset |-> asset], TokenPolicies)
        deployed == StateSet(Written(inserted, opening), <<"TotalSupply", c>>, total)
    IN  Require(/\ c \notin DOMAIN w.contracts
                /\ Cardinality(owners) = Len(balances)
                /\ Fits(total)
                /\ NativeLedgers(w, asset) = {},
                w, Require(TokenInvariantsHold(deployed, c), deployed, Ok(deployed)))

DeployAmmPoolWithParameters(w, c, a, b, swap_fee_bps) ==
    LET zeros == [key \in {<<"Reserve", c, a>>, <<"Reserve", c, b>>, <<"LpSupply", c>>,
                           <<"AmmFeeCollected", c, a>>, <<"AmmFeeCollected", c, b>>} |-> 0]
        kind == [name |-> "AmmPool", asset_a |-> a, asset_b |-> b, swap_fee_bps |-> swap_fee_bps]
    IN  Require(/\ c \notin DOMAIN w.contracts
                /\ a # b /\ swap_fee_bps <= BasisPoints
                /\ Resolves(w, a) /\ Resolves(w, b),
                w, Ok(Written(Insert(w, c, kind, AmmPoolPolicies), zeros)))

DeployAmmPool(w, c, a, b) == DeployAmmPoolWithParameters(w, c, a, b, 30)

DeployOracle(w, c, asset, updater, max_age) ==
    LET zeros == [key \in {<<"OraclePrice", c, asset>>, <<"OracleTimestamp", c, asset>>} |-> 0]
        kind == [name |-> "Oracle", asset |-> asset, max_age |-> max_age]
    IN  Require(c \notin DOMAIN w.contracts, w,
                Ok(AddGrant(Written(Insert(w, c, kind, OraclePolicies), zeros),
                            <<"OracleUpdater", c, updater>>)))

(* BridgeValidatorSet::new refuses a quorum of zero or above the set's     *)
(* size, so an empty set too.                                              *)
ValidBridgeValidatorSet(set) == set.quorum \in 1..Cardinality(set.validators)

(* The set is trusted for its chain, replacing another one.                *)
DeployBridgeWithValidatorSet(w, c, source_chain, validators, quorum) ==
    LET set == [validators |-> validators, quorum |-> quorum]
    IN  Require(c \notin DOMAIN w.contracts /\ ValidBridgeValidatorSet(set), w,
                Ok([Insert(w, c, [name |-> "Bridge", source_chain |-> source_chain], BridgePolicies)
                      EXCEPT !.trusted_bridge_validator_sets = Over(Entry(source_chain, set), @)]))

DeployGovernanceWithTimelock(w, c, governed, admin, timelock_delay) ==
    LET kind == [name |-> "Governance", governed |-> governed, timelock_delay |-> timelock_delay]
    IN  Require(c \notin DOMAIN w.contracts, w,
                Ok(AddGrant(Insert(w, c, kind, GovernancePolicies), <<"GovernanceAdmin", c, admin>>)))

(* risk: ltv_bps, max_oracle_age, interest_bps, threshold_bps.             *)
DeployLendingVaultWithRisk(w, c, collateral_asset, debt_asset, oracle, risk) ==
    LET kind == [name |-> "LendingVault", collateral_asset |-> collateral_asset,
                 debt_asset |-> debt_asset, oracle |-> oracle] @@ risk
    IN  Require(/\ c \notin DOMAIN w.contracts
                /\ collateral_asset # debt_asset
                /\ risk.ltv_bps <= BasisPoints /\ risk.threshold_bps <= BasisPoints
                /\ risk.threshold_bps >= risk.ltv_bps,
                w, Ok(Insert(w, c, kind, LendingVaultPolicies)))

(* A vault without interest, which liquidates at its lending limit.        *)
DeployLendingVault(w, c, collateral_asset, debt_asset, oracle, ltv_bps, max_oracle_age) ==
    DeployLendingVaultWithRisk(w, c, collateral_asset, debt_asset, oracle,
        [ltv_bps |-> ltv_bps, max_oracle_age |-> max_oracle_age, interest_bps |-> 0,
         threshold_bps |-> ltv_bps])

DeployStakingWithParameters(w, c, asset, unbonding_delay, reward_per_block, penalty_bps) ==
    LET zeros == [key \in {<<"TotalStaked", c>>, <<"TotalPendingUnbond", c>>,
                           <<"StakingPenaltyCollected", c>>} |-> 0]
        kind == [name |-> "Staking", asset |-> asset, unbonding_delay |-> unbonding_delay,
                 reward_per_block |-> reward_per_block, penalty_bps |-> penalty_bps]
    IN  Require(penalty_bps <= BasisPoints /\ c \notin DOMAIN w.contracts, w,
                Ok(Written(Insert(w, c, kind, StakingPolicies), zeros)))

DeployStakingWithRewards(w, c, asset, unbonding_delay, reward_per_block) ==
    DeployStakingWithParameters(w, c, asset, unbonding_delay, reward_per_block, 0)

DeployRouter(w, c, token) ==
    Require(c \notin DOMAIN w.contracts, w,
            Ok(Insert(w, c, [name |-> "Router", token |-> token], RouterPolicies)))

DeployFactory(w, c) ==
    Require(c \notin DOMAIN w.contracts, w, Ok(Insert(w, c, [name |-> "Factory"], FactoryPolicies)))

DeployAccountRegistry(w, c) ==
    Require(c \notin DOMAIN w.contracts, w,
            Ok(Insert(w, c, [name |-> "AccountRegistry"], AccountRegistryPolicies)))

(* A module record has the policies of each bundle of its verified source; *)
(* a record of which only the roots were submitted (no ir) exports nothing,*)
(* whatever bundle is named.                                               *)
AspectModuleMethodPolicies(module, bundle) ==
    IF module.has_ir THEN module.bundles[bundle] ELSE Nothing

DeployAspectContract(w, c, hash, bundle) ==
    LET module == w.aspect_modules[hash]
        kind == [name |-> "AspectModule", module_hash |-> hash, bundle |-> bundle]
    IN  Require(/\ c \notin DOMAIN w.contracts
                /\ hash \in DOMAIN w.aspect_modules
                /\ module.has_ir => bundle \in DOMAIN module.bundles,
                w, Ok([Insert(w, c, kind, AspectModuleMethodPolicies(module, bundle))
                         EXCEPT !.contracts[c].code_hash = hash]))

(* The parameters of a kind are in the ranges that the deployment functions*)
(* check and the source's types have.                                      *)
WellTyped(k) ==
    CASE k.name = "AmmPool" -> k.asset_a # k.asset_b /\ k.swap_fee_bps \in 0..BasisPoints
      [] k.name = "Oracle" -> k.max_age \in Nat
      [] k.name = "Governance" -> k.timelock_delay \in Nat
      [] k.name = "LendingVault" ->
            {k.ltv_bps, k.max_oracle_age, k.interest_bps, k.threshold_bps} \subseteq Nat
      [] k.name = "Staking" -> /\ {k.unbonding_delay, k.reward_per_block} \subseteq Nat
                               /\ k.penalty_bps \in 0..BasisPoints
      [] OTHER -> TRUE

NativePolicies ==
    [Token |-> TokenPolicies, AmmPool |-> AmmPoolPolicies, Oracle |-> OraclePolicies,
     Bridge |-> BridgePolicies, Governance |-> GovernancePolicies,
     LendingVault |-> LendingVaultPolicies, Staking |-> StakingPolicies,
     Router |-> RouterPolicies, Factory |-> FactoryPolicies,
     AccountRegistry |-> AccountRegistryPolicies]

(* A native contract exports the methods of its kind, and declares at      *)
(* least the effects it was deployed with.                                 *)
NativeExports(name, policies) ==
    /\ name \in DOMAIN NativePolicies
    /\ DOMAIN policies = DOMAIN NativePolicies[name]
    /\ \A m \in DOMAIN policies :
          /\ DOMAIN policies[m] = {"authority", "effects"}
          /\ NativePolicies[name][m].effects \subseteq policies[m].effects

(* The projections of a bundle are not native methods, and a verified one  *)
(* that moves a ledger declares it.                                        *)
AspectExports(policies) ==
    /\ \A name \in DOMAIN NativePolicies : DOMAIN policies \cap DOMAIN NativePolicies[name] = {}
    /\ \A m \in DOMAIN policies :
          /\ DOMAIN policies[m] = {"authority", "effects"}
          /\ m \in DOMAIN AspectTokenPolicies => "StorageWrite" \in policies[m].effects

WellFormedModule(module) ==
    /\ module.complete
    /\ module.has_ir => \A b \in DOMAIN module.bundles : AspectExports(module.bundles[b])

WellFormedContract(w, c) ==
    LET k == Kind(w, c)
    IN  /\ DOMAIN w.contracts[c] = {"kind", "code_hash", "method_policies"}
        /\ WellTyped(k)
        /\ IF k.name = "AspectModule"
           THEN k.module_hash \in DOMAIN w.aspect_modules /\ AspectExports(Contract(w, c).method_policies)
           ELSE NativeExports(k.name, Contract(w, c).method_policies)

(* What the deployment functions establish of a state, and so what may be  *)
(* asked of one that a chain starts from.  What is stored belongs to a     *)
(* contract that is deployed.                                              *)
WellFormed(w) ==
    /\ DOMAIN w = DOMAIN NewState
    /\ w.height \in Nat
    /\ \A c \in DOMAIN w.contracts : WellFormedContract(w, c)
    /\ \A hash \in DOMAIN w.aspect_modules : WellFormedModule(w.aspect_modules[hash])
    /\ \A key \in DOMAIN w.storage :
          w.storage[key] \in Nat /\ OwnerContract(key) \in DOMAIN w.contracts

-----------------------------------------------------------------------------
(* The asset ledgers.                                                      *)

(* Both balances are read before either is written: from = to would leave  *)
(* only the credit, which the supply check then refuses.                   *)
TransferNative(w, c, from, to, amount) ==
    LET from_balance == Balance(w, c, from)
        new_to == Balance(w, c, to) + amount
        moved == StateSet(StateSet(w, <<"Balance", c, from>>, from_balance - amount),
                          <<"Balance", c, to>>, new_to)
    IN  Require(from_balance >= amount /\ Fits(new_to), w,
                Require(TokenInvariantsHold(moved, c), moved, Ok(moved)))

MintNative(w, c, to, amount) ==
    LET new_total_supply == TotalSupply(w, c) + amount
        new_to == Balance(w, c, to) + amount
        minted == StateSet(StateSet(w, <<"TotalSupply", c>>, new_total_supply),
                           <<"Balance", c, to>>, new_to)
    IN  Require(Fits(new_total_supply) /\ Fits(new_to), w,
                Require(TokenInvariantsHold(minted, c), minted, Ok(minted)))

(* The projections of the standard bundle ERC20ConformantToken that an     *)
(* asset ledger needs.  The evaluator reads the state before the call, and *)
(* its trace of writes is applied in order; the invariant TBA-3 that their *)
(* policies name is True.                                                  *)
AspectInitialize(w, c, owner, amount) ==
    LET supplied == StateSet(StateSet(w, <<"AspectState", c, "balanceOf", owner>>, amount),
                             <<"AspectState", c, "totalSupply">>, amount)
    IN  Require(UintAt(w, <<"AspectState", c, "initialized">>) = 0, w,
                Ok(StateSet(supplied, <<"AspectState", c, "initialized">>, 1)))

(* Mutant: the recipient is credited less than the sender is debited.      *)
AspectTransferLessFee(w, c, from, to, amount) ==
    LET from_balance == UintAt(w, <<"AspectState", c, "balanceOf", from>>)
        new_to == UintAt(w, <<"AspectState", c, "balanceOf", to>>) + amount - 1
    IN  Require(from_balance >= amount /\ Fits(new_to), w,
                Ok(StateSet(StateSet(w, <<"AspectState", c, "balanceOf", from>>,
                                     from_balance - amount),
                            <<"AspectState", c, "balanceOf", to>>, new_to)))

AspectTransfer(w, c, from, to, amount) ==
    LET from_balance == UintAt(w, <<"AspectState", c, "balanceOf", from>>)
        new_to == UintAt(w, <<"AspectState", c, "balanceOf", to>>) + amount
    IN  Require(from_balance >= amount /\ Fits(new_to), w,
                Ok(StateSet(StateSet(w, <<"AspectState", c, "balanceOf", from>>,
                                     from_balance - amount),
                            <<"AspectState", c, "balanceOf", to>>, new_to)))

(* What a principal holds of an asset, on whichever ledger it is.          *)
Holding(w, asset, p) ==
    IF NativeLedgers(w, asset) # {}
    THEN Balance(w, LedgerOf(w, asset), p)
    ELSE UintAt(w, <<"AspectState", asset, "balanceOf", p>>)

(* Mutant: an aspect ledger is moved without a call of its contract.       *)
TransferAssetUncalled(w, from, to, asset, amount) ==
    Require(Resolves(w, asset), w,
            IF NativeLedgers(w, asset) # {}
            THEN TransferNative(w, LedgerOf(w, asset), from, to, amount)
            ELSE AspectTransfer(w, asset, from, to, amount))

(* resolve_asset_ledger and transfer_asset_balance: a native ledger is     *)
(* written directly, paused or not; an aspect ledger through a child call  *)
(* of its contract, in the name of from, which a pause stops.              *)
TransferAsset(w, from, to, asset, amount) ==
    Require(Resolves(w, asset), w,
            IF NativeLedgers(w, asset) # {}
            THEN TransferNative(w, LedgerOf(w, asset), from, to, amount)
            ELSE Require(asset \notin w.paused_contracts, w,
                         AspectTransfer(w, asset, from, to, amount)))

(* mint_asset_balance and mint_bridge_asset_balance refuse aspect ledgers. *)
MintAsset(w, to, asset, amount) ==
    Require(Resolves(w, asset) /\ NativeLedgers(w, asset) # {}, w,
            MintNative(w, LedgerOf(w, asset), to, amount))

=============================================================================
