---------------------------- MODULE MCContracts ----------------------------
(***************************************************************************)
(* The contract families on small instances: eight chains that differ in   *)
(* what is deployed at genesis, and the calls that matter on each.         *)
(***************************************************************************)
EXTENDS Contracts

Tokens(w, a, b) ==
    Then(DeployToken(w, a, "A", <<<<"alice", 20>>, <<"bob", 3>>>>),
         LAMBDA v : DeployToken(v, b, "B", <<<<"alice", 6>>, <<"bob", 3>>>>))

(* The tokens that calls name, and two that only other contracts move.     *)
TwoTokens(w) == Tokens(w, "tokA", "tokB")
TwoReserves(w) == Tokens(w, "resA", "resB")

PoolChain ==
    Then(TwoTokens(NewState), LAMBDA w : DeployAmmPoolWithParameters(w, "pool", "A", "B", 2500)).w

(* The admin of an aspect token has initialized it, and a pool pairs it    *)
(* with a native token; either may be paused.                              *)
StandardModule ==
    [id |-> "ERC20ConformantToken", hash |-> "stdlib", has_ir |-> TRUE, complete |-> TRUE,
     verified |-> TRUE, bundles |-> [ERC20ConformantToken |-> AspectTokenPolicies]]

AspectPoolChain ==
    Then(Then(Then(Then(Then(Then(TwoTokens(NewState),
        LAMBDA w : RegisterAspectModule(w, StandardModule)),
        LAMBDA w : DeployAspectContract(w, "X", "stdlib", "ERC20ConformantToken")),
        LAMBDA w : AspectInitialize(w, "X", "alice", 6)),
        LAMBDA w : DeployAmmPoolWithParameters(w, "poolX", "A", "X", 0)),
        LAMBDA w : DeployGovernanceWithTimelock(w, "govX", "X", "alice", 1)),
        LAMBDA w : DeployGovernanceWithTimelock(w, "govA", "tokA", "alice", 1)).w

(* A price has been submitted and collateral deposited.                    *)
VaultChain ==
    Then(Then(Then(Then(Then(DeployToken(NewState, "tokC", "C", <<<<"alice", 6>>, <<"bob", 2>>>>),
        LAMBDA w : DeployToken(w, "tokD", "D", <<<<"bob", 9>>, <<"vault", 5>>>>)),
        LAMBDA w : DeployOracle(w, "oracle", "C", "alice", 1)),
        LAMBDA w : DeployLendingVaultWithRisk(w, "vault", "C", "D", "oracle",
                       [ltv_bps |-> 5000, max_oracle_age |-> 1, interest_bps |-> 3750,
                        threshold_bps |-> 7500])),
        LAMBDA w : SubmitPrice(w, [sender |-> "alice", target |-> "oracle", asset |-> "C",
                                   price |-> 2, timestamp |-> 0])),
        LAMBDA w : DepositCollateral(w, [sender |-> "alice", target |-> "vault", asset |-> "C",
                                         amount |-> 4])).w

(* One staking contract with an unbonding delay, and one without.          *)
BondingChain ==
    Then(TwoReserves(NewState),
         LAMBDA w : DeployStakingWithParameters(w, "bond", "A", 1, 1, 5000)).w
StakingChain ==
    Then(TwoReserves(NewState),
         LAMBDA w : DeployStakingWithParameters(w, "stake", "B", 0, 1, 2500)).w

BridgeChain ==
    Then(Then(TwoReserves(NewState),
        LAMBDA w : DeployBridgeWithValidatorSet(w, "br1", "far", {"v1", "v2", "v3"}, 2)),
        LAMBDA w : DeployBridgeWithValidatorSet(w, "br2", "far", {"v1", "v2", "v3"}, 2)).w

GovernedChain ==
    Then(Then(Then(Then(TwoTokens(NewState),
        LAMBDA w : DeployGovernanceWithTimelock(w, "gov", "tokA", "alice", 1)),
        LAMBDA w : DeployGovernanceWithTimelock(w, "gov2", "tokA", "bob", 2)),
        LAMBDA w : DeployFactory(w, "factory")),
        LAMBDA w : DeployAccountRegistry(w, "accounts")).w

MCGeneses ==
    {PoolChain, AspectPoolChain, VaultChain, BondingChain, StakingChain, BridgeChain,
     GovernedChain, DemoDefiGenesisState.w}

-----------------------------------------------------------------------------
Call(sender, target, method) == [sender |-> sender, target |-> target, method |-> method]

PoolCalls ==
    {Call("alice", "pool", "AddLiquidity") @@ [amount |-> a, amount_b |-> b] :
        a \in {3, 5}, b \in {0, 3}}
    \cup {Call("bob", "pool", "Swap") @@ [asset |-> asset, amount |-> n, min_output |-> m] :
            asset \in {"A", "B"}, n \in {2, 3}, m \in {0, 2}}
    \cup {Call("alice", "pool", "Swap") @@ [asset |-> "A", amount |-> 14, min_output |-> 0],
          Call("alice", "pool", "Swap") @@ [asset |-> "C", amount |-> 1, min_output |-> 0],
          Call("alice", "tokA", "Transfer") @@ [to |-> "pool", amount |-> 1],
          Call("bob", "tokB", "Transfer") @@ [to |-> "bob", amount |-> 1]}

AspectPoolCalls ==
    {Call("alice", "poolX", "AddLiquidity") @@ [amount |-> 3, amount_b |-> 2],
     Call("bob", "poolX", "Swap") @@ [asset |-> "A", amount |-> 3, min_output |-> 1],
     Call("alice", "poolX", "Swap") @@ [asset |-> "X", amount |-> 2, min_output |-> 0],
     Call("alice", "govX", "PauseContract"), Call("alice", "govX", "UnpauseContract"),
     Call("alice", "govA", "PauseContract"),
     Call("alice", "X", "ERC20_transfer") @@ [to |-> "bob", amount |-> 1],
     Call("bob", "X", "ERC20_transfer") @@ [to |-> "poolX", amount |-> 1]}

VaultCalls ==
    {Call("alice", "oracle", "SubmitPrice") @@ [asset |-> "C", price |-> p, timestamp |-> s] :
        p \in {1, 2}, s \in {0, 2}}
    \cup {Call("bob", "oracle", "SubmitPrice") @@ [asset |-> "C", price |-> 9, timestamp |-> 2],
          Call("alice", "vault", "DepositCollateral") @@ [asset |-> "C", amount |-> 2],
          Call("bob", "vault", "DepositCollateral") @@ [asset |-> "C", amount |-> 1],
          Call("alice", "vault", "Borrow") @@ [asset |-> "D", amount |-> 1],
          Call("alice", "vault", "Borrow") @@ [asset |-> "D", amount |-> 4],
          Call("bob", "vault", "Borrow") @@ [asset |-> "D", amount |-> 1]}
    \cup {Call("bob", "vault", "Liquidate") @@ [asset |-> "D", borrower |-> "alice", amount |-> n] :
            n \in {2, 6, 9}}

StakingCalls ==
    {Call(p, c, m) @@ [asset |-> asset, amount |-> n] :
        p \in {"alice", "bob"}, n \in {2}, c \in {"bond"}, asset \in {"A"},
        m \in {"Stake", "RequestUnstake", "CompleteUnstake", "ClaimStakingRewards"}}
    \cup {Call("alice", "bond", m) @@ [asset |-> "A", amount |-> 1] :
            m \in {"RequestUnstake", "CompleteUnstake", "Unstake"}}
    \cup {Call(p, "stake", m) @@ [asset |-> "B", amount |-> 2] :
            p \in {"alice", "bob"}, m \in {"Stake", "Unstake", "ClaimStakingRewards"}}

(* Two proofs of one message, one of another, and one short of the quorum. *)
Proof(signers, quorum, message) ==
    [source_chain |-> "far", source_height |-> 7, quorum |-> quorum, signers |-> signers,
     included |-> TRUE, message |-> message]
Message(bridge, id, amount) ==
    [source_chain |-> "far", source_contract |-> "their-bridge", source_height |-> 7,
     destination_chain |-> "here", destination_contract |-> bridge, message_id |-> id,
     recipient |-> "bob", asset |-> "A", amount |-> amount]
Redeem(bridge, id, amount, proof) ==
    Call("bob", bridge, "RedeemBridgeMessage")
        @@ [id |-> id, to |-> "bob", asset |-> "A", amount |-> amount, proof |-> proof]

BridgeCalls ==
    {Call("alice", bridge, "QueueBridgeMessage")
        @@ [chain |-> "far", contract |-> "their-bridge", id |-> id, to |-> "carol",
            asset |-> asset, amount |-> 2] :
        bridge \in {"br1", "br2"}, id \in {"m1", "m2"}, asset \in {"A", "B"}}
    \cup {Redeem("br1", "n1", 2, Proof(signers, 2, Message("br1", "n1", 2))) :
            signers \in {<<"v1", "v2">>, <<"v2", "v3">>, <<"v1", "v1">>}}
    \cup {Redeem("br2", "n1", 2, Proof(<<"v1", "v2">>, 2, Message("br1", "n1", 2))),
          Redeem("br2", "n1", 1, Proof(<<"v1", "v2", "v3">>, 2, Message("br2", "n1", 1))),
          Redeem("br1", "n2", 1, Proof(<<"v1">>, 1, Message("br1", "n2", 1)))}

GovernanceCalls ==
    {Call(p, g, m) : p \in {"alice"}, g \in {"gov"}, m \in {"PauseContract", "UnpauseContract"}}
    \cup {Call(s[1], s[2], "ScheduleUpgrade") @@ [id |-> "u", code_hash |-> "v2"] :
            s \in {<<"alice", "gov">>, <<"bob", "gov2">>, <<"bob", "gov">>}}
    \cup {Call(s[1], s[2], m) @@ [id |-> "u"] :
            s \in {<<"alice", "gov">>, <<"bob", "gov2">>},
            m \in {"ExecuteUpgrade", "ExecutePolicyUpdate"}}
    \cup {Call("alice", "gov", "SchedulePolicyUpdate")
            @@ [id |-> "u", policy_method |-> m, effect |-> "RegistryWrite"] :
            m \in {"Transfer", "Swap"}}

RootsOnly == [StandardModule EXCEPT !.has_ir = FALSE, !.bundles = Nothing]
Keys == {[hex |-> "k1", canonical |-> TRUE], [hex |-> "K1", canonical |-> FALSE]}

FactoryCalls ==
    {Call("bob", "factory", "DeployToken")
        @@ [contract |-> c, asset |-> asset, to |-> "bob", amount |-> 4] :
        c \in {"new", "tokA"}, asset \in {"A", "N"}}
    \cup {Call("bob", "factory", "DeployAmmPool") @@ [contract |-> "new", asset |-> "A", asset_b |-> b] :
            b \in {"B", "new"}}
    \cup {Call("bob", "factory", "SubmitAspectModule") @@ [module |-> module] :
            module \in {StandardModule, RootsOnly}}
    \cup {Call("bob", "factory", "DeployAspectContract")
            @@ [contract |-> "new", module_hash |-> "stdlib", bundle |-> "ERC20ConformantToken",
                initializer |-> init, to |-> "bob", amount |-> 5] :
            init \in {"", "ERC20_initialize"}}
    \cup {Call("bob", "accounts", m) @@ [key |-> key] :
            m \in {"RegisterAccountKey", "RevokeAccountKey"}, key \in Keys}

(* Uses of the demonstration chain in which one family's assets pass       *)
(* through another.                                                        *)
DemoCalls ==
    {Call("Alice", "PoolAB", "AddLiquidity") @@ [amount |-> 100, amount_b |-> 400],
     Call("Bob", "PoolAB", "Swap") @@ [asset |-> "USDC", amount |-> 50, min_output |-> 100],
     Call("Reporter", "OracleA", "SubmitPrice") @@ [asset |-> "ATOM", price |-> 2, timestamp |-> 0],
     Call("Alice", "VaultA", "DepositCollateral") @@ [asset |-> "ATOM", amount |-> 100],
     Call("Alice", "VaultA", "Borrow") @@ [asset |-> "USDC", amount |-> 60],
     Call("Alice", "StakeA", "Stake") @@ [asset |-> "ATOM", amount |-> 600],
     Call("Faucet", "TokenA", "Transfer") @@ [to |-> "Bob", amount |-> 25]}

MCTransactions ==
    UNION {PoolCalls, AspectPoolCalls, VaultCalls, StakingCalls, BridgeCalls, GovernanceCalls,
           FactoryCalls, DemoCalls}

=============================================================================
