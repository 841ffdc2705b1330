----------------------------- MODULE StateLint -----------------------------
(***************************************************************************)
(* detta-verify: the lint of a state, and the demonstration chain on which *)
(* detta-node starts a network.                                            *)
(*                                                                         *)
(* A record exports exactly the methods it has a policy for, and only an   *)
(* aspect module declares no invariants.                                   *)
(***************************************************************************)
EXTENDS ContractState

LintContract(w, c) ==
    LET k == Kind(w, c)
        Flag(name, found) == IF found THEN {<<name, c>>} ELSE {}
    IN  UNION {Flag("ContractHasNoExports", DOMAIN Contract(w, c).method_policies = {}),
               Flag("ContractHasNoDeclaredInvariants", k.name = "AspectModule"),
               Flag("GovernanceTargetMissing",
                    k.name = "Governance" /\ k.governed \notin DOMAIN w.contracts),
               Flag("LendingOracleMissing",
                    k.name = "LendingVault" /\ k.oracle \notin DOMAIN w.contracts)}

(* A scheduled change must name contracts that are there, and a policy     *)
(* update a method that its target still has.                              *)
LintScheduled(w) ==
    LET upgrades == w.scheduled_upgrades
        updates == w.scheduled_policy_updates
        Missing(changes) ==
            {id \in DOMAIN changes : ~({changes[id].target, changes[id].governance}
                                         \subseteq DOMAIN w.contracts)}
    IN  {<<"ScheduledUpgradeMissing", id>> : id \in Missing(upgrades)}
        \cup {<<"ScheduledPolicyUpdateMissing", id>> : id \in Missing(updates)}
        \cup {<<"ScheduledPolicyUpdateMethodMissing", id>> :
                id \in {i \in DOMAIN updates :
                            /\ updates[i].target \in DOMAIN w.contracts
                            /\ updates[i].method \notin
                                  DOMAIN Contract(w, updates[i].target).method_policies}}

LintState(w) ==
    (UNION {LintContract(w, c) : c \in DOMAIN w.contracts}) \cup LintScheduled(w)
        \cup {<<"PausedContractMissing", c>> : c \in w.paused_contracts \ DOMAIN w.contracts}

-----------------------------------------------------------------------------
(* demo_defi_genesis_state: every contract family on one chain, with the   *)
(* pool, the vault and the staking contract sharing two assets.            *)
DemoDefiGenesisState ==
    LET D1(w) == DeployToken(w, "TokenA", "USDC",
                     <<<<"Alice", 200>>, <<"Bob", 50>>, <<"Faucet", 1000000>>,
                       <<"VaultA", 1000>>, <<"Liquidator", 1000>>>>)
        D2(w) == DeployToken(w, "TokenB", "ATOM", <<<<"Alice", 1000>>, <<"Bob", 1000>>>>)
        D3(w) == DeployAmmPool(w, "PoolAB", "USDC", "ATOM")
        D4(w) == DeployOracle(w, "OracleA", "ATOM", "Reporter", 20)
        D5(w) == DeployLendingVault(w, "VaultA", "ATOM", "USDC", "OracleA", 5000, 20)
        D6(w) == DeployStakingWithRewards(w, "StakeA", "ATOM", 2, 1)
        D7(w) == DeployGovernanceWithTimelock(w, "GovA", "TokenA", "Admin", 2)
        D8(w) == DeployBridgeWithValidatorSet(w, "BridgeA", "SourceChain", {"s1", "s2", "s3"}, 2)
        D9(w) == DeployRouter(w, "RouterA", "TokenA")
        D10(w) == DeployFactory(w, "FactoryA")
        D11(w) == DeployAccountRegistry(w, "AccountsA")
    IN  Then(Then(Then(Then(Then(Then(Then(Then(Then(Then(
            D1(NewState), D2), D3), D4), D5), D6), D7), D8), D9), D10), D11)

=============================================================================
