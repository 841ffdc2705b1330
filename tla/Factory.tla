------------------------------ MODULE Factory ------------------------------
(***************************************************************************)
(* The factory of detta-core, which deploys contracts inside a transaction *)
(* and registers aspect modules, and the account registry.                 *)
(***************************************************************************)
EXTENDS ContractState

(* Mutant: the caller becomes an administrator of the new token.           *)
DeployTokenGrantingAdmin(w, t) ==
    Then(DeployToken(w, t.contract, t.asset, <<<<t.to, t.amount>>>>),
         LAMBDA v : Ok(AddGrant(v, <<"GovernanceAdmin", t.contract, t.sender>>)))

DeployTokenFromFactory(w, t) == DeployToken(w, t.contract, t.asset, <<<<t.to, t.amount>>>>)

DeployAmmPoolFromFactory(w, t) == DeployAmmPool(w, t.contract, t.asset, t.asset_b)

(* register_aspect_module.  A module is submitted either as source, which  *)
(* is parsed and verified, or as its roots alone; either way its hash is   *)
(* that of the roots, so the two submissions of one module have one hash   *)
(* and whichever comes first is the record.                                *)
RegisterAspectModule(w, module) ==
    Require(module.complete /\ module.hash \notin DOMAIN w.aspect_modules, w,
            Ok([w EXCEPT !.aspect_modules = Over(Entry(module.hash, module), @)]))

(* from_verified_source: the module is named after one of its bundles.     *)
SubmitAspectModuleFromFactory(w, t) ==
    Require(t.module.has_ir => t.module.verified /\ t.module.id \in DOMAIN t.module.bundles, w,
            RegisterAspectModule(w, t.module))

(* The deployer becomes the new contract's admin; the initializer, when    *)
(* there is one, is then a call of the new contract (in Contracts).        *)
DeployAspectContractFromFactory(w, t) ==
    Then(DeployAspectContract(w, t.contract, t.module_hash, t.bundle),
         LAMBDA v : Ok(AddGrant(v, <<"GovernanceAdmin", t.contract, t.sender>>)))

(* register_account_key: the grant is new, whatever it was before.         *)
RegisterAccountKey(w, t) ==
    Require(t.key.canonical, w, Ok(AddGrant(w, <<"AccountSigner", t.sender, t.key>>)))

RevokeAccountKey(w, t) ==
    LET grant == <<"AccountSigner", t.sender, t.key>>
    IN  Require(t.key.canonical /\ grant \in DOMAIN w.registry, w,
                Ok([w EXCEPT !.registry[grant] = "revoked"]))

=============================================================================
