---------------------- MODULE ContractHandlers_proofs -----------------------
(***************************************************************************)
(* The frame of the contract handlers.  A handler that only writes storage *)
(* changes nothing but the keys of its write scope and the books of the    *)
(* asset ledgers it calls, keeps amounts natural numbers and the ledgers   *)
(* balanced, and leaves a state that can be rolled back when it fails.     *)
(*                                                                         *)
(* First for the steps handlers are made of: storage writes, the asset     *)
(* ledgers and the pool's arithmetic.  Then for the handlers of oracles,   *)
(* vaults, staking and bridges; staking settles the rewards of a staker    *)
(* before it changes the stake.  A deployment adds one contract, and what  *)
(* it stores belongs to that contract.                                     *)
(***************************************************************************)
EXTENDS AmmPool, LendingVault, Staking, Bridge, Governance, Factory, TLAPS

(* A key and its value, if it has one, are in v what they are in w.        *)
Same(w, v, key) ==
    /\ key \in DOMAIN v.storage <=> key \in DOMAIN w.storage
    /\ key \in DOMAIN w.storage => v.storage[key] = w.storage[key]

(* The fields of the state other than its storage.                         *)
SameElse(w, v) ==
    /\ v.height = w.height /\ v.registry = w.registry /\ v.contracts = w.contracts
    /\ v.paused_contracts = w.paused_contracts /\ v.aspect_modules = w.aspect_modules
    /\ v.scheduled_upgrades = w.scheduled_upgrades
    /\ v.scheduled_policy_updates = w.scheduled_policy_updates
    /\ v.trusted_bridge_validator_sets = w.trusted_bridge_validator_sets
    /\ v.outbound_message_ids = w.outbound_message_ids
    /\ v.cross_shard_outbox = w.cross_shard_outbox

(* Nothing is removed from storage.                                        *)
Keeps(w, v) == DOMAIN w.storage \subseteq DOMAIN v.storage

Typed(w) == \A key \in DOMAIN w.storage : w.storage[key] \in Nat

(* What a handler may rely on.                                             *)
Sized(w) ==
    DOMAIN w = DOMAIN NewState /\ w.height \in Nat /\ Typed(w)

(* The books of the asset ledgers.  A paused token's are written all the   *)
(* same, a paused aspect ledger's are not.                                 *)
TokenVariants == {"Balance", "TotalSupply"}
LedgerVariants == TokenVariants \cup {"AspectState"}
CalledLedgers(w) == Deployed(w, "AspectModule") \ w.paused_contracts
LedgerKey(w, key) ==
    \/ key[1] \in TokenVariants /\ key[2] \in Deployed(w, "Token")
    \/ key[1] = "AspectState" /\ key[2] \in CalledLedgers(w)

TokensBalance(w, v) ==
    \A c \in Deployed(w, "Token") : TokenInvariantsHold(w, c) => TokenInvariantsHold(v, c)

(* v is reached from w by writing keys of the scope and books of ledgers.  *)
Framed(scope, w, v) ==
    /\ DOMAIN v = DOMAIN NewState /\ SameElse(w, v) /\ Keeps(w, v) /\ Typed(v)
    /\ \A key : Same(w, v, key) \/ key \in scope \/ LedgerKey(w, key)
    /\ TokensBalance(w, v)

(* An error leaves what apply_transaction does not restore as it was.      *)
Restorable(w, v) ==
    /\ DOMAIN v = DOMAIN NewState /\ v.height = w.height
    /\ v.trusted_bridge_validator_sets = w.trusted_bridge_validator_sets

FramedOutcome(scope, w, o) == Restorable(w, o.w) /\ (o.ok => Framed(scope, w, o.w))

-----------------------------------------------------------------------------
(* Outcomes.                                                               *)

LEMMA FramedSelf ==
    ASSUME NEW scope, NEW w, Sized(w)
    PROVE  Framed(scope, w, w)
    BY Zenon DEF Framed, Sized, SameElse, Keeps, Same, TokensBalance

LEMMA FramedRestorable ==
    ASSUME NEW scope, NEW w, NEW v, Framed(scope, w, v)
    PROVE  Restorable(w, v)
    BY Zenon DEF Framed, Restorable, SameElse

LEMMA OkOutcome ==
    ASSUME NEW scope, NEW w, NEW v, Framed(scope, w, v)
    PROVE  FramedOutcome(scope, w, Ok(v))
    BY FramedRestorable, Zenon DEF FramedOutcome, Ok

LEMMA ErrOutcome ==
    ASSUME NEW scope, NEW w, NEW v, Framed(scope, w, v)
    PROVE  FramedOutcome(scope, w, Err(v))
    BY FramedRestorable, Zenon DEF FramedOutcome, Err

LEMMA SuccessFramed ==
    ASSUME NEW scope, NEW w, NEW o, FramedOutcome(scope, w, o), o.ok
    PROVE  Framed(scope, w, o.w)
    BY Zenon DEF FramedOutcome

(* What is framed can be relied on again.                                  *)
LEMMA FramedSized ==
    ASSUME NEW scope, NEW w, Sized(w), NEW v, Framed(scope, w, v)
    PROVE  Sized(v)
    BY Zenon DEF Framed, Sized, SameElse

(* One frame after another.                                                *)
LEMMA FramedTrans ==
    ASSUME NEW S, NEW T, NEW w, NEW u, NEW v, Framed(S, w, u), Framed(T, u, v)
    PROVE  Framed(S \cup T, w, v)
<1>1. /\ SameElse(w, v) /\ CalledLedgers(u) = CalledLedgers(w)
      /\ Deployed(u, "Token") = Deployed(w, "Token")
    BY Zenon DEF Framed, SameElse, CalledLedgers, Deployed
<1>2. ASSUME NEW key PROVE Same(w, v, key) \/ key \in S \cup T \/ LedgerKey(w, key)
  <2>1. Same(w, u, key) \/ key \in S \/ LedgerKey(w, key)
    BY Zenon DEF Framed
  <2>2. Same(u, v, key) \/ key \in T \/ LedgerKey(w, key)
    BY <1>1, Zenon DEF Framed, LedgerKey
  <2>3. Same(w, u, key) /\ Same(u, v, key) => Same(w, v, key)
    BY Zenon DEF Same
  <2>4. QED
    BY <2>1, <2>2, <2>3, Zenon
<1>3. TokensBalance(w, v) /\ Keeps(w, v)
    BY <1>1, Zenon DEF Framed, TokensBalance, Keeps
<1>4. QED
    BY <1>1, <1>2, <1>3, Zenon DEF Framed

LEMMA OutcomeTrans ==
    ASSUME NEW S, NEW T, NEW w, NEW u, Framed(S, w, u), NEW o, FramedOutcome(T, u, o)
    PROVE  FramedOutcome(S \cup T, w, o)
<1>1. Restorable(w, o.w)
    BY Zenon DEF Framed, FramedOutcome, Restorable, SameElse
<1>2. o.ok => Framed(S \cup T, w, o.w)
    BY FramedTrans, Zenon DEF FramedOutcome
<1>3. QED
    BY <1>1, <1>2, Zenon DEF FramedOutcome

LEMMA FramedMore ==
    ASSUME NEW S, NEW T, S \subseteq T, NEW w, NEW v, Framed(S, w, v)
    PROVE  Framed(T, w, v)
    BY Zenon DEF Framed

LEMMA OutcomeMore ==
    ASSUME NEW S, NEW T, S \subseteq T, NEW w, NEW o, FramedOutcome(S, w, o)
    PROVE  FramedOutcome(T, w, o)
    BY FramedMore, Zenon DEF FramedOutcome

-----------------------------------------------------------------------------
(* Storage.                                                                *)

LEMMA UintNat ==
    ASSUME NEW w, Typed(w), NEW key
    PROVE  UintAt(w, key) \in Nat
    BY Zenon DEF Typed, UintAt

LEMMA SameUint ==
    ASSUME NEW w, NEW v, NEW key, Same(w, v, key)
    PROVE  UintAt(v, key) = UintAt(w, key)
    BY Zenon DEF Same, UintAt

(* What a write does.                                                      *)
Stored(u, v, key, value) ==
    /\ DOMAIN v = DOMAIN NewState /\ SameElse(u, v) /\ Keeps(u, v)
    /\ \A k : k # key => Same(u, v, k) /\ UintAt(v, k) = UintAt(u, k)
    /\ key \in DOMAIN v.storage /\ v.storage[key] = value /\ UintAt(v, key) = value
    /\ Typed(u) /\ value \in Nat => Typed(v)

LEMMA StateSetStored ==
    ASSUME NEW u, DOMAIN u = DOMAIN NewState, NEW key, NEW value
    PROVE  Stored(u, StateSet(u, key, value), key, value)
<1> DEFINE v == StateSet(u, key, value)
<1>1. DOMAIN v = DOMAIN NewState /\ SameElse(u, v)
    BY Zenon DEF StateSet, Written, SameElse, NewState
<1>2. v.storage = Over(Entry(key, value), u.storage)
    BY Zenon DEF StateSet, Written, NewState
<1>3. /\ DOMAIN v.storage = DOMAIN u.storage \cup {key}
      /\ v.storage[key] = value
      /\ \A k \in DOMAIN u.storage : k # key => v.storage[k] = u.storage[k]
    BY <1>2, Zenon DEF Over, Entry
<1> HIDE DEF v
<1>4. \A k : k # key => Same(u, v, k)
    BY <1>3, Zenon DEF Same
<1>5. \A k : k # key => UintAt(v, k) = UintAt(u, k)
    BY <1>4, SameUint, Zenon
<1>6. UintAt(v, key) = value
    BY <1>3, Zenon DEF UintAt
<1>7. ASSUME Typed(u), value \in Nat PROVE Typed(v)
    BY <1>3, <1>7, Zenon DEF Typed
<1>8. QED
    BY <1>1, <1>3, <1>4, <1>5, <1>6, <1>7, Zenon DEF Stored, Keeps, v

(* The sum over keys that are the same is the same.                        *)
LEMMA SumSame ==
    ASSUME NEW w, NEW v, NEW variant, NEW c,
           \A key : key[1] = variant /\ key[2] = c => Same(w, v, key)
    PROVE  SumOver(v, variant, c) = SumOver(w, variant, c)
<1> DEFINE keys(u) == {key \in DOMAIN u.storage : key[1] = variant /\ key[2] = c}
<1>1. keys(v) = keys(w)
    BY Zenon DEF Same
<1>2. Restrict(v.storage, keys(v)) = Restrict(w.storage, keys(w))
    BY <1>1, Zenon DEF Restrict, Same
<1>3. QED
    BY <1>2, Zenon DEF SumOver

LEMMA TokenSame ==
    ASSUME NEW w, NEW v, NEW c,
           \A key : key[1] \in TokenVariants /\ key[2] = c => Same(w, v, key),
           TokenInvariantsHold(w, c)
    PROVE  TokenInvariantsHold(v, c)
<1>1. SumOver(v, "Balance", c) = SumOver(w, "Balance", c)
    BY SumSame DEF TokenVariants
<1>2. TotalSupply(v, c) = TotalSupply(w, c)
  <2> DEFINE key == <<"TotalSupply", c>>
  <2>1. key[1] \in TokenVariants /\ key[2] = c
    BY Zenon DEF TokenVariants
  <2>2. Same(w, v, key)
    BY <2>1, Zenon
  <2>3. QED
    BY <2>2, SameUint, Zenon DEF TotalSupply
<1>3. QED
    BY <1>1, <1>2, Zenon DEF TokenInvariantsHold

(* A write in the scope.                                                   *)
LEMMA StateSetFramed ==
    ASSUME NEW scope, NEW w, NEW u, Framed(scope, w, u),
           NEW key \in scope, key[1] \notin TokenVariants, NEW value \in Nat
    PROVE  Framed(scope, w, StateSet(u, key, value))
<1> DEFINE v == StateSet(u, key, value)
<1>1. Stored(u, v, key, value)
    BY StateSetStored, Zenon DEF Framed
<1> HIDE DEF v
<1>2. DOMAIN v = DOMAIN NewState /\ SameElse(w, v) /\ Keeps(w, v) /\ Typed(v)
    BY <1>1, Zenon DEF Framed, Stored, SameElse, Keeps
<1>3. \A k : Same(w, v, k) \/ k \in scope \/ LedgerKey(w, k)
    BY <1>1, Zenon DEF Framed, Stored, Same
<1>4. TokensBalance(w, v)
  <2>1. \A k : k[1] \in TokenVariants => Same(u, v, k)
    BY <1>1, Zenon DEF Stored
  <2>2. QED
    BY <2>1, TokenSame, Zenon DEF Framed, TokensBalance
<1>5. QED
    BY <1>2, <1>3, <1>4, Zenon DEF Framed, v

-----------------------------------------------------------------------------
(* The asset ledgers.                                                      *)

(* A resolved asset has one ledger, of one of the two kinds.               *)
LEMMA ResolvedLedger ==
    ASSUME NEW w, NEW asset, Resolves(w, asset)
    PROVE  /\ NativeLedgers(w, asset) # {} =>
                  LedgerOf(w, asset) \in NativeLedgers(w, asset) /\ AspectLedgers(w, asset) = {}
           /\ NativeLedgers(w, asset) = {} => asset \in Deployed(w, "AspectModule")
<1> DEFINE native == NativeLedgers(w, asset)
           aspect == AspectLedgers(w, asset)
<1>1. PICK c : native \cup aspect = {c}
    BY Zenon DEF Resolves
<1>2. native \cap aspect = {}
    BY Zenon DEF NativeLedgers, AspectLedgers, Deployed
<1>3. native # {} => aspect = {} /\ LedgerOf(w, asset) \in native
  <2>1. native # {} => aspect = {}
    BY <1>1, <1>2, Zenon
  <2>2. native # {} => LedgerOf(w, asset) \in native \cup aspect
    BY Zenon DEF LedgerOf
  <2>3. QED
    BY <2>1, <2>2, Zenon
<1>4. native = {} => c \in aspect
    BY <1>1, Zenon
<1>5. QED
    BY <1>3, <1>4, Zenon DEF AspectLedgers

(* The books of one token are written, and balance.                        *)
LEMMA TokenFramed ==
    ASSUME NEW scope, NEW w, NEW u, Framed(scope, w, u), NEW c \in Deployed(w, "Token"),
           NEW v, DOMAIN v = DOMAIN NewState, SameElse(u, v), Keeps(u, v), Typed(v),
           \A key : Same(u, v, key) \/ (key[1] \in TokenVariants /\ key[2] = c),
           TokenInvariantsHold(v, c)
    PROVE  Framed(scope, w, v)
<1>1. SameElse(w, v) /\ Keeps(w, v)
    BY Zenon DEF Framed, SameElse, Keeps
<1>2. ASSUME NEW key PROVE Same(w, v, key) \/ key \in scope \/ LedgerKey(w, key)
  <2>1. CASE key[1] \in TokenVariants /\ key[2] = c
    BY <2>1, Zenon DEF LedgerKey
  <2>2. CASE Same(u, v, key)
    BY <2>2, Zenon DEF Framed, Same
  <2>3. QED
    BY <2>1, <2>2, Zenon
<1>3. ASSUME NEW d \in Deployed(w, "Token"), d # c, TokenInvariantsHold(w, d)
      PROVE  TokenInvariantsHold(v, d)
  <2>1. TokenInvariantsHold(u, d)
    BY <1>3, Zenon DEF Framed, TokensBalance
  <2>2. \A key : key[1] \in TokenVariants /\ key[2] = d => Same(u, v, key)
    BY <1>3, Zenon
  <2>3. QED
    BY <2>1, <2>2, TokenSame, Zenon
<1>4. QED
    BY <1>1, <1>2, <1>3, Zenon DEF Framed, TokensBalance

(* Two keys of a token are written.                                        *)
LEMMA TwoTokenWrites ==
    ASSUME NEW scope, NEW w, NEW u, Framed(scope, w, u), NEW c \in Deployed(w, "Token"),
           NEW key, key[1] \in TokenVariants, key[2] = c, NEW value \in Nat,
           NEW key2, key2[1] \in TokenVariants, key2[2] = c, NEW value2 \in Nat
    PROVE  LET v == StateSet(StateSet(u, key, value), key2, value2)
           IN  Restorable(w, v) /\ (TokenInvariantsHold(v, c) => Framed(scope, w, v))
<1> DEFINE x == StateSet(u, key, value)
           v == StateSet(x, key2, value2)
<1>1. Stored(u, x, key, value)
    BY StateSetStored, Zenon DEF Framed
<1>2. Stored(x, v, key2, value2)
    BY <1>1, StateSetStored, Zenon DEF Stored
<1> HIDE DEF x, v
<1>3. DOMAIN v = DOMAIN NewState /\ SameElse(u, v) /\ Keeps(u, v) /\ Typed(v)
    BY <1>1, <1>2, Zenon DEF Stored, SameElse, Keeps, Framed
<1>4. \A k : Same(u, v, k) \/ (k[1] \in TokenVariants /\ k[2] = c)
  <2>1. \A k : k = key \/ k = key2 \/ Same(u, v, k)
    BY <1>1, <1>2, Zenon DEF Stored, Same
  <2>2. QED
    BY <2>1, Zenon
<1>5. TokenInvariantsHold(v, c) => Framed(scope, w, v)
    BY <1>3, <1>4, TokenFramed, Zenon
<1>6. Restorable(w, v)
    BY <1>3, Zenon DEF Restorable, SameElse, Framed
<1>7. QED
    BY <1>5, <1>6, Zenon DEF v, x

LEMMA CheckedTokenOutcome ==
    ASSUME NEW scope, NEW w, NEW v, NEW c, Restorable(w, v),
           TokenInvariantsHold(v, c) => Framed(scope, w, v)
    PROVE  FramedOutcome(scope, w, Require(TokenInvariantsHold(v, c), v, Ok(v)))
    BY Zenon DEF FramedOutcome, Require, Ok, Err

LEMMA TransferNativeFramed ==
    ASSUME NEW scope, NEW w, NEW u, Framed(scope, w, u), NEW c \in Deployed(w, "Token"),
           NEW from, NEW to, NEW amount \in Nat
    PROVE  FramedOutcome(scope, w, TransferNative(u, c, from, to, amount))
<1> DEFINE paid == <<"Balance", c, from>>
           credited == <<"Balance", c, to>>
           left == Balance(u, c, from) - amount
           new_to == Balance(u, c, to) + amount
           moved == StateSet(StateSet(u, paid, left), credited, new_to)
<1>1. /\ paid[1] \in TokenVariants /\ paid[2] = c
      /\ credited[1] \in TokenVariants /\ credited[2] = c
    BY Zenon DEF TokenVariants
<1>2. Balance(u, c, from) \in Nat /\ Balance(u, c, to) \in Nat
    BY UintNat, Zenon DEF Balance, Framed
<1>3. new_to \in Nat /\ (Balance(u, c, from) >= amount => left \in Nat)
    BY <1>2
<1> HIDE DEF paid, credited, left, new_to
<1>4. Balance(u, c, from) >= amount =>
          /\ Restorable(w, moved) /\ (TokenInvariantsHold(moved, c) => Framed(scope, w, moved))
    BY <1>1, <1>3, TwoTokenWrites, Zenon
<1> HIDE DEF moved
<1>5. Balance(u, c, from) >= amount =>
          FramedOutcome(scope, w, Require(TokenInvariantsHold(moved, c), moved, Ok(moved)))
    BY <1>4, CheckedTokenOutcome, Zenon
<1>6. FramedOutcome(scope, w, Err(u))
    BY ErrOutcome, Zenon
<1>7. QED
    BY <1>5, <1>6, Zenon DEF TransferNative, Require, moved, paid, credited, left, new_to

LEMMA MintNativeFramed ==
    ASSUME NEW scope, NEW w, NEW u, Framed(scope, w, u), NEW c \in Deployed(w, "Token"),
           NEW to, NEW amount \in Nat
    PROVE  FramedOutcome(scope, w, MintNative(u, c, to, amount))
<1> DEFINE supply == <<"TotalSupply", c>>
           credited == <<"Balance", c, to>>
           new_total_supply == TotalSupply(u, c) + amount
           new_to == Balance(u, c, to) + amount
           minted == StateSet(StateSet(u, supply, new_total_supply), credited, new_to)
<1>1. /\ supply[1] \in TokenVariants /\ supply[2] = c
      /\ credited[1] \in TokenVariants /\ credited[2] = c
    BY Zenon DEF TokenVariants
<1>2. TotalSupply(u, c) \in Nat /\ Balance(u, c, to) \in Nat
    BY UintNat, Zenon DEF TotalSupply, Balance, Framed
<1>3. new_total_supply \in Nat /\ new_to \in Nat
    BY <1>2
<1> HIDE DEF supply, credited, new_total_supply, new_to
<1>4. Restorable(w, minted) /\ (TokenInvariantsHold(minted, c) => Framed(scope, w, minted))
    BY <1>1, <1>3, TwoTokenWrites, Zenon
<1> HIDE DEF minted
<1>5. FramedOutcome(scope, w, Require(TokenInvariantsHold(minted, c), minted, Ok(minted)))
    BY <1>4, CheckedTokenOutcome, Zenon
<1>6. FramedOutcome(scope, w, Err(u))
    BY ErrOutcome, Zenon
<1>7. QED
    BY <1>5, <1>6, Zenon
    DEF MintNative, Require, minted, supply, credited, new_total_supply, new_to

(* The state of an aspect ledger.                                          *)
LEMMA AspectWriteFramed ==
    ASSUME NEW scope, NEW w, NEW u, Framed(scope, w, u), NEW c \in CalledLedgers(w),
           NEW key, key[1] = "AspectState", key[2] = c, NEW value \in Nat
    PROVE  Framed(scope, w, StateSet(u, key, value))
<1> DEFINE v == StateSet(u, key, value)
<1>1. Stored(u, v, key, value)
    BY StateSetStored, Zenon DEF Framed
<1> HIDE DEF v
<1>2. DOMAIN v = DOMAIN NewState /\ SameElse(w, v) /\ Keeps(w, v) /\ Typed(v)
    BY <1>1, Zenon DEF Framed, Stored, SameElse, Keeps
<1>3. LedgerKey(w, key)
    BY Zenon DEF LedgerKey
<1>4. \A k : Same(w, v, k) \/ k \in scope \/ LedgerKey(w, k)
    BY <1>1, <1>3, Zenon DEF Framed, Stored, Same
<1>5. TokensBalance(w, v)
  <2>1. \A k : k[1] \in TokenVariants => Same(u, v, k)
    BY <1>1, Zenon DEF Stored, TokenVariants
  <2>2. QED
    BY <2>1, TokenSame, Zenon DEF Framed, TokensBalance
<1>6. QED
    BY <1>2, <1>4, <1>5, Zenon DEF Framed, v

LEMMA AspectKeysFramed ==
    ASSUME NEW scope, NEW w, NEW u, Framed(scope, w, u), NEW c \in CalledLedgers(w),
           NEW field, NEW value \in Nat
    PROVE  /\ Framed(scope, w, StateSet(u, <<"AspectState", c, field>>, value))
           /\ \A owner : Framed(scope, w, StateSet(u, <<"AspectState", c, field, owner>>, value))
    BY AspectWriteFramed, Zenon

LEMMA AspectInitializeFramed ==
    ASSUME NEW scope, NEW w, NEW u, Framed(scope, w, u), NEW c \in CalledLedgers(w),
           NEW owner, NEW amount \in Nat
    PROVE  FramedOutcome(scope, w, AspectInitialize(u, c, owner, amount))
    BY AspectKeysFramed, OkOutcome, ErrOutcome, Zenon DEF AspectInitialize, Require

LEMMA AspectTransferFramed ==
    ASSUME NEW scope, NEW w, NEW u, Framed(scope, w, u), NEW c \in CalledLedgers(w),
           NEW from, NEW to, NEW amount \in Nat
    PROVE  FramedOutcome(scope, w, AspectTransfer(u, c, from, to, amount))
<1> DEFINE from_balance == UintAt(u, <<"AspectState", c, "balanceOf", from>>)
           new_to == UintAt(u, <<"AspectState", c, "balanceOf", to>>) + amount
           left == from_balance - amount
<1>1. from_balance \in Nat /\ new_to \in Nat
    BY UintNat DEF Framed
<1>2. from_balance >= amount => left \in Nat
    BY <1>1
<1> HIDE DEF from_balance, new_to, left
<1>3. from_balance >= amount =>
          Framed(scope, w, StateSet(StateSet(u, <<"AspectState", c, "balanceOf", from>>, left),
                                    <<"AspectState", c, "balanceOf", to>>, new_to))
    BY <1>1, <1>2, AspectKeysFramed, Zenon
<1>4. QED
    BY <1>3, OkOutcome, ErrOutcome, Zenon DEF AspectTransfer, Require, from_balance, new_to, left

(* Contracts are the same, and so are ledgers.                             *)
LEMMA SameLedgers ==
    ASSUME NEW w, NEW v, v.contracts = w.contracts, NEW asset
    PROVE  /\ NativeLedgers(v, asset) = NativeLedgers(w, asset)
           /\ AspectLedgers(v, asset) = AspectLedgers(w, asset)
           /\ \A name : Deployed(v, name) = Deployed(w, name)
           /\ LedgerOf(v, asset) = LedgerOf(w, asset)
           /\ \A c : Kind(v, c) = Kind(w, c)
<1>1. /\ \A name : Deployed(v, name) = Deployed(w, name)
      /\ \A c : Kind(v, c) = Kind(w, c)
    BY Zenon DEF Deployed, Kind
<1>2. /\ NativeLedgers(v, asset) = NativeLedgers(w, asset)
      /\ AspectLedgers(v, asset) = AspectLedgers(w, asset)
    BY <1>1 DEF NativeLedgers, AspectLedgers, Contract
<1>3. LedgerOf(v, asset) = LedgerOf(w, asset)
    BY <1>2, Zenon DEF LedgerOf
<1>4. QED
    BY <1>1, <1>2, <1>3, Zenon

LEMMA TransferAssetFramed ==
    ASSUME NEW scope, NEW w, Sized(w), NEW u, Framed(scope, w, u),
           NEW from, NEW to, NEW asset, NEW amount \in Nat
    PROVE  FramedOutcome(scope, w, TransferAsset(u, from, to, asset, amount))
<1>1. Sized(u)
    BY FramedSized, Zenon
<1>2. \A name : Deployed(u, name) = Deployed(w, name)
    BY SameLedgers, Zenon DEF Framed, SameElse
<1>3. ASSUME Resolves(u, asset), NativeLedgers(u, asset) # {}
      PROVE  LedgerOf(u, asset) \in Deployed(w, "Token")
    BY <1>1, <1>2, <1>3, ResolvedLedger, Zenon DEF Sized, NativeLedgers
<1>4. ASSUME Resolves(u, asset), NativeLedgers(u, asset) = {}, asset \notin u.paused_contracts
      PROVE  asset \in CalledLedgers(w)
    BY <1>1, <1>2, <1>4, ResolvedLedger, Zenon DEF CalledLedgers, Framed, SameElse
<1>5. QED
    BY <1>3, <1>4, TransferNativeFramed, AspectTransferFramed, ErrOutcome, Zenon DEF TransferAsset, Require

LEMMA MintAssetFramed ==
    ASSUME NEW scope, NEW w, Sized(w), NEW u, Framed(scope, w, u),
           NEW to, NEW asset, NEW amount \in Nat
    PROVE  FramedOutcome(scope, w, MintAsset(u, to, asset, amount))
<1>1. Sized(u)
    BY FramedSized, Zenon
<1>2. \A name : Deployed(u, name) = Deployed(w, name)
    BY SameLedgers, Zenon DEF Framed, SameElse
<1>3. ASSUME Resolves(u, asset), NativeLedgers(u, asset) # {}
      PROVE  LedgerOf(u, asset) \in Deployed(w, "Token")
    BY <1>1, <1>2, <1>3, ResolvedLedger, Zenon DEF Sized, NativeLedgers
<1>4. QED
    BY <1>3, MintNativeFramed, ErrOutcome, Zenon DEF MintAsset, Require

-----------------------------------------------------------------------------
(* The arithmetic of a swap.                                               *)

LEMMA ProductMonotone ==
    ASSUME NEW a \in Nat, NEW b \in Nat, NEW c \in Nat, a <= b
    PROVE  a * c <= b * c
    OBVIOUS

LEMMA ProductGrows ==
    ASSUME NEW a \in Nat, NEW b \in Nat, NEW m \in Nat, NEW n \in Nat
    PROVE  (a + m) * (b + n) >= a * b
<1>1. (a + m) * (b + n) = a * b + a * n + m * b + m * n
    OBVIOUS
<1>2. a * n \in Nat /\ m * b \in Nat /\ m * n \in Nat /\ a * b \in Nat
    OBVIOUS
<1>3. QED
    BY <1>1, <1>2

LEMMA DivisionBound ==
    ASSUME NEW n \in Nat, NEW d \in Nat, d > 0
    PROVE  n \div d \in Nat /\ d * (n \div d) <= n
    OBVIOUS

(* amount_after_fee is at most the amount.                                 *)
LEMMA ShareBound ==
    ASSUME NEW amount \in Nat, NEW b \in Nat, b > 0, NEW fee \in Nat, fee <= b
    PROVE  /\ (amount * (b - fee)) \div b \in Nat
           /\ (amount * (b - fee)) \div b <= amount
<1> DEFINE n == amount * (b - fee)
           q == n \div b
<1>1. b - fee \in Nat /\ b - fee <= b
    OBVIOUS
<1>2. n \in Nat /\ n <= b * amount
    BY <1>1, ProductMonotone
<1>3. q \in Nat /\ b * q <= n
    BY <1>2, DivisionBound, Zenon
<1> HIDE DEF n, q
<1>4. q <= amount
  <2>1. SUFFICES ASSUME q >= amount + 1 PROVE FALSE
    BY <1>3
  <2>2. (amount + 1) * b <= q * b
    BY <1>3, <2>1, ProductMonotone
  <2>3. QED
    BY <1>2, <1>3, <2>2
<1>5. QED
    BY <1>3, <1>4, Zenon DEF n, q

LEMMA BasisPointsPositive == BasisPoints \in Nat /\ BasisPoints > 0
    BY DEF BasisPoints

LEMMA AfterFeeBound ==
    ASSUME NEW amount \in Nat, NEW fee \in 0..BasisPoints
    PROVE  AmountAfterFee(amount, fee) \in Nat /\ AmountAfterFee(amount, fee) <= amount
<1>1. fee \in Nat /\ fee <= BasisPoints
    BY BasisPointsPositive
<1>2. QED
    BY <1>1, BasisPointsPositive, ShareBound, Zenon DEF AmountAfterFee

(* The output of a swap, rounded down, leaves the product no smaller, even *)
(* without the fee; the fee that stays in the pool adds to it.             *)
LEMMA SwapKeepsProduct ==
    ASSUME NEW rin \in Nat, NEW rout \in Nat, rin > 0,
           NEW amount \in Nat, NEW x \in Nat, x <= amount,
           NEW out, out = AmountOut(rin, rout, x), out <= rout
    PROVE  /\ out \in Nat
           /\ (rin + amount) * (rout - out) >= rin * rout
<1> DEFINE d == rin + x
           rest == rout - out
<1>1. d \in Nat /\ d > 0 /\ rout * x \in Nat
    OBVIOUS
<1>2. out \in Nat /\ d * out <= rout * x
    BY <1>1, DivisionBound, Zenon DEF AmountOut
<1>3. rest \in Nat
    BY <1>2
<1>4. d * rest = rin * rout + (rout * x - d * out)
    BY <1>2
<1>5. d * rest >= rin * rout
    BY <1>1, <1>2, <1>3, <1>4
<1>6. (rin + amount) * rest >= d * rest
    BY <1>1, <1>3, ProductMonotone
<1>7. QED
    BY <1>1, <1>2, <1>3, <1>5, <1>6

-----------------------------------------------------------------------------
(***************************************************************************)
(* The pool's handlers: what they write, and the product of the reserves,  *)
(* which does not fall.  The argument for a swap is about its rounding:    *)
(* the fee is rounded up and the output is rounded down.                   *)
(***************************************************************************)

LiquidityScope(w, t) ==
    {<<"Reserve", t.target, Kind(w, t.target).asset_a>>,
     <<"Reserve", t.target, Kind(w, t.target).asset_b>>,
     <<"LpSupply", t.target>>, <<"LpBalance", t.target, t.sender>>}

SwapScope(w, t) ==
    {<<"Reserve", t.target, Kind(w, t.target).asset_a>>,
     <<"Reserve", t.target, Kind(w, t.target).asset_b>>,
     <<"AmmFeeCollected", t.target, t.asset>>}

(* The pool's shares add up, and its product has not fallen.               *)
PoolKept(w, o, c) ==
    o.ok => AmmInvariantsHold(o.w, c) /\ PoolProduct(o.w, c) >= PoolProduct(w, c)

(* Two reserves are written, then a key that is not a reserve.             *)
TwoReserves(w, c, a, b, reserve_a, reserve_b) ==
    StateSet(StateSet(w, <<"Reserve", c, a>>, reserve_a), <<"Reserve", c, b>>, reserve_b)

LEMMA TwoReservesRead ==
    ASSUME NEW u, DOMAIN u = DOMAIN NewState, NEW c, NEW a, NEW b, a # b, NEW ra, NEW rb
    PROVE  LET v == TwoReserves(u, c, a, b, ra, rb)
           IN  /\ DOMAIN v = DOMAIN NewState
               /\ Reserve(v, c, a) = ra /\ Reserve(v, c, b) = rb
<1> DEFINE key_a == <<"Reserve", c, a>>
           key_b == <<"Reserve", c, b>>
           x == StateSet(u, key_a, ra)
           v == StateSet(x, key_b, rb)
<1>1. key_a # key_b
    BY Zenon
<1>2. Stored(u, x, key_a, ra)
    BY StateSetStored, Zenon
<1>3. Stored(x, v, key_b, rb)
    BY <1>2, StateSetStored, Zenon DEF Stored
<1> HIDE DEF x, v
<1>4. DOMAIN v = DOMAIN NewState /\ UintAt(v, key_a) = ra /\ UintAt(v, key_b) = rb
    BY <1>1, <1>2, <1>3, Zenon DEF Stored
<1>5. QED
    BY <1>4, Zenon DEF TwoReserves, Reserve, v, x

LEMMA OtherKeyKeepsReserves ==
    ASSUME NEW u, DOMAIN u = DOMAIN NewState, NEW key, key[1] # "Reserve", NEW value
    PROVE  LET v == StateSet(u, key, value)
           IN  /\ DOMAIN v = DOMAIN NewState
               /\ \A c, asset : Reserve(v, c, asset) = Reserve(u, c, asset)
<1> DEFINE v == StateSet(u, key, value)
<1>1. Stored(u, v, key, value)
    BY StateSetStored, Zenon
<1> HIDE DEF v
<1>2. \A c, asset : <<"Reserve", c, asset>> # key
    OBVIOUS
<1>3. QED
    BY <1>1, <1>2 DEF Stored, Reserve, v

(* A pool, its assets and its reserves.                                    *)
Pool(w, c) ==
    /\ Kind(w, c).asset_a # Kind(w, c).asset_b
    /\ Kind(w, c).swap_fee_bps \in 0..BasisPoints

LEMMA ReservesNat ==
    ASSUME NEW w, Typed(w), NEW c
    PROVE  \A asset : Reserve(w, c, asset) \in Nat
    BY UintNat, Zenon DEF Reserve

LEMMA ProductOf ==
    ASSUME NEW w, NEW v, NEW c, Kind(v, c) = Kind(w, c), NEW a, NEW b,
           \/ a = Kind(w, c).asset_a /\ b = Kind(w, c).asset_b
           \/ a = Kind(w, c).asset_b /\ b = Kind(w, c).asset_a,
           NEW ra \in Nat, NEW rb \in Nat, Reserve(v, c, a) = ra, Reserve(v, c, b) = rb
    PROVE  PoolProduct(v, c) = ra * rb
<1>1. ra * rb = rb * ra
    OBVIOUS
<1>2. QED
    BY <1>1, Zenon DEF PoolProduct

(* add_liquidity books what it read before the transfers.                  *)
LEMMA BookLiquidityOutcome ==
    ASSUME NEW w, Sized(w), NEW t, Pool(w, t.target), t.amount \in Nat, t.amount_b \in Nat,
           NEW u, Framed(LiquidityScope(w, t), w, u)
    PROVE  LET k == Kind(w, t.target)
               o == BookLiquidity(u, t, Reserve(w, t.target, k.asset_a),
                                  Reserve(w, t.target, k.asset_b), LpSupply(w, t.target),
                                  LpBalance(w, t.target, t.sender))
           IN  FramedOutcome(LiquidityScope(w, t), w, o) /\ PoolKept(w, o, t.target)
<1> DEFINE c == t.target
           k == Kind(w, c)
           scope == LiquidityScope(w, t)
           ra == Reserve(w, c, k.asset_a)
           rb == Reserve(w, c, k.asset_b)
           minted_lp == t.amount + t.amount_b
           na == ra + t.amount
           nb == rb + t.amount_b
           supply == LpSupply(w, c) + minted_lp
           balance == LpBalance(w, c, t.sender) + minted_lp
           reserved == TwoReserves(u, c, k.asset_a, k.asset_b, na, nb)
           supplied == StateSet(reserved, <<"LpSupply", c>>, supply)
           booked == StateSet(supplied, <<"LpBalance", c, t.sender>>, balance)
           o == BookLiquidity(u, t, ra, rb, LpSupply(w, c), LpBalance(w, c, t.sender))
<1>1. Kind(u, c) = k /\ DOMAIN u = DOMAIN NewState
    BY Zenon DEF Framed, SameElse, Kind
<1>2. /\ ra \in Nat /\ rb \in Nat /\ LpSupply(w, c) \in Nat /\ LpBalance(w, c, t.sender) \in Nat
    BY UintNat, Zenon DEF Sized, Reserve, LpSupply, LpBalance
<1>3. na \in Nat /\ nb \in Nat /\ supply \in Nat /\ balance \in Nat
    BY <1>2
<1>4. /\ <<"Reserve", c, k.asset_a>> \in scope /\ <<"Reserve", c, k.asset_b>> \in scope
      /\ <<"LpSupply", c>> \in scope /\ <<"LpBalance", c, t.sender>> \in scope
    BY Zenon DEF LiquidityScope
<1>5. PoolProduct(w, c) = ra * rb
    BY <1>2, ProductOf
<1>6. na * nb >= ra * rb
    BY <1>2, ProductGrows, Zenon
<1> HIDE DEF ra, rb, na, nb, supply, balance, scope, minted_lp
<1>7. Framed(scope, w, booked)
  <2>1. Framed(scope, w, reserved)
    BY <1>3, <1>4, StateSetFramed, Zenon DEF TwoReserves, TokenVariants, scope
  <2>2. Framed(scope, w, supplied)
    BY <1>3, <1>4, <2>1, StateSetFramed, Zenon DEF TokenVariants
  <2>3. QED
    BY <1>3, <1>4, <2>2, StateSetFramed, Zenon DEF TokenVariants
<1>8. PoolProduct(booked, c) = na * nb
  <2>1. /\ DOMAIN reserved = DOMAIN NewState
        /\ Reserve(reserved, c, k.asset_a) = na /\ Reserve(reserved, c, k.asset_b) = nb
    BY <1>1, TwoReservesRead DEF Pool
  <2>2. /\ Reserve(booked, c, k.asset_a) = na /\ Reserve(booked, c, k.asset_b) = nb
    BY <2>1, OtherKeyKeepsReserves
  <2>3. Kind(booked, c) = Kind(w, c)
    BY <1>7, Zenon DEF Framed, SameElse, Kind
  <2>4. QED
    BY <1>3, <2>2, <2>3, ProductOf
<1>9. \/ o = Err(u)
      \/ o = Err(booked)
      \/ o = Ok(booked) /\ AmmInvariantsHold(booked, c)
    BY <1>1, Zenon DEF BookLiquidity, TwoReserves, Require, ra, rb, na, nb, supply, balance, minted_lp
<1> HIDE DEF booked, o
<1>10. FramedOutcome(scope, w, o)
    BY <1>7, <1>9, OkOutcome, ErrOutcome, Zenon DEF scope
<1>11. PoolKept(w, o, c)
    BY <1>5, <1>6, <1>8, <1>9 DEF PoolKept, Ok, Err
<1>12. QED
    BY <1>10, <1>11, Zenon DEF o, ra, rb, scope

LEMMA AddLiquidityOutcome ==
    ASSUME NEW w, Sized(w), NEW t, Pool(w, t.target), t.amount \in Nat, t.amount_b \in Nat
    PROVE  LET o == AddLiquidity(w, t)
           IN  FramedOutcome(LiquidityScope(w, t), w, o) /\ PoolKept(w, o, t.target)
<1> DEFINE c == t.target
           k == Kind(w, c)
           scope == LiquidityScope(w, t)
           first == TransferAsset(w, t.sender, c, k.asset_a, t.amount)
           second == TransferAsset(first.w, t.sender, c, k.asset_b, t.amount_b)
           booked == BookLiquidity(second.w, t, Reserve(w, c, k.asset_a), Reserve(w, c, k.asset_b),
                                   LpSupply(w, c), LpBalance(w, c, t.sender))
           good(o) == FramedOutcome(scope, w, o) /\ PoolKept(w, o, c)
<1>1. FramedOutcome(scope, w, first)
    BY FramedSelf, TransferAssetFramed, Zenon
<1>2. first.ok => FramedOutcome(scope, w, second)
    BY <1>1, SuccessFramed, TransferAssetFramed, Zenon
<1>3. first.ok /\ second.ok => good(booked)
    BY <1>2, SuccessFramed, BookLiquidityOutcome, Zenon
<1>4. /\ ~first.ok => good(first)
      /\ first.ok /\ ~second.ok => good(second)
    BY <1>1, <1>2, Zenon DEF PoolKept
<1>5. good(Err(w))
    BY FramedSelf, ErrOutcome, Zenon DEF PoolKept, Err
<1> HIDE DEF first, second, booked, good
<1>6. good(AddLiquidity(w, t))
    BY <1>3, <1>4, <1>5, Zenon DEF AddLiquidity, Then, Require, first, second, booked
<1>7. QED
    BY <1>6, Zenon DEF good

(* swap books reserves whose product its rounding does not let fall.       *)
LEMMA BookSwapOutcome ==
    ASSUME NEW w, Sized(w), NEW t, Pool(w, t.target), NEW u, Framed(SwapScope(w, t), w, u),
           NEW output,
           \/ t.asset = Kind(w, t.target).asset_a /\ output = Kind(w, t.target).asset_b
           \/ t.asset = Kind(w, t.target).asset_b /\ output = Kind(w, t.target).asset_a,
           NEW rin \in Nat, NEW rout \in Nat, NEW fee_amount \in Nat,
           rin * rout >= PoolProduct(w, t.target)
    PROVE  LET o == BookSwap(u, t, output, rin, rout, fee_amount)
           IN  FramedOutcome(SwapScope(w, t), w, o) /\ PoolKept(w, o, t.target)
<1> DEFINE c == t.target
           scope == SwapScope(w, t)
           fee == AmmFeeCollected(u, c, t.asset) + fee_amount
           moved == TwoReserves(u, c, t.asset, output, rin, rout)
           charged == StateSet(moved, <<"AmmFeeCollected", c, t.asset>>, fee)
           o == BookSwap(u, t, output, rin, rout, fee_amount)
<1>1. DOMAIN u = DOMAIN NewState /\ fee \in Nat /\ t.asset # output
  <2>1. DOMAIN u = DOMAIN NewState /\ Typed(u)
    BY Zenon DEF Framed
  <2>2. AmmFeeCollected(u, c, t.asset) \in Nat
    BY <2>1, UintNat, Zenon DEF AmmFeeCollected
  <2>3. QED
    BY <2>1, <2>2 DEF Pool
<1>2. /\ <<"Reserve", c, t.asset>> \in scope /\ <<"Reserve", c, output>> \in scope
      /\ <<"AmmFeeCollected", c, t.asset>> \in scope
    BY Zenon DEF SwapScope
<1> HIDE DEF scope, fee
<1>3. Framed(scope, w, moved)
    BY <1>2, StateSetFramed, Zenon DEF TwoReserves, TokenVariants, scope
<1>4. Framed(scope, w, charged)
    BY <1>1, <1>2, <1>3, StateSetFramed, Zenon DEF TokenVariants
<1>5. /\ DOMAIN moved = DOMAIN NewState
      /\ Reserve(moved, c, t.asset) = rin /\ Reserve(moved, c, output) = rout
    BY <1>1, TwoReservesRead
<1>6. Reserve(charged, c, t.asset) = rin /\ Reserve(charged, c, output) = rout
    BY <1>5, OtherKeyKeepsReserves
<1>7. Kind(moved, c) = Kind(w, c) /\ Kind(charged, c) = Kind(w, c)
    BY <1>3, <1>4, Zenon DEF Framed, SameElse, Kind
<1>8. PoolProduct(moved, c) = rin * rout /\ PoolProduct(charged, c) = rin * rout
    BY <1>5, <1>6, <1>7, ProductOf
<1>9. \E v \in {moved, charged} : \/ o = Err(u)
                                  \/ o = Err(v)
                                  \/ o = Ok(v) /\ AmmInvariantsHold(v, c)
    BY Zenon DEF BookSwap, TwoReserves, Require, fee
<1> HIDE DEF moved, charged, o
<1>10. FramedOutcome(scope, w, o)
    BY <1>3, <1>4, <1>9, OkOutcome, ErrOutcome, Zenon DEF scope
<1>11. PoolKept(w, o, c)
    BY <1>8, <1>9 DEF PoolKept, Ok, Err
<1>12. QED
    BY <1>10, <1>11, Zenon DEF o, scope

LEMMA SwapOutcome ==
    ASSUME NEW w, Sized(w), NEW t, Pool(w, t.target), t.amount \in Nat
    PROVE  LET o == Swap(w, t)
           IN  FramedOutcome(SwapScope(w, t), w, o) /\ PoolKept(w, o, t.target)
<1> DEFINE c == t.target
           k == Kind(w, c)
           scope == SwapScope(w, t)
           input == t.asset
           output == IF input = k.asset_a THEN k.asset_b ELSE k.asset_a
           reserve_in == Reserve(w, c, input)
           reserve_out == Reserve(w, c, output)
           in_with_fee == AmountAfterFee(t.amount, k.swap_fee_bps)
           amount_out == AmountOut(reserve_in, reserve_out, in_with_fee)
           swaps == /\ input \in {k.asset_a, k.asset_b} /\ reserve_in # 0
                    /\ amount_out <= reserve_out
           first == TransferAsset(w, t.sender, c, input, t.amount)
           second == TransferAsset(first.w, c, t.sender, output, amount_out)
           booked == BookSwap(second.w, t, output, reserve_in + t.amount,
                              reserve_out - amount_out, t.amount - in_with_fee)
           good(o) == FramedOutcome(scope, w, o) /\ PoolKept(w, o, c)
<1>1. ASSUME swaps
      PROVE  /\ \/ input = k.asset_a /\ output = k.asset_b
                \/ input = k.asset_b /\ output = k.asset_a
             /\ amount_out \in Nat /\ t.amount - in_with_fee \in Nat
             /\ reserve_in + t.amount \in Nat /\ reserve_out - amount_out \in Nat
             /\ (reserve_in + t.amount) * (reserve_out - amount_out) >= PoolProduct(w, c)
  <2>1. /\ k.asset_a # k.asset_b /\ k.swap_fee_bps \in 0..BasisPoints
        /\ reserve_in \in Nat /\ reserve_out \in Nat
    BY ReservesNat, Zenon DEF Pool, Sized
  <2>2. \/ input = k.asset_a /\ output = k.asset_b
        \/ input = k.asset_b /\ output = k.asset_a
    BY <1>1, Zenon
  <2>4. in_with_fee \in Nat /\ in_with_fee <= t.amount
    BY <2>1, AfterFeeBound, Zenon
  <2>5. reserve_in > 0 /\ amount_out <= reserve_out
    BY <1>1, <2>1
  <2>6. PoolProduct(w, c) = reserve_in * reserve_out
    BY <2>1, <2>2, ProductOf
  <2> HIDE DEF output, reserve_in, reserve_out, in_with_fee
  <2>7. /\ amount_out \in Nat
        /\ (reserve_in + t.amount) * (reserve_out - amount_out) >= reserve_in * reserve_out
    BY <2>1, <2>4, <2>5, SwapKeepsProduct, Zenon
  <2> HIDE DEF amount_out
  <2>8. QED
    BY <2>1, <2>2, <2>4, <2>5, <2>6, <2>7
<1>2. FramedOutcome(scope, w, first)
    BY FramedSelf, TransferAssetFramed, Zenon
<1>3. swaps /\ first.ok => FramedOutcome(scope, w, second)
  <2> HIDE DEF output, amount_out, swaps
  <2>1. QED
    BY <1>1, <1>2, SuccessFramed, TransferAssetFramed, Zenon
<1>4. swaps /\ first.ok /\ second.ok => good(booked)
  <2> HIDE DEF output, reserve_in, reserve_out, in_with_fee, amount_out, swaps, second
  <2>1. QED
    BY <1>1, <1>3, SuccessFramed, BookSwapOutcome, Zenon
<1>5. /\ ~first.ok => good(first)
      /\ swaps /\ first.ok /\ ~second.ok => good(second)
  <2> HIDE DEF swaps, second, first
  <2>1. QED
    BY <1>2, <1>3, Zenon DEF PoolKept
<1>6. good(Err(w))
    BY FramedSelf, ErrOutcome, Zenon DEF PoolKept, Err
<1> HIDE DEF first, second, booked, good
<1>7. good(Swap(w, t))
    BY <1>4, <1>5, <1>6, Zenon DEF Swap, Then, Require, first, second, booked
<1>8. QED
    BY <1>7, Zenon DEF good


-----------------------------------------------------------------------------
(* The oracle and the lending vault.                                       *)

PriceScope(c, asset) == {<<"OraclePrice", c, asset>>, <<"OracleTimestamp", c, asset>>}

LEMMA SubmitPriceFramed ==
    ASSUME NEW w, Sized(w), NEW t, t.price \in Nat, t.timestamp \in Nat
    PROVE  FramedOutcome(PriceScope(t.target, t.asset), w, SubmitPrice(w, t))
<1> DEFINE scope == PriceScope(t.target, t.asset)
           priced == StateSet(w, <<"OraclePrice", t.target, t.asset>>, t.price)
           stamped == StateSet(priced, <<"OracleTimestamp", t.target, t.asset>>, t.timestamp)
<1>1. <<"OraclePrice", t.target, t.asset>> \in scope /\ <<"OracleTimestamp", t.target, t.asset>> \in scope
    BY Zenon DEF PriceScope
<1> HIDE DEF scope
<1>2. Framed(scope, w, w)
    BY FramedSelf, Zenon
<1>3. Framed(scope, w, priced)
    BY <1>1, <1>2, StateSetFramed, Zenon DEF TokenVariants
<1>4. Framed(scope, w, stamped)
    BY <1>1, <1>3, StateSetFramed, Zenon DEF TokenVariants
<1>5. QED
    BY <1>2, <1>4, OkOutcome, ErrOutcome, Zenon DEF SubmitPrice, Require, scope

(* The keys of a vault for one borrower.                                   *)
VaultScope(c, b) ==
    {<<"Debt", c, b>>, <<"Collateral", c, b>>, <<"DebtLastAccrualHeight", c, b>>, <<"BadDebt", c>>}

LEMMA VaultWrites ==
    ASSUME NEW c, NEW b, NEW w, NEW v, Framed(VaultScope(c, b), w, v), NEW value \in Nat
    PROVE  /\ Framed(VaultScope(c, b), w, StateSet(v, <<"Debt", c, b>>, value))
           /\ Framed(VaultScope(c, b), w, StateSet(v, <<"Collateral", c, b>>, value))
           /\ Framed(VaultScope(c, b), w, StateSet(v, <<"DebtLastAccrualHeight", c, b>>, value))
           /\ Framed(VaultScope(c, b), w, StateSet(v, <<"BadDebt", c>>, value))
<1> DEFINE scope == VaultScope(c, b)
<1>1. /\ <<"Debt", c, b>> \in scope /\ <<"Collateral", c, b>> \in scope
      /\ <<"DebtLastAccrualHeight", c, b>> \in scope /\ <<"BadDebt", c>> \in scope
    BY Zenon DEF VaultScope
<1> HIDE DEF scope
<1>2. \A key \in scope : key[1] \notin TokenVariants => Framed(scope, w, StateSet(v, key, value))
    BY StateSetFramed, Zenon DEF scope
<1>3. QED
    BY <1>1, <1>2, Zenon DEF TokenVariants, scope

LEMMA SaturatingSubNat ==
    ASSUME NEW h \in Nat, NEW g \in Nat
    PROVE  SaturatingSub(h, g) \in Nat
    BY DEF SaturatingSub

LEMMA ShareNat ==
    ASSUME NEW n \in Nat
    PROVE  n \div BasisPoints \in Nat
    BY BasisPointsPositive, DivisionBound, Zenon

LEMMA InterestNat ==
    ASSUME NEW w, Typed(w), w.height \in Nat, NEW c, NEW b, Kind(w, c).interest_bps \in Nat
    PROVE  Debt(w, c, b) \in Nat /\ Interest(w, c, b) \in Nat
<1> DEFINE last == UintAt(w, <<"DebtLastAccrualHeight", c, b>>)
           elapsed == SaturatingSub(w.height, last)
           debt == Debt(w, c, b)
           bps == Kind(w, c).interest_bps
<1>1. last \in Nat /\ debt \in Nat
    BY UintNat, Zenon DEF Debt
<1>2. elapsed \in Nat
    BY <1>1, SaturatingSubNat, Zenon
<1> HIDE DEF last, elapsed, debt, bps
<1>3. debt * bps * elapsed \in Nat
    BY <1>1, <1>2 DEF bps
<1>4. (debt * bps * elapsed) \div BasisPoints \in Nat
    BY <1>3, ShareNat, Zenon
<1>5. QED
    BY <1>1, <1>4, Zenon DEF Interest, debt, elapsed, last, bps

LEMMA AccrueLendingDebtFramed ==
    ASSUME NEW w, Sized(w), NEW c, NEW b, Kind(w, c).interest_bps \in Nat
    PROVE  FramedOutcome(VaultScope(c, b), w, AccrueLendingDebt(w, c, b))
<1> DEFINE scope == VaultScope(c, b)
           debt == Debt(w, c, b)
           interest == Interest(w, c, b)
           charged == IF interest = 0 THEN w ELSE StateSet(w, <<"Debt", c, b>>, debt + interest)
<1>1. debt \in Nat /\ interest \in Nat /\ w.height \in Nat
    BY InterestNat, Zenon DEF Sized
<1>2. Framed(scope, w, w)
    BY FramedSelf, Zenon
<1> HIDE DEF interest, debt
<1>3. Framed(scope, w, charged)
  <2>1. debt + interest \in Nat
    BY <1>1
  <2>2. Framed(scope, w, StateSet(w, <<"Debt", c, b>>, debt + interest))
    BY <1>2, <2>1, VaultWrites, Zenon
  <2>3. QED
    BY <1>2, <2>2, Zenon
<1> HIDE DEF charged
<1>4. Framed(scope, w, StateSet(charged, <<"DebtLastAccrualHeight", c, b>>, w.height))
    BY <1>1, <1>3, VaultWrites, Zenon
<1>5. QED
    BY <1>2, <1>4, OkOutcome, ErrOutcome, Zenon DEF AccrueLendingDebt, Require, charged, debt, interest

LEMMA DepositCollateralFramed ==
    ASSUME NEW w, Sized(w), NEW t, t.amount \in Nat
    PROVE  FramedOutcome(VaultScope(t.target, t.sender), w, DepositCollateral(w, t))
<1> DEFINE scope == VaultScope(t.target, t.sender)
           taken == TransferAsset(w, t.sender, t.target, t.asset, t.amount)
           next == Collateral(w, t.target, t.sender) + t.amount
<1>1. Framed(scope, w, w) /\ FramedOutcome(scope, w, taken)
    BY FramedSelf, TransferAssetFramed, Zenon
<1>2. next \in Nat
    BY UintNat DEF Sized, Collateral
<1> HIDE DEF next, taken
<1>3. taken.ok => Framed(scope, w, taken.w)
    BY <1>1, SuccessFramed, Zenon
<1>4. taken.ok => Framed(scope, w, StateSet(taken.w, <<"Collateral", t.target, t.sender>>, next))
    BY <1>2, <1>3, VaultWrites, Zenon
<1>5. QED
    BY <1>1, <1>3, <1>4, OkOutcome, ErrOutcome, Zenon DEF DepositCollateral, Then, Require, next, taken

LEMMA BorrowFramed ==
    ASSUME NEW w, Sized(w), NEW t, t.amount \in Nat, Kind(w, t.target).interest_bps \in Nat
    PROVE  FramedOutcome(VaultScope(t.target, t.sender), w, Borrow(w, t))
<1> DEFINE c == t.target
           scope == VaultScope(c, t.sender)
           accrued == AccrueLendingDebt(w, c, t.sender)
           next_debt == Debt(accrued.w, c, t.sender) + t.amount
           lent == TransferAsset(accrued.w, c, t.sender, Kind(w, c).debt_asset, t.amount)
           owed == StateSet(lent.w, <<"Debt", c, t.sender>>, next_debt)
<1>1. Framed(scope, w, w) /\ FramedOutcome(scope, w, accrued)
    BY FramedSelf, AccrueLendingDebtFramed, Zenon
<1> HIDE DEF accrued
<1>2. accrued.ok => Framed(scope, w, accrued.w)
    BY <1>1, SuccessFramed, Zenon
<1>3. accrued.ok => next_debt \in Nat
    BY <1>2, UintNat DEF Framed, Debt
<1>4. accrued.ok => FramedOutcome(scope, w, lent)
    BY <1>2, TransferAssetFramed, Zenon
<1> HIDE DEF lent, next_debt
<1>5. accrued.ok /\ lent.ok => Framed(scope, w, owed)
    BY <1>3, <1>4, SuccessFramed, VaultWrites, Zenon
<1>6. QED
    BY <1>1, <1>2, <1>4, <1>5, OkOutcome, ErrOutcome, Zenon
    DEF Borrow, Then, Require, accrued, lent, next_debt

(* The amounts of a liquidation.                                           *)
LEMMA LowerNat ==
    ASSUME NEW a \in Nat, NEW b \in Nat
    PROVE  Lower(a, b) \in Nat /\ Lower(a, b) <= a /\ Lower(a, b) <= b
    BY DEF Lower

LEMMA DivCeilNat ==
    ASSUME NEW n \in Nat, NEW d \in Nat, d # 0
    PROVE  DivCeil(n, d) \in Nat
<1>1. n + d - 1 \in Nat /\ d > 0
    OBVIOUS
<1>2. QED
    BY <1>1, DivisionBound, Zenon DEF DivCeil

LEMMA ExchangeForCollateralFramed ==
    ASSUME NEW scope, NEW w, Sized(w), NEW u, Framed(scope, w, u), NEW t,
           NEW repaid \in Nat, NEW seized \in Nat
    PROVE  FramedOutcome(scope, w, ExchangeForCollateral(u, t, repaid, seized))
    BY TransferAssetFramed, SuccessFramed, OkOutcome, Zenon DEF ExchangeForCollateral, Then

LEMMA BookLiquidationFramed ==
    ASSUME NEW w, NEW t, NEW u, Framed(VaultScope(t.target, t.borrower), w, u),
           NEW debt \in Nat, NEW collateral \in Nat
    PROVE  FramedOutcome(VaultScope(t.target, t.borrower), w, BookLiquidation(u, t, debt, collateral))
    BY VaultWrites, OkOutcome, ErrOutcome, Zenon DEF BookLiquidation, Require

LEMMA SettleFramed ==
    ASSUME NEW w, Sized(w), NEW t, t.amount \in Nat, NEW price \in Nat, price # 0,
           NEW u, Framed(VaultScope(t.target, t.borrower), w, u)
    PROVE  FramedOutcome(VaultScope(t.target, t.borrower), w, Settle(u, t, price))
<1> DEFINE c == t.target
           scope == VaultScope(c, t.borrower)
           debt == Debt(u, c, t.borrower)
           collateral == Collateral(u, c, t.borrower)
           repaid == Lower(t.amount, debt)
           seized == Lower(DivCeil(repaid, price), collateral)
           collateral_after == collateral - seized
           closed == collateral_after = 0 /\ debt # repaid
           bad_debt == BadDebt(u, c) + WrittenOff(debt - repaid, collateral_after)
           debt_after == IF closed THEN 0 ELSE debt - repaid
           written == IF closed THEN StateSet(u, <<"BadDebt", c>>, bad_debt) ELSE u
           exchanged == ExchangeForCollateral(written, t, repaid, seized)
           booked == BookLiquidation(exchanged.w, t, debt_after, collateral_after)
<1>1. debt \in Nat /\ collateral \in Nat /\ BadDebt(u, c) \in Nat
    BY UintNat, Zenon DEF Framed, Debt, Collateral, BadDebt
<1> HIDE DEF debt, collateral
<1>2. repaid \in Nat /\ repaid <= debt
    BY <1>1, LowerNat, Zenon
<1> HIDE DEF repaid
<1>3. seized \in Nat /\ seized <= collateral
    BY <1>1, <1>2, LowerNat, DivCeilNat, Zenon
<1> HIDE DEF seized
<1>4. collateral_after \in Nat /\ debt_after \in Nat /\ bad_debt \in Nat
    BY <1>1, <1>2, <1>3 DEF WrittenOff
<1> HIDE DEF collateral_after, debt_after, bad_debt, closed
<1>5. Framed(scope, w, written)
    BY <1>4, VaultWrites, Zenon
<1> HIDE DEF written
<1>6. FramedOutcome(scope, w, exchanged)
    BY <1>2, <1>3, <1>5, ExchangeForCollateralFramed, Zenon
<1> HIDE DEF exchanged
<1>7. exchanged.ok => FramedOutcome(scope, w, booked)
    BY <1>4, <1>6, SuccessFramed, BookLiquidationFramed, Zenon
<1>8. FramedOutcome(scope, w, Err(u))
    BY ErrOutcome, Zenon
<1>9. QED
    BY <1>6, <1>7, <1>8, Zenon
    DEF Settle, Then, Require, exchanged, written, debt_after, bad_debt, closed, collateral_after,
        seized, repaid, debt, collateral

LEMMA LiquidateFramed ==
    ASSUME NEW w, Sized(w), NEW t, t.amount \in Nat, Kind(w, t.target).interest_bps \in Nat
    PROVE  FramedOutcome(VaultScope(t.target, t.borrower), w, Liquidate(w, t))
<1> DEFINE scope == VaultScope(t.target, t.borrower)
           price == CollateralPrice(w, Kind(w, t.target))
           accrued == AccrueLendingDebt(w, t.target, t.borrower)
           settled == Settle(accrued.w, t, price)
<1>1. Framed(scope, w, w) /\ FramedOutcome(scope, w, accrued)
    BY FramedSelf, AccrueLendingDebtFramed, Zenon
<1>2. price \in Nat
    BY UintNat, Zenon DEF Sized, CollateralPrice, OraclePrice
<1> HIDE DEF accrued, price
<1>3. price # 0 /\ accrued.ok => FramedOutcome(scope, w, settled)
    BY <1>1, <1>2, SuccessFramed, SettleFramed, Zenon
<1> HIDE DEF settled
<1>4. QED
    BY <1>1, <1>3, ErrOutcome, Zenon
    DEF Liquidate, Then, Require, FreshLendingCollateralPrice, accrued, price, settled

-----------------------------------------------------------------------------
(* Staking.                                                                *)

AccrualScope(c, p) == {<<"StakingRewardBalance", c, p>>, <<"StakingLastRewardHeight", c, p>>}

StakeScope(c, p) ==
    {<<"StakeBalance", c, p>>, <<"TotalStaked", c>>, <<"PendingUnbond", c, p>>,
     <<"TotalPendingUnbond", c>>, <<"UnbondReadyHeight", c, p>>, <<"StakingPenaltyCollected", c>>}

StakingScope(c, p) == AccrualScope(c, p) \cup StakeScope(c, p)

LastRewardHeight(w, c, p) == UintAt(w, <<"StakingLastRewardHeight", c, p>>)

(* What a staker is owed.                                                  *)
Due(w, c, p) == StakingRewardBalance(w, c, p) + Accrued(w, c, p)

LEMMA DueNat ==
    ASSUME NEW w, Typed(w), w.height \in Nat, NEW c, NEW p, Kind(w, c).reward_per_block \in Nat
    PROVE  Accrued(w, c, p) \in Nat /\ StakingRewardBalance(w, c, p) \in Nat /\ Due(w, c, p) \in Nat
<1>1. /\ StakeBalance(w, c, p) \in Nat /\ StakingRewardBalance(w, c, p) \in Nat
      /\ LastRewardHeight(w, c, p) \in Nat
    BY UintNat, Zenon DEF StakeBalance, StakingRewardBalance, LastRewardHeight
<1>2. SaturatingSub(w.height, LastRewardHeight(w, c, p)) \in Nat
    BY <1>1, SaturatingSubNat, Zenon
<1>3. Accrued(w, c, p) \in Nat
    BY <1>1, <1>2 DEF Accrued, LastRewardHeight
<1>4. QED
    BY <1>1, <1>3 DEF Due

(* The books of a staker in whose contract nothing of theirs is written.   *)
LEMMA DueSame ==
    ASSUME NEW w, NEW v, NEW c, NEW p, v.height = w.height, Kind(v, c) = Kind(w, c),
           Same(w, v, <<"StakeBalance", c, p>>), Same(w, v, <<"StakingRewardBalance", c, p>>),
           Same(w, v, <<"StakingLastRewardHeight", c, p>>)
    PROVE  Due(v, c, p) = Due(w, c, p) /\ LastRewardHeight(v, c, p) = LastRewardHeight(w, c, p)
    BY SameUint, Zenon DEF Due, LastRewardHeight, Accrued, StakeBalance, StakingRewardBalance

(* The rewards are booked up to now.                                       *)
Settled(w, v, c, p) ==
    StakingRewardBalance(v, c, p) = Due(w, c, p) /\ LastRewardHeight(v, c, p) = w.height

(* accrue_staking_rewards settles.                                         *)
LEMMA AccrueSettles ==
    ASSUME NEW w, Sized(w), NEW c, NEW p, Kind(w, c).reward_per_block \in Nat
    PROVE  LET o == AccrueStakingRewards(w, c, p)
           IN  FramedOutcome(AccrualScope(c, p), w, o) /\ (o.ok => Settled(w, o.w, c, p))
<1> DEFINE scope == AccrualScope(c, p)
           accrued == Accrued(w, c, p)
           booked == <<"StakingRewardBalance", c, p>>
           last == <<"StakingLastRewardHeight", c, p>>
           reward == StakingRewardBalance(w, c, p) + accrued
           earned == IF accrued = 0 THEN w ELSE StateSet(w, booked, reward)
           v == StateSet(earned, last, w.height)
<1>1. DOMAIN w = DOMAIN NewState /\ Typed(w) /\ w.height \in Nat
    BY Zenon DEF Sized
<1>2. accrued \in Nat /\ StakingRewardBalance(w, c, p) \in Nat /\ reward \in Nat
    BY <1>1, DueNat
<1>3. booked \in scope /\ last \in scope /\ booked # last
      /\ booked[1] \notin TokenVariants /\ last[1] \notin TokenVariants
    BY Zenon DEF AccrualScope, TokenVariants
<1>4. Framed(scope, w, w)
    BY FramedSelf, Zenon
<1>5. StakingRewardBalance(w, c, p) = UintAt(w, booked)
    BY Zenon DEF StakingRewardBalance
<1> HIDE DEF scope, accrued, booked, last
<1>6. Framed(scope, w, earned) /\ UintAt(earned, booked) = reward
  <2>1. CASE accrued = 0
    BY <2>1, <1>2, <1>4, <1>5
  <2>2. CASE accrued # 0
    <3>1. Framed(scope, w, StateSet(w, booked, reward))
        BY <1>2, <1>3, <1>4, StateSetFramed, Zenon
    <3>2. UintAt(StateSet(w, booked, reward), booked) = reward
        BY <1>1, StateSetStored DEF Stored
    <3>3. QED
        BY <2>2, <3>1, <3>2, Zenon
  <2>3. QED
    BY <2>1, <2>2, Zenon
<1> HIDE DEF earned, reward
<1>7. Framed(scope, w, v)
    BY <1>1, <1>3, <1>6, StateSetFramed, Zenon
<1>8. UintAt(v, last) = w.height /\ UintAt(v, booked) = reward
  <2>1. Stored(earned, v, last, w.height)
    BY <1>6, StateSetStored, Zenon DEF Framed
  <2>2. QED
    BY <2>1, <1>3, <1>6, Zenon DEF Stored
<1> HIDE DEF v
<1>9. Settled(w, v, c, p)
    BY <1>8, Zenon DEF Settled, Due, StakingRewardBalance, LastRewardHeight, booked, last, reward, accrued
<1>10. FramedOutcome(scope, w, Ok(v)) /\ FramedOutcome(scope, w, Err(w))
    BY <1>4, <1>7, OkOutcome, ErrOutcome, Zenon
<1>11. QED
    BY <1>9, <1>10, Zenon
    DEF AccrueStakingRewards, Require, Ok, Err, scope, v, earned, reward, booked, last, accrued

(* What comes after the accrual leaves the rewards alone.                  *)
LEMMA SettledDue ==
    ASSUME NEW w, Sized(w), NEW c, NEW p, Kind(w, c).reward_per_block \in Nat,
           NEW u, Framed(AccrualScope(c, p), w, u), Settled(w, u, c, p),
           NEW v, Framed(StakeScope(c, p), u, v)
    PROVE  Due(v, c, p) = Due(w, c, p) /\ LastRewardHeight(v, c, p) = v.height
<1>1. /\ Same(u, v, <<"StakingRewardBalance", c, p>>)
      /\ Same(u, v, <<"StakingLastRewardHeight", c, p>>)
    BY DEF Framed, StakeScope, LedgerKey, TokenVariants
<1>2. StakingRewardBalance(v, c, p) = Due(w, c, p) /\ LastRewardHeight(v, c, p) = w.height
    BY <1>1, SameUint, Zenon DEF Settled, StakingRewardBalance, LastRewardHeight
<1>3. v.height = w.height /\ Kind(v, c) = Kind(w, c)
    BY Zenon DEF Framed, SameElse, Kind
<1>4. Accrued(v, c, p) = 0
  <2>1. SaturatingSub(v.height, LastRewardHeight(v, c, p)) = 0
    BY <1>2, <1>3 DEF SaturatingSub, Sized
  <2>2. StakeBalance(v, c, p) \in Nat
    BY UintNat, Zenon DEF Framed, StakeBalance
  <2>3. QED
    BY <1>3, <2>1, <2>2 DEF Accrued, LastRewardHeight
<1>5. Due(w, c, p) \in Nat
    BY DueNat, Zenon DEF Sized
<1>6. QED
    BY <1>2, <1>3, <1>4, <1>5 DEF Due

LEMMA StakeWrites ==
    ASSUME NEW c, NEW p, NEW w, NEW v, Framed(StakeScope(c, p), w, v), NEW value \in Nat
    PROVE  /\ Framed(StakeScope(c, p), w, StateSet(v, <<"StakeBalance", c, p>>, value))
           /\ Framed(StakeScope(c, p), w, StateSet(v, <<"TotalStaked", c>>, value))
           /\ Framed(StakeScope(c, p), w, StateSet(v, <<"PendingUnbond", c, p>>, value))
           /\ Framed(StakeScope(c, p), w, StateSet(v, <<"TotalPendingUnbond", c>>, value))
           /\ Framed(StakeScope(c, p), w, StateSet(v, <<"UnbondReadyHeight", c, p>>, value))
           /\ Framed(StakeScope(c, p), w, StateSet(v, <<"StakingPenaltyCollected", c>>, value))
<1> DEFINE scope == StakeScope(c, p)
<1>1. /\ <<"StakeBalance", c, p>> \in scope /\ <<"TotalStaked", c>> \in scope
      /\ <<"PendingUnbond", c, p>> \in scope /\ <<"TotalPendingUnbond", c>> \in scope
      /\ <<"UnbondReadyHeight", c, p>> \in scope /\ <<"StakingPenaltyCollected", c>> \in scope
    BY Zenon DEF StakeScope
<1> HIDE DEF scope
<1>2. \A key \in scope : key[1] \notin TokenVariants => Framed(scope, w, StateSet(v, key, value))
    BY StateSetFramed, Zenon DEF scope
<1>3. QED
    BY <1>1, <1>2, Zenon DEF TokenVariants, scope

(* What the end of a staking call checks.                                  *)
Checked(scope, w, o, c) ==
    /\ FramedOutcome(scope, w, o)
    /\ o.ok => StakingInvariantsHold(o.w, c) /\ StakingPendingUnbondingInvariantsHold(o.w, c)

LEMMA CheckStakingChecked ==
    ASSUME NEW scope, NEW w, NEW v, Framed(scope, w, v), NEW c
    PROVE  Checked(scope, w, CheckStaking(v, c), c)
<1>1. FramedOutcome(scope, w, Ok(v)) /\ FramedOutcome(scope, w, Err(v))
    BY OkOutcome, ErrOutcome, Zenon
<1>2. QED
    BY <1>1, Zenon DEF Checked, CheckStaking, Require, Ok, Err

LEMMA FailedChecked ==
    ASSUME NEW scope, NEW w, NEW o, FramedOutcome(scope, w, o), ~o.ok, NEW c
    PROVE  Checked(scope, w, o, c)
    BY Zenon DEF Checked

LEMMA ErrChecked ==
    ASSUME NEW scope, NEW w, NEW v, Framed(scope, w, v), NEW c
    PROVE  Checked(scope, w, Err(v), c)
    BY ErrOutcome, Zenon DEF Checked, Err

(* A call that changes a stake: it settles first and checks last.          *)
StakeChanged(w, o, c, p) ==
    /\ Checked(StakingScope(c, p), w, o, c)
    /\ o.ok => Due(o.w, c, p) = Due(w, c, p) /\ LastRewardHeight(o.w, c, p) = o.w.height

LEMMA AfterAccrual ==
    ASSUME NEW w, Sized(w), NEW c, NEW p, Kind(w, c).reward_per_block \in Nat,
           NEW u, Framed(AccrualScope(c, p), w, u), Settled(w, u, c, p),
           NEW o, Checked(StakeScope(c, p), u, o, c)
    PROVE  StakeChanged(w, o, c, p)
<1>1. FramedOutcome(StakingScope(c, p), w, o)
    BY OutcomeTrans, Zenon DEF Checked, StakingScope
<1>2. o.ok => Framed(StakeScope(c, p), u, o.w)
    BY SuccessFramed, Zenon DEF Checked
<1>3. o.ok => Due(o.w, c, p) = Due(w, c, p) /\ LastRewardHeight(o.w, c, p) = o.w.height
    BY <1>2, SettledDue, Zenon
<1>4. QED
    BY <1>1, <1>3, Zenon DEF StakeChanged, Checked

(* The same for the accrual itself and for a refusal before it.            *)
LEMMA FailedAccrual ==
    ASSUME NEW w, Sized(w), NEW c, NEW p, NEW o, ~o.ok,
           FramedOutcome(AccrualScope(c, p), w, o) \/ o = Err(w)
    PROVE  StakeChanged(w, o, c, p)
<1>1. FramedOutcome(AccrualScope(c, p), w, Err(w))
    BY FramedSelf, ErrOutcome, Zenon
<1>2. FramedOutcome(StakingScope(c, p), w, o)
    BY <1>1, OutcomeMore, Zenon DEF StakingScope
<1>3. QED
    BY <1>2, Zenon DEF StakeChanged, Checked

(* A staking call: its accrual, and what Step does after it.               *)
LEMMA AccruedCall ==
    ASSUME NEW w, Sized(w), NEW c, NEW p, Kind(w, c).reward_per_block \in Nat, NEW o,
           LET accrued == AccrueStakingRewards(w, c, p)
           IN  \/ o = Err(w)
               \/ ~accrued.ok /\ o = accrued
               \/ accrued.ok /\ Checked(StakeScope(c, p), accrued.w, o, c)
    PROVE  StakeChanged(w, o, c, p)
<1> DEFINE accrued == AccrueStakingRewards(w, c, p)
<1>1. FramedOutcome(AccrualScope(c, p), w, accrued) /\ (accrued.ok => Settled(w, accrued.w, c, p))
    BY AccrueSettles, Zenon
<1> HIDE DEF accrued
<1>2. CASE o = Err(w)
    BY <1>2, FailedAccrual, Zenon DEF Err
<1>3. CASE ~accrued.ok /\ o = accrued
    BY <1>1, <1>3, FailedAccrual, Zenon
<1>4. CASE accrued.ok /\ Checked(StakeScope(c, p), accrued.w, o, c)
    BY <1>1, <1>4, SuccessFramed, AfterAccrual, Zenon
<1>5. QED
    BY <1>2, <1>3, <1>4, Zenon DEF accrued

(* Accrual leaves what a handler may rely on.                              *)
LEMMA AccruedSized ==
    ASSUME NEW w, Sized(w), NEW c, NEW p, Kind(w, c).reward_per_block \in Nat,
           AccrueStakingRewards(w, c, p).ok
    PROVE  LET u == AccrueStakingRewards(w, c, p).w
           IN  Sized(u) /\ Kind(u, c) = Kind(w, c) /\ u.height = w.height
<1> DEFINE u == AccrueStakingRewards(w, c, p).w
<1>1. Framed(AccrualScope(c, p), w, u)
    BY AccrueSettles, SuccessFramed, Zenon
<1> HIDE DEF u
<1>2. Sized(u) /\ Kind(u, c) = Kind(w, c) /\ u.height = w.height
    BY <1>1, FramedSized, Zenon DEF Framed, SameElse, Kind
<1>3. QED
    BY <1>2, Zenon DEF u

LEMMA AddStakeChecked ==
    ASSUME NEW w, Sized(w), NEW t, t.amount \in Nat
    PROVE  Checked(StakeScope(t.target, t.sender), w, AddStake(w, t), t.target)
<1> DEFINE c == t.target
           scope == StakeScope(c, t.sender)
           stake == StakeBalance(w, c, t.sender) + t.amount
           total == TotalStaked(w, c) + t.amount
           taken == TransferAsset(w, t.sender, c, t.asset, t.amount)
           booked == StateSet(StateSet(taken.w, <<"StakeBalance", c, t.sender>>, stake),
                              <<"TotalStaked", c>>, total)
<1>1. Framed(scope, w, w) /\ FramedOutcome(scope, w, taken)
    BY FramedSelf, TransferAssetFramed, Zenon
<1>2. stake \in Nat /\ total \in Nat
    BY UintNat DEF Sized, StakeBalance, TotalStaked
<1> HIDE DEF stake, total, taken
<1>3. taken.ok => Framed(scope, w, taken.w) /\ Framed(scope, w, booked)
    BY <1>1, <1>2, SuccessFramed, StakeWrites, Zenon
<1> HIDE DEF booked
<1>4. taken.ok => Checked(scope, w, CheckStaking(booked, c), c) /\ Checked(scope, w, Err(taken.w), c)
    BY <1>3, CheckStakingChecked, ErrChecked, Zenon
<1>5. ~taken.ok => Checked(scope, w, taken, c)
    BY <1>1, FailedChecked, Zenon
<1>6. QED
    BY <1>4, <1>5, Zenon DEF AddStake, Then, Require, booked, taken, stake, total

LEMMA StakeOutcome ==
    ASSUME NEW w, Sized(w), NEW t, t.amount \in Nat, Kind(w, t.target).reward_per_block \in Nat
    PROVE  StakeChanged(w, Stake(w, t), t.target, t.sender)
<1> DEFINE c == t.target
           accrued == AccrueStakingRewards(w, c, t.sender)
<1>1. accrued.ok => Sized(accrued.w)
    BY AccruedSized, Zenon
<1>2. accrued.ok => Checked(StakeScope(c, t.sender), accrued.w, AddStake(accrued.w, t), c)
    BY <1>1, AddStakeChecked, Zenon
<1>3. \/ Stake(w, t) = Err(w)
      \/ ~accrued.ok /\ Stake(w, t) = accrued
      \/ accrued.ok /\ Stake(w, t) = AddStake(accrued.w, t)
    BY Zenon DEF Stake, Require, Then
<1>4. QED
    BY <1>2, <1>3, AccruedCall, Zenon

(* A penalty is at most what it is charged on.                             *)
LEMMA PenaltyBound ==
    ASSUME NEW amount \in Nat, NEW penalty_bps \in 0..BasisPoints
    PROVE  Penalty(amount, penalty_bps) \in Nat /\ amount - Penalty(amount, penalty_bps) \in Nat
<1> DEFINE b == BasisPoints
           fee == b - penalty_bps
<1>1. b \in Nat /\ b > 0
    BY BasisPointsPositive, Zenon
<1> HIDE DEF b
<1>2. penalty_bps \in Nat /\ penalty_bps <= b
    BY <1>1 DEF b
<1>3. fee \in Nat /\ fee <= b /\ b - fee = penalty_bps
    BY <1>1, <1>2
<1> HIDE DEF fee
<1>4. /\ (amount * (b - fee)) \div b \in Nat
      /\ (amount * (b - fee)) \div b <= amount
    BY <1>1, <1>3, ShareBound, Zenon
<1>5. Penalty(amount, penalty_bps) = (amount * (b - fee)) \div b
    BY <1>3, Zenon DEF Penalty, b
<1>6. QED
    BY <1>4, <1>5

LEMMA ReduceStakeFramed ==
    ASSUME NEW w, Sized(w), NEW t, t.amount \in Nat, Kind(w, t.target).penalty_bps \in 0..BasisPoints
    PROVE  FramedOutcome(StakeScope(t.target, t.sender), w, ReduceStake(w, t))
<1> DEFINE c == t.target
           scope == StakeScope(c, t.sender)
           stake == StakeBalance(w, c, t.sender)
           total == TotalStaked(w, c)
           penalty == Penalty(t.amount, Kind(w, c).penalty_bps)
           collected == StakingPenaltyCollected(w, c) + penalty
           less == StateSet(w, <<"StakeBalance", c, t.sender>>, stake - t.amount)
           reduced == StateSet(less, <<"TotalStaked", c>>, total - t.amount)
           charged == StateSet(reduced, <<"StakingPenaltyCollected", c>>, collected)
<1>1. stake \in Nat /\ total \in Nat /\ collected \in Nat
    BY UintNat, PenaltyBound DEF Sized, StakeBalance, TotalStaked, StakingPenaltyCollected
<1>2. Framed(scope, w, w)
    BY FramedSelf, Zenon
<1> HIDE DEF stake, total, collected, penalty
<1>3. ASSUME stake >= t.amount, total >= t.amount
      PROVE  Framed(scope, w, reduced) /\ Framed(scope, w, charged)
  <2>1. stake - t.amount \in Nat /\ total - t.amount \in Nat
    BY <1>1, <1>3
  <2>2. Framed(scope, w, less)
    BY <1>2, <2>1, StakeWrites, Zenon
  <2> HIDE DEF less
  <2>3. Framed(scope, w, reduced)
    BY <2>1, <2>2, StakeWrites, Zenon
  <2> HIDE DEF reduced
  <2>4. QED
    BY <1>1, <2>3, StakeWrites, Zenon
<1> HIDE DEF charged, reduced
<1>4. QED
    BY <1>2, <1>3, OkOutcome, ErrOutcome, Zenon
    DEF ReduceStake, Require, less, reduced, charged, stake, total, penalty, collected

LEMMA UnstakeOutcome ==
    ASSUME NEW w, Sized(w), NEW t, t.amount \in Nat, Kind(w, t.target).reward_per_block \in Nat,
           Kind(w, t.target).penalty_bps \in 0..BasisPoints
    PROVE  StakeChanged(w, Unstake(w, t), t.target, t.sender)
<1> DEFINE c == t.target
           scope == StakeScope(c, t.sender)
           released == t.amount - Penalty(t.amount, Kind(w, c).penalty_bps)
           accrued == AccrueStakingRewards(w, c, t.sender)
           u == accrued.w
           reduced == Require(Resolves(u, t.asset), u, ReduceStake(u, t))
           paid == IF released = 0 THEN Ok(reduced.w)
                   ELSE TransferAsset(reduced.w, c, t.sender, t.asset, released)
           checked == CheckStaking(paid.w, c)
<1>1. released \in Nat
    BY PenaltyBound, Zenon
<1>2. \/ Unstake(w, t) = Err(w)
      \/ ~accrued.ok /\ Unstake(w, t) = accrued
      \/ accrued.ok /\ ~reduced.ok /\ Unstake(w, t) = reduced
      \/ accrued.ok /\ reduced.ok /\ ~paid.ok /\ Unstake(w, t) = paid
      \/ accrued.ok /\ reduced.ok /\ paid.ok /\ Unstake(w, t) = checked
  <2> DEFINE o == Unstake(w, t)
  <2>1. \/ o = Err(w)
        \/ o = Then(Then(Then(accrued, LAMBDA v : Require(Resolves(v, t.asset), v, ReduceStake(v, t))),
                         LAMBDA v : IF released = 0 THEN Ok(v)
                                    ELSE TransferAsset(v, c, t.sender, t.asset, released)),
                    LAMBDA v : CheckStaking(v, c))
    BY Zenon DEF Unstake, Require
  <2> HIDE DEF o, accrued, released
  <2>2. QED
    BY <2>1, Zenon DEF Then, o
<1>3. accrued.ok => Sized(u) /\ Kind(u, c) = Kind(w, c)
    BY AccruedSized, Zenon
<1> HIDE DEF u, released
<1>4. ASSUME accrued.ok
      PROVE  /\ ~reduced.ok => Checked(scope, u, reduced, c)
             /\ reduced.ok /\ ~paid.ok => Checked(scope, u, paid, c)
             /\ reduced.ok /\ paid.ok => Checked(scope, u, checked, c)
  <2>1. Sized(u) /\ Kind(u, c).penalty_bps \in 0..BasisPoints
    BY <1>3, <1>4, Zenon
  <2>2. FramedOutcome(scope, u, reduced)
    BY <2>1, ReduceStakeFramed, FramedSelf, ErrOutcome, Zenon DEF Require
  <2> HIDE DEF reduced
  <2>3. reduced.ok => FramedOutcome(scope, u, paid)
    BY <1>1, <2>1, <2>2, SuccessFramed, TransferAssetFramed, OkOutcome, Zenon
  <2> HIDE DEF paid
  <2>4. reduced.ok /\ paid.ok => Checked(scope, u, checked, c)
    BY <2>3, SuccessFramed, CheckStakingChecked, Zenon
  <2>5. QED
    BY <2>2, <2>3, <2>4, FailedChecked, Zenon
<1> HIDE DEF reduced, paid, checked, scope
<1>5. QED
    BY <1>2, <1>4, AccruedCall, Zenon DEF u, scope

LEMMA UnbondChecked ==
    ASSUME NEW scope, NEW w, NEW t, t.amount \in Nat, NEW ready \in Nat,
           scope = StakeScope(t.target, t.sender),
           NEW u, Framed(scope, w, u), Kind(u, t.target).penalty_bps \in 0..BasisPoints
    PROVE  Checked(scope, w, Unbond(u, t, ready), t.target)
<1> DEFINE c == t.target
           released == t.amount - Penalty(t.amount, Kind(u, c).penalty_bps)
           pending == PendingUnbond(u, c, t.sender) + released
           total == TotalPendingUnbond(u, c) + released
           one == StateSet(u, <<"PendingUnbond", c, t.sender>>, pending)
           two == StateSet(one, <<"TotalPendingUnbond", c>>, total)
           three == StateSet(two, <<"UnbondReadyHeight", c, t.sender>>, ready)
<1>1. released \in Nat
    BY PenaltyBound, Zenon
<1>2. PendingUnbond(u, c, t.sender) \in Nat /\ TotalPendingUnbond(u, c) \in Nat
    BY UintNat, Zenon DEF Framed, PendingUnbond, TotalPendingUnbond
<1>3. pending \in Nat /\ total \in Nat
    BY <1>1, <1>2
<1> HIDE DEF released, pending, total
<1>4. Framed(scope, w, one)
    BY <1>3, StakeWrites, Zenon
<1> HIDE DEF one
<1>5. Framed(scope, w, two)
    BY <1>3, <1>4, StakeWrites, Zenon
<1> HIDE DEF two
<1>6. Framed(scope, w, three)
    BY <1>5, StakeWrites, Zenon
<1> HIDE DEF three
<1>7. Checked(scope, w, CheckStaking(three, c), c) /\ Checked(scope, w, Err(u), c)
    BY <1>6, CheckStakingChecked, ErrChecked, Zenon
<1>8. QED
    BY <1>7, Zenon DEF Unbond, Require, three, two, one, total, pending, released

LEMMA RequestUnstakeOutcome ==
    ASSUME NEW w, Sized(w), NEW t, t.amount \in Nat, Kind(w, t.target).reward_per_block \in Nat,
           Kind(w, t.target).unbonding_delay \in Nat,
           Kind(w, t.target).penalty_bps \in 0..BasisPoints
    PROVE  StakeChanged(w, RequestUnstake(w, t), t.target, t.sender)
<1> DEFINE c == t.target
           scope == StakeScope(c, t.sender)
           k == Kind(w, c)
           ready == ReadyHeight(w, c, t.sender, k.unbonding_delay)
           accrued == AccrueStakingRewards(w, c, t.sender)
           u == accrued.w
           reduced == Require(w.height + k.unbonding_delay <= MaxHeight, u, ReduceStake(u, t))
           unbonding == Unbond(reduced.w, t, ready)
<1>1. ready \in Nat
    BY DEF ReadyHeight, Sized
<1>2. \/ RequestUnstake(w, t) = Err(w)
      \/ ~accrued.ok /\ RequestUnstake(w, t) = accrued
      \/ accrued.ok /\ ~reduced.ok /\ RequestUnstake(w, t) = reduced
      \/ accrued.ok /\ reduced.ok /\ RequestUnstake(w, t) = unbonding
  <2> DEFINE o == RequestUnstake(w, t)
  <2>1. \/ o = Err(w)
        \/ o = Then(Then(accrued, LAMBDA v : Require(w.height + k.unbonding_delay <= MaxHeight, v,
                                                     ReduceStake(v, t))),
                    LAMBDA v : Unbond(v, t, ready))
    BY Zenon DEF RequestUnstake, Require
  <2> HIDE DEF o, accrued, ready
  <2>2. QED
    BY <2>1, Zenon DEF Then, o
<1>3. accrued.ok => Sized(u) /\ Kind(u, c) = k
    BY AccruedSized, Zenon
<1> HIDE DEF u, ready
<1>4. ASSUME accrued.ok
      PROVE  /\ ~reduced.ok => Checked(scope, u, reduced, c)
             /\ reduced.ok => Checked(scope, u, unbonding, c)
  <2>1. Sized(u) /\ Kind(u, c).penalty_bps \in 0..BasisPoints
    BY <1>3, <1>4, Zenon
  <2>2. FramedOutcome(scope, u, reduced)
    BY <2>1, ReduceStakeFramed, FramedSelf, ErrOutcome, Zenon DEF Require
  <2> HIDE DEF reduced
  <2>3. ASSUME reduced.ok PROVE Checked(scope, u, unbonding, c)
    <3>1. Framed(scope, u, reduced.w)
        BY <2>2, <2>3, SuccessFramed, Zenon
    <3>2. Kind(reduced.w, c).penalty_bps \in 0..BasisPoints
        BY <2>1, <3>1, Zenon DEF Framed, SameElse, Kind
    <3>3. QED
        BY <1>1, <3>1, <3>2, UnbondChecked, Zenon
  <2>4. QED
    BY <2>2, <2>3, FailedChecked, Zenon
<1> HIDE DEF reduced, unbonding, scope
<1>5. QED
    BY <1>2, <1>4, AccruedCall, Zenon DEF u, scope

CompletionScope(c, p) == {<<"PendingUnbond", c, p>>, <<"TotalPendingUnbond", c>>}

LEMMA CompleteUnstakeOutcome ==
    ASSUME NEW w, Sized(w), NEW t, t.amount \in Nat
    PROVE  LET o == CompleteUnstake(w, t)
           IN  /\ FramedOutcome(CompletionScope(t.target, t.sender), w, o)
               /\ o.ok => StakingPendingUnbondingInvariantsHold(o.w, t.target)
<1> DEFINE c == t.target
           scope == CompletionScope(c, t.sender)
           pending == PendingUnbond(w, c, t.sender)
           total == TotalPendingUnbond(w, c)
           less == StateSet(w, <<"PendingUnbond", c, t.sender>>, pending - t.amount)
           taken == StateSet(less, <<"TotalPendingUnbond", c>>, total - t.amount)
           paid == TransferAsset(taken, c, t.sender, t.asset, t.amount)
           checked == Require(StakingPendingUnbondingInvariantsHold(paid.w, c), paid.w, Ok(paid.w))
           good(o) == FramedOutcome(scope, w, o)
                      /\ (o.ok => StakingPendingUnbondingInvariantsHold(o.w, c))
<1>1. pending \in Nat /\ total \in Nat
    BY UintNat, Zenon DEF Sized, PendingUnbond, TotalPendingUnbond
<1>2. /\ <<"PendingUnbond", c, t.sender>> \in scope /\ <<"TotalPendingUnbond", c>> \in scope
    BY Zenon DEF CompletionScope
<1>3. Framed(scope, w, w)
    BY FramedSelf, Zenon
<1> HIDE DEF scope, pending, total
<1>4. ASSUME pending >= t.amount, total >= t.amount
      PROVE  IF paid.ok THEN good(checked) ELSE good(paid)
  <2>1. pending - t.amount \in Nat /\ total - t.amount \in Nat
    BY <1>1, <1>4
  <2>2. Framed(scope, w, less)
    BY <1>2, <1>3, <2>1, StateSetFramed, Zenon DEF TokenVariants
  <2> HIDE DEF less
  <2>3. Framed(scope, w, taken)
    BY <1>2, <2>1, <2>2, StateSetFramed, Zenon DEF TokenVariants
  <2> HIDE DEF taken
  <2>4. FramedOutcome(scope, w, paid)
    BY <2>3, TransferAssetFramed, Zenon
  <2> HIDE DEF paid
  <2>5. paid.ok => FramedOutcome(scope, w, Ok(paid.w)) /\ FramedOutcome(scope, w, Err(paid.w))
    BY <2>4, SuccessFramed, OkOutcome, ErrOutcome, Zenon
  <2>6. QED
    BY <2>4, <2>5, Zenon DEF Require, Ok, Err
<1>5. good(Err(w))
    BY <1>3, ErrOutcome, Zenon DEF Err
<1>6. \/ CompleteUnstake(w, t) = Err(w)
      \/ /\ pending >= t.amount /\ total >= t.amount
         /\ CompleteUnstake(w, t) = IF paid.ok THEN checked ELSE paid
    BY Zenon DEF CompleteUnstake, Require, Then, pending, total
<1> HIDE DEF paid, checked, good
<1>7. good(CompleteUnstake(w, t))
    BY <1>4, <1>5, <1>6, Zenon
<1>8. QED
    BY <1>7, Zenon DEF good, scope

(* The ledgers are as they were.                                           *)
Untouched(w, v) ==
    /\ v.contracts = w.contracts
    /\ \A key : key[1] \in LedgerVariants => Same(w, v, key)

LEMMA UntouchedHolding ==
    ASSUME NEW w, NEW v, Untouched(w, v), NEW asset, NEW p
    PROVE  Holding(v, asset, p) = Holding(w, asset, p)
<1>1. /\ NativeLedgers(v, asset) = NativeLedgers(w, asset)
      /\ LedgerOf(v, asset) = LedgerOf(w, asset)
    BY SameLedgers, Zenon DEF Untouched
<1>2. \A c : /\ UintAt(v, <<"Balance", c, p>>) = UintAt(w, <<"Balance", c, p>>)
             /\ UintAt(v, <<"AspectState", c, "balanceOf", p>>)
                    = UintAt(w, <<"AspectState", c, "balanceOf", p>>)
    BY SameUint, Zenon DEF Untouched, LedgerVariants, TokenVariants
<1>3. QED
    BY <1>1, <1>2, Zenon DEF Holding, Balance

LEMMA WriteUntouched ==
    ASSUME NEW w, NEW u, DOMAIN u = DOMAIN NewState, Untouched(w, u), NEW key,
           key[1] \notin LedgerVariants, NEW value
    PROVE  Untouched(w, StateSet(u, key, value))
<1> DEFINE v == StateSet(u, key, value)
<1>1. Stored(u, v, key, value)
    BY StateSetStored, Zenon
<1> HIDE DEF v
<1>2. Untouched(w, v)
    BY <1>1, Zenon DEF Untouched, Stored, SameElse, Same
<1>3. QED
    BY <1>2, Zenon DEF v

LEMMA AccrueUntouched ==
    ASSUME NEW w, Sized(w), NEW c, NEW p, AccrueStakingRewards(w, c, p).ok
    PROVE  Untouched(w, AccrueStakingRewards(w, c, p).w)
<1> DEFINE accrued == Accrued(w, c, p)
           reward == StakingRewardBalance(w, c, p) + accrued
           booked == <<"StakingRewardBalance", c, p>>
           last == <<"StakingLastRewardHeight", c, p>>
           earned == IF accrued = 0 THEN w ELSE StateSet(w, booked, reward)
<1>1. Untouched(w, w) /\ DOMAIN w = DOMAIN NewState
    BY Zenon DEF Untouched, Same, Sized
<1>2. booked[1] \notin LedgerVariants /\ last[1] \notin LedgerVariants
    BY Zenon DEF LedgerVariants, TokenVariants
<1>3. AccrueStakingRewards(w, c, p).w = StateSet(earned, last, w.height)
    BY Zenon DEF AccrueStakingRewards, Require, Ok, Err
<1> HIDE DEF accrued, reward, booked, last
<1>4. Untouched(w, earned) /\ DOMAIN earned = DOMAIN NewState
    BY <1>1, <1>2, WriteUntouched, StateSetStored DEF Stored
<1> HIDE DEF earned
<1>5. QED
    BY <1>2, <1>3, <1>4, WriteUntouched, Zenon

(* What is minted is what the owner then holds more.                       *)
LEMMA MintAssetPays ==
    ASSUME NEW w, Sized(w), NEW to, NEW asset, NEW amount \in Nat, MintAsset(w, to, asset, amount).ok
    PROVE  Holding(MintAsset(w, to, asset, amount).w, asset, to) = Holding(w, asset, to) + amount
<1> DEFINE c == LedgerOf(w, asset)
           supplied == StateSet(w, <<"TotalSupply", c>>, TotalSupply(w, c) + amount)
           minted == StateSet(supplied, <<"Balance", c, to>>, Balance(w, c, to) + amount)
<1>1. NativeLedgers(w, asset) # {} /\ MintAsset(w, to, asset, amount).w = minted
    BY Zenon DEF MintAsset, MintNative, Require, Ok, Err
<1>2. SameElse(w, supplied) /\ DOMAIN supplied = DOMAIN NewState
    BY StateSetStored DEF Stored, Sized
<1> HIDE DEF supplied
<1>3. SameElse(supplied, minted) /\ Balance(minted, c, to) = Balance(w, c, to) + amount
    BY <1>2, StateSetStored DEF Stored, Balance
<1> HIDE DEF minted
<1>4. minted.contracts = w.contracts
    BY <1>2, <1>3, Zenon DEF SameElse
<1>5. NativeLedgers(minted, asset) = NativeLedgers(w, asset) /\ LedgerOf(minted, asset) = c
    BY <1>4, SameLedgers, Zenon
<1>6. QED
    BY <1>1, <1>3, <1>5, Zenon DEF Holding

(* claim_staking_rewards pays what is due, and nothing is due then.        *)
RewardsPaid(w, o, t) ==
    /\ FramedOutcome(AccrualScope(t.target, t.sender), w, o)
    /\ o.ok => /\ Due(o.w, t.target, t.sender) = 0
               /\ LastRewardHeight(o.w, t.target, t.sender) = o.w.height
               /\ Holding(o.w, t.asset, t.sender)
                      = Holding(w, t.asset, t.sender) + Due(w, t.target, t.sender)

LEMMA HoldingNat ==
    ASSUME NEW w, Typed(w), NEW asset, NEW p
    PROVE  Holding(w, asset, p) \in Nat
    BY UintNat, Zenon DEF Holding, Balance

LEMMA PayRewardsOutcome ==
    ASSUME NEW w, Sized(w), NEW t, Kind(w, t.target).reward_per_block \in Nat,
           NEW u, Framed(AccrualScope(t.target, t.sender), w, u), Untouched(w, u),
           Settled(w, u, t.target, t.sender)
    PROVE  RewardsPaid(w, PayRewards(u, t), t)
<1> DEFINE c == t.target
           p == t.sender
           scope == AccrualScope(c, p)
           booked == <<"StakingRewardBalance", c, p>>
           last == <<"StakingLastRewardHeight", c, p>>
           claimed == StakingRewardBalance(u, c, p)
           cleared == StateSet(u, booked, 0)
           minted == MintAsset(cleared, p, t.asset, claimed)
<1>1. claimed = Due(w, c, p) /\ claimed \in Nat
    BY DueNat, Zenon DEF Settled, Sized
<1>2. booked \in scope /\ booked[1] \notin LedgerVariants /\ last[1] \notin LedgerVariants
      /\ booked # last
    BY Zenon DEF AccrualScope, LedgerVariants, TokenVariants
<1>3. Stored(u, cleared, booked, 0)
    BY StateSetStored, Zenon DEF Framed
<1>4. Framed(scope, w, cleared)
    BY <1>2, StateSetFramed, Zenon DEF LedgerVariants
<1>5. Untouched(w, cleared)
    BY <1>2, WriteUntouched, Zenon DEF Framed
<1>6. Sized(cleared)
    BY <1>4, FramedSized, Zenon
<1>7. UintAt(cleared, booked) = 0 /\ UintAt(cleared, last) = w.height
    BY <1>2, <1>3, Zenon DEF Stored, Settled, LastRewardHeight
<1> HIDE DEF cleared, claimed, scope, booked, last
<1>8. ASSUME NEW v, Framed(scope, w, v), Framed({}, cleared, v)
      PROVE  Due(v, c, p) = 0 /\ LastRewardHeight(v, c, p) = v.height
  <2>1. Same(cleared, v, booked) /\ Same(cleared, v, last)
    BY <1>2, <1>8, Zenon DEF Framed, LedgerKey, LedgerVariants
  <2>2. UintAt(v, booked) = 0 /\ UintAt(v, last) = w.height
    BY <1>7, <2>1, SameUint, Zenon
  <2>3. v.height = w.height /\ v.height \in Nat /\ Kind(v, c) = Kind(w, c) /\ Typed(v)
    BY <1>8, Zenon DEF Framed, SameElse, Sized, Kind
  <2>4. SaturatingSub(v.height, LastRewardHeight(v, c, p)) = 0
    BY <2>2, <2>3 DEF SaturatingSub, LastRewardHeight, last
  <2>5. StakeBalance(v, c, p) \in Nat
    BY <2>3, UintNat, Zenon DEF StakeBalance
  <2>6. Accrued(v, c, p) = 0
    BY <2>3, <2>4, <2>5 DEF Accrued, LastRewardHeight
  <2>7. QED
    BY <2>2, <2>3, <2>6 DEF Due, StakingRewardBalance, LastRewardHeight, booked, last
<1>9. Holding(cleared, t.asset, p) = Holding(w, t.asset, p) /\ Holding(w, t.asset, p) \in Nat
    BY <1>5, UntouchedHolding, HoldingNat DEF Sized
<1>10. CASE claimed = 0
  <2>1. Framed({}, cleared, cleared)
    BY <1>6, FramedSelf, Zenon
  <2>2. FramedOutcome(scope, w, Ok(cleared))
    BY <1>4, OkOutcome, Zenon
  <2>3. PayRewards(u, t) = Ok(cleared)
    BY <1>10, Zenon DEF PayRewards, cleared, claimed, booked
  <2>4. QED
    BY <1>1, <1>4, <1>8, <1>9, <1>10, <2>1, <2>2, <2>3 DEF RewardsPaid, Ok, scope
<1>11. CASE claimed # 0
  <2>1. FramedOutcome(scope, w, minted) /\ FramedOutcome({}, cleared, minted)
    BY <1>1, <1>4, <1>6, FramedSelf, MintAssetFramed, Zenon
  <2>2. minted.ok => Holding(minted.w, t.asset, p) = Holding(cleared, t.asset, p) + claimed
    BY <1>1, <1>6, MintAssetPays
  <2>3. PayRewards(u, t) = minted
    BY <1>11, Zenon DEF PayRewards, cleared, claimed, booked
  <2> HIDE DEF minted
  <2>4. minted.ok => Due(minted.w, c, p) = 0 /\ LastRewardHeight(minted.w, c, p) = minted.w.height
    BY <1>8, <2>1, SuccessFramed, Zenon
  <2>5. QED
    BY <1>1, <1>9, <2>1, <2>2, <2>3, <2>4, Zenon DEF RewardsPaid, scope
<1>12. QED
    BY <1>10, <1>11, Zenon

LEMMA ClaimOutcome ==
    ASSUME NEW w, Sized(w), NEW t, Kind(w, t.target).reward_per_block \in Nat
    PROVE  RewardsPaid(w, ClaimStakingRewards(w, t), t)
<1> DEFINE accrued == AccrueStakingRewards(w, t.target, t.sender)
<1>1. /\ FramedOutcome(AccrualScope(t.target, t.sender), w, accrued)
      /\ accrued.ok => Settled(w, accrued.w, t.target, t.sender)
    BY AccrueSettles, Zenon
<1>2. accrued.ok => Untouched(w, accrued.w)
    BY AccrueUntouched, Zenon
<1>3. \/ ClaimStakingRewards(w, t) = Err(w)
      \/ ClaimStakingRewards(w, t) = IF accrued.ok THEN PayRewards(accrued.w, t) ELSE accrued
    BY Zenon DEF ClaimStakingRewards, Require, Then
<1> HIDE DEF accrued
<1>4. accrued.ok => RewardsPaid(w, PayRewards(accrued.w, t), t)
    BY <1>1, <1>2, SuccessFramed, PayRewardsOutcome, Zenon
<1>5. RewardsPaid(w, Err(w), t) /\ (~accrued.ok => RewardsPaid(w, accrued, t))
    BY <1>1, FramedSelf, ErrOutcome, Zenon DEF RewardsPaid, Err
<1>6. QED
    BY <1>3, <1>4, <1>5, Zenon

-----------------------------------------------------------------------------
(* The bridge.                                                             *)

(* A message is queued: the asset is moved, the id is taken and a message  *)
(* of that id is appended.                                                 *)
Queued(w, v, t) ==
    \E u, message :
        /\ Framed({}, w, u) /\ message.message_id = t.id /\ message.source_contract = t.target
        /\ v = [u EXCEPT !.outbound_message_ids = @ \cup {t.id},
                         !.cross_shard_outbox = Append(@, message)]

LEMMA QueueOutcome ==
    ASSUME NEW w, Sized(w), NEW t, t.amount \in Nat
    PROVE  LET o == QueueBridgeMessage(w, t)
           IN  /\ Restorable(w, o.w)
               /\ o.ok => t.id \notin w.outbound_message_ids /\ Queued(w, o.w, t)
<1> DEFINE o == QueueBridgeMessage(w, t)
           taken == TransferAsset(w, t.sender, t.target, t.asset, t.amount)
           message == [source_chain |-> ChainId, source_contract |-> t.target,
                       source_height |-> w.height, destination_chain |-> t.chain,
                       destination_contract |-> t.contract, message_id |-> t.id,
                       recipient |-> t.to, asset |-> t.asset, amount |-> t.amount]
           queued == [taken.w EXCEPT !.outbound_message_ids = @ \cup {t.id},
                                     !.cross_shard_outbox = Append(@, message)]
<1>1. FramedOutcome({}, w, taken)
    BY FramedSelf, TransferAssetFramed, Zenon
<1>2. Restorable(w, w)
    BY Zenon DEF Restorable, Sized
<1>3. \/ o = Err(w)
      \/ ~taken.ok /\ o = taken
      \/ taken.ok /\ t.id \notin w.outbound_message_ids /\ o = Ok(queued)
    BY Zenon DEF QueueBridgeMessage, Require, Then
<1> HIDE DEF taken, o
<1>4. message.message_id = t.id /\ message.source_contract = t.target
    BY Zenon
<1> HIDE DEF message
<1>5. taken.ok => Queued(w, queued, t)
    BY <1>1, <1>4, SuccessFramed, Zenon DEF Queued
<1>6. Restorable(w, taken.w)
    BY <1>1, Zenon DEF FramedOutcome
<1>7. Restorable(w, queued)
    BY <1>6, Zenon DEF Restorable, NewState
<1> HIDE DEF queued
<1>8. QED
    BY <1>2, <1>3, <1>5, <1>6, <1>7 DEF Ok, Err, o

ConsumedKey(c, id) == <<"BridgeMessageConsumed", c, id>>

(* A message that is redeemed was not consumed before, and is now.         *)
LEMMA RedeemOutcome ==
    ASSUME NEW w, Sized(w), NEW t, t.amount \in Nat
    PROVE  LET o == RedeemBridgeMessage(w, t)
               key == ConsumedKey(t.target, t.id)
           IN  /\ FramedOutcome({key}, w, o)
               /\ o.ok => UintAt(w, key) = 0 /\ UintAt(o.w, key) = 1
<1> DEFINE o == RedeemBridgeMessage(w, t)
           key == ConsumedKey(t.target, t.id)
           minted == MintAsset(w, t.to, t.asset, t.amount)
           consumed == StateSet(minted.w, key, 1)
<1>1. Framed({key}, w, w) /\ FramedOutcome({key}, w, minted)
    BY FramedSelf, MintAssetFramed, Zenon
<1>2. \/ o = Err(w)
      \/ ~minted.ok /\ o = minted
      \/ minted.ok /\ UintAt(w, key) = 0 /\ o = Ok(consumed)
    BY Zenon DEF RedeemBridgeMessage, Require, Then, Consume, ConsumedKey
<1>3. key[1] \notin TokenVariants
    BY Zenon DEF ConsumedKey, TokenVariants
<1> HIDE DEF o, minted, key
<1>4. minted.ok => Framed({key}, w, minted.w)
    BY <1>1, SuccessFramed, Zenon
<1>5. minted.ok => Framed({key}, w, consumed)
    BY <1>3, <1>4, StateSetFramed, Zenon
<1>6. minted.ok => UintAt(consumed, key) = 1
    BY <1>4, StateSetStored DEF Framed, Stored
<1> HIDE DEF consumed
<1>7. /\ FramedOutcome({key}, w, Err(w))
      /\ minted.ok => FramedOutcome({key}, w, Ok(consumed))
    BY <1>1, <1>5, OkOutcome, ErrOutcome, Zenon
<1>8. FramedOutcome({key}, w, o)
    BY <1>1, <1>2, <1>7, Zenon
<1>9. o.ok => UintAt(w, key) = 0 /\ UintAt(o.w, key) = 1
    BY <1>2, <1>6 DEF Ok, Err
<1>10. QED
    BY <1>8, <1>9, Zenon DEF o, key

-----------------------------------------------------------------------------
(* Deployment.                                                             *)

(* One contract is added, and what is written belongs to it.               *)
Added(w, v, c) ==
    /\ DOMAIN v = DOMAIN NewState /\ Keeps(w, v) /\ Typed(v)
    /\ \A key : Same(w, v, key) \/ key[2] = c
    /\ c \notin DOMAIN w.contracts /\ DOMAIN v.contracts = DOMAIN w.contracts \cup {c}
    /\ \A d \in DOMAIN w.contracts : v.contracts[d] = w.contracts[d]
    /\ \A grant \in DOMAIN w.registry :
          grant \in DOMAIN v.registry /\ (HasGrant(w, grant) => HasGrant(v, grant))
    /\ \A grant \in DOMAIN v.registry :
          grant \in DOMAIN w.registry \/ grant[1] = "GovernanceAdmin"
    /\ v.height = w.height /\ v.paused_contracts = w.paused_contracts
    /\ v.aspect_modules = w.aspect_modules
    /\ v.scheduled_upgrades = w.scheduled_upgrades
    /\ v.scheduled_policy_updates = w.scheduled_policy_updates
    /\ v.trusted_bridge_validator_sets = w.trusted_bridge_validator_sets
    /\ v.outbound_message_ids = w.outbound_message_ids
    /\ v.cross_shard_outbox = w.cross_shard_outbox

LEMMA InsertAdded ==
    ASSUME NEW w, Sized(w), NEW c, c \notin DOMAIN w.contracts, NEW kind, NEW policies
    PROVE  LET v == Insert(w, c, kind, policies)
           IN  /\ Added(w, v, c) /\ v.contracts[c] = Record(kind, policies)
               /\ v.storage = w.storage /\ v.registry = w.registry
<1> DEFINE v == Insert(w, c, kind, policies)
           record == Record(kind, policies)
<1>1. /\ DOMAIN v = DOMAIN NewState /\ v.storage = w.storage /\ v.registry = w.registry
      /\ v.height = w.height /\ v.paused_contracts = w.paused_contracts
      /\ v.aspect_modules = w.aspect_modules
      /\ v.scheduled_upgrades = w.scheduled_upgrades
      /\ v.scheduled_policy_updates = w.scheduled_policy_updates
      /\ v.trusted_bridge_validator_sets = w.trusted_bridge_validator_sets
      /\ v.outbound_message_ids = w.outbound_message_ids
      /\ v.cross_shard_outbox = w.cross_shard_outbox
      /\ v.contracts = Over(Entry(c, record), w.contracts)
    BY Zenon DEF Insert, Sized, NewState
<1> HIDE DEF v, record
<1>2. /\ DOMAIN v.contracts = DOMAIN w.contracts \cup {c} /\ v.contracts[c] = record
      /\ \A d \in DOMAIN w.contracts : v.contracts[d] = w.contracts[d]
    BY <1>1, Zenon DEF Over, Entry
<1>3. Keeps(w, v) /\ Typed(v) /\ \A key : Same(w, v, key)
    BY <1>1, Zenon DEF Keeps, Typed, Same, Sized
<1>4. \A grant : HasGrant(w, grant) => HasGrant(v, grant)
    BY <1>1, Zenon DEF HasGrant
<1>5. Added(w, v, c)
    BY <1>1, <1>2, <1>3, <1>4, Zenon DEF Added
<1>6. QED
    BY <1>1, <1>2, <1>5, Zenon DEF v, record

(* What several writes do.                                                 *)
LEMMA WrittenAdded ==
    ASSUME NEW w, NEW c, NEW u, Added(w, u, c), NEW entries,
           \A key \in DOMAIN entries : entries[key] \in Nat /\ key[2] = c
    PROVE  LET v == Written(u, entries)
           IN  /\ Added(w, v, c) /\ v.contracts = u.contracts
               /\ DOMAIN v.storage = DOMAIN u.storage \cup DOMAIN entries
               /\ \A key \in DOMAIN entries : v.storage[key] = entries[key]
<1> DEFINE v == Written(u, entries)
<1>1. DOMAIN v = DOMAIN NewState /\ SameElse(u, v) /\ v.storage = Over(entries, u.storage)
    BY Zenon DEF Written, SameElse, NewState, Added
<1> HIDE DEF v
<1>2. /\ DOMAIN v.storage = DOMAIN u.storage \cup DOMAIN entries
      /\ \A key \in DOMAIN entries : v.storage[key] = entries[key]
      /\ \A key \in DOMAIN u.storage : key \notin DOMAIN entries => v.storage[key] = u.storage[key]
    BY <1>1, Zenon DEF Over
<1>3. Typed(v) /\ Keeps(w, v)
    BY <1>2, Zenon DEF Typed, Keeps, Added
<1>4. \A key : Same(w, v, key) \/ key[2] = c
    BY <1>2, Zenon DEF Added, Same
<1>5. \A grant : HasGrant(u, grant) => HasGrant(v, grant)
    BY <1>1, Zenon DEF SameElse, HasGrant
<1>6. Added(w, v, c)
    BY <1>1, <1>3, <1>4, <1>5, Zenon DEF Added, SameElse
<1>7. QED
    BY <1>1, <1>2, <1>6, Zenon DEF v, SameElse

LEMMA GrantAdded ==
    ASSUME NEW w, NEW c, NEW u, Added(w, u, c), NEW grant, grant[1] = "GovernanceAdmin"
    PROVE  LET v == AddGrant(u, grant)
           IN  Added(w, v, c) /\ v.contracts = u.contracts /\ v.storage = u.storage
<1> DEFINE v == AddGrant(u, grant)
<1>1. /\ DOMAIN v = DOMAIN NewState /\ v.storage = u.storage /\ v.contracts = u.contracts
      /\ v.height = u.height /\ v.paused_contracts = u.paused_contracts
      /\ v.aspect_modules = u.aspect_modules
      /\ v.scheduled_upgrades = u.scheduled_upgrades
      /\ v.scheduled_policy_updates = u.scheduled_policy_updates
      /\ v.trusted_bridge_validator_sets = u.trusted_bridge_validator_sets
      /\ v.outbound_message_ids = u.outbound_message_ids
      /\ v.cross_shard_outbox = u.cross_shard_outbox
      /\ v.registry = Over(Entry(grant, "active"), u.registry)
    BY Zenon DEF AddGrant, Added, NewState
<1> HIDE DEF v
<1>2. /\ DOMAIN v.registry = DOMAIN u.registry \cup {grant} /\ v.registry[grant] = "active"
      /\ \A g \in DOMAIN u.registry : g # grant => v.registry[g] = u.registry[g]
    BY <1>1, Zenon DEF Over, Entry
<1>3. \A g : HasGrant(u, g) => HasGrant(v, g)
    BY <1>2, Zenon DEF HasGrant
<1>4. Keeps(w, v) /\ Typed(v) /\ \A key : Same(w, v, key) \/ key[2] = c
    BY <1>1, Zenon DEF Added, Keeps, Typed, Same
<1>5. /\ \A g \in DOMAIN w.registry : g \in DOMAIN v.registry /\ (HasGrant(w, g) => HasGrant(v, g))
      /\ \A g \in DOMAIN v.registry : g \in DOMAIN w.registry \/ g[1] = "GovernanceAdmin"
    BY <1>2, <1>3, Zenon DEF Added
<1>6. Added(w, v, c)
    BY <1>1, <1>4, <1>5, Zenon DEF Added
<1>7. QED
    BY <1>1, <1>6, Zenon DEF v

(* The sum of nothing, and of one number.                                  *)
LEMMA EmptySum ==
    ASSUME NEW f, DOMAIN f = {}
    PROVE  SumFunction(f) = 0
<1> DEFINE Step(g) == [s \in SUBSET {} |->
                          IF s = {} THEN 0 ELSE LET x == CHOOSE x \in s : TRUE IN f[x] + g[s \ {x}]]
           iter == CHOOSE g : g = Step(g)
<1>1. [s \in SUBSET {} |-> 0] = Step([s \in SUBSET {} |-> 0])
    BY Zenon
<1>2. iter = Step(iter)
    BY <1>1, Zenon
<1> HIDE DEF iter
<1>3. iter[{}] = 0
    BY <1>2, Zenon
<1>4. SumFunction(f) = iter[{}]
    BY Zenon DEF SumFunction, SumFunctionOnSet, FoldFunctionOnSet, MapThenFoldSet, iter
<1>5. QED
    BY <1>3, <1>4, Zenon

LEMMA SingleSum ==
    ASSUME NEW n \in Nat
    PROVE  SumFunction([i \in {1} |-> n]) = n
<1> DEFINE f == [i \in {1} |-> n]
           Step(g) == [s \in SUBSET {1} |->
                          IF s = {} THEN 0 ELSE LET x == CHOOSE x \in s : TRUE IN f[x] + g[s \ {x}]]
           iter == CHOOSE g : g = Step(g)
           sums == [s \in SUBSET {1} |-> IF s = {} THEN 0 ELSE n]
<1>1. /\ \A s \in SUBSET {1} : s = {} \/ s = {1}
      /\ {} \in SUBSET {1} /\ {1} \in SUBSET {1} /\ (CHOOSE x \in {1} : TRUE) = 1
    BY Zenon
<1>2. sums = Step(sums)
  <2>1. ASSUME NEW s \in SUBSET {1} PROVE sums[s] = Step(sums)[s]
    <3>1. CASE s = {}
        BY <3>1, Zenon
    <3>2. CASE s = {1}
      <4>1. (CHOOSE x \in s : TRUE) = 1 /\ s \ {1} = {} /\ s # {}
        BY <3>2, Zenon
      <4>2. Step(sums)[s] = f[1] + sums[s \ {1}]
        BY <4>1, Zenon
      <4>3. f[1] = n /\ sums[s \ {1}] = 0 /\ sums[s] = n
        BY <4>1, Zenon
      <4>4. QED
        BY <4>2, <4>3
    <3>3. QED
        BY <1>1, <3>1, <3>2, Zenon
  <2>2. QED
    BY <2>1, Zenon
<1>3. iter = Step(iter)
    BY <1>2, Zenon
<1> HIDE DEF iter
<1>4. iter[{}] = 0 /\ iter[{1}] = f[1] + iter[{1} \ {1}]
    BY <1>1, <1>3
<1>5. iter[{1}] = n
    BY <1>4
<1>6. SumFunction(f) = iter[{1}]
    BY Zenon DEF SumFunction, SumFunctionOnSet, FoldFunctionOnSet, MapThenFoldSet, iter
<1>7. QED
    BY <1>5, <1>6, Zenon

LEMMA AddedRestorable ==
    ASSUME NEW w, NEW v, NEW c, Added(w, v, c)
    PROVE  Restorable(w, v)
    BY Zenon DEF Added, Restorable

LEMMA SelfRestorable ==
    ASSUME NEW w, Sized(w)
    PROVE  Restorable(w, w)
    BY Zenon DEF Restorable, Sized

(* deploy_token adds a token whose supply is what it gives out.            *)
LEMMA DeployTokenOutcome ==
    ASSUME NEW w, Sized(w), NEW t, t.amount \in Nat
    PROVE  LET o == DeployTokenFromFactory(w, t)
           IN  /\ Restorable(w, o.w)
               /\ o.ok => /\ Added(w, o.w, t.contract)
                          /\ o.w.contracts[t.contract]
                                = Record([name |-> "Token", asset |-> t.asset], TokenPolicies)
                          /\ TokenInvariantsHold(o.w, t.contract)
<1> DEFINE c == t.contract
           kind == [name |-> "Token", asset |-> t.asset]
           balances == <<<<t.to, t.amount>>>>
           owners == {balances[i][1] : i \in DOMAIN balances}
           total == SumFunction([i \in DOMAIN balances |-> balances[i][2]])
           opening == [key \in {<<"Balance", c, owner>> : owner \in owners} |->
                          balances[CHOOSE i \in DOMAIN balances : balances[i][1] = key[3]][2]]
           inserted == Insert(w, c, kind, TokenPolicies)
           opened == Written(inserted, opening)
           supply == Entry(<<"TotalSupply", c>>, total)
           deployed == Written(opened, supply)
           o == DeployTokenFromFactory(w, t)
<1>1. /\ DOMAIN balances = {1} /\ balances[1] = <<t.to, t.amount>>
      /\ balances[1][1] = t.to /\ balances[1][2] = t.amount
    OBVIOUS
<1>2. owners = {t.to}
    BY <1>1, Zenon
<1>3. total \in Nat
  <2>1. [i \in DOMAIN balances |-> balances[i][2]] = [i \in {1} |-> t.amount]
    BY <1>1, Zenon
  <2>2. QED
    BY <2>1, SingleSum, Zenon
<1>4. \/ o = Err(w)
      \/ /\ c \notin DOMAIN w.contracts
         /\ o = Require(TokenInvariantsHold(deployed, c), deployed, Ok(deployed))
    BY Zenon DEF DeployTokenFromFactory, DeployToken, Require, StateSet
<1> HIDE DEF total, o
<1>5. \A key \in DOMAIN opening : opening[key] \in Nat /\ key[2] = c
  <2>1. DOMAIN opening = {<<"Balance", c, t.to>>}
    BY <1>2, Zenon
  <2> DEFINE only == <<"Balance", c, t.to>>
  <2>2. only[3] = t.to /\ only[2] = c
    BY Zenon
  <2> HIDE DEF only
  <2>3. (CHOOSE i \in DOMAIN balances : balances[i][1] = only[3]) = 1
    BY <1>1, <2>2, Zenon
  <2>4. only \in DOMAIN opening
    BY <2>1, Zenon DEF only
  <2>5. opening[only] = t.amount
    BY <1>1, <2>3, <2>4, Zenon
  <2>6. QED
    BY <2>1, <2>2, <2>5, Zenon DEF only
<1> HIDE DEF opening
<1>6. \A key \in DOMAIN supply : supply[key] \in Nat /\ key[2] = c
    BY <1>3 DEF Entry
<1> HIDE DEF supply
<1>7. ASSUME c \notin DOMAIN w.contracts
      PROVE  Added(w, deployed, c) /\ deployed.contracts[c] = Record(kind, TokenPolicies)
  <2>1. Added(w, inserted, c) /\ inserted.contracts[c] = Record(kind, TokenPolicies)
    BY <1>7, InsertAdded
  <2> HIDE DEF inserted, kind
  <2>2. Added(w, opened, c) /\ opened.contracts = inserted.contracts
    BY <1>5, <2>1, WrittenAdded
  <2> HIDE DEF opened
  <2>3. Added(w, deployed, c) /\ deployed.contracts = opened.contracts
    BY <1>6, <2>2, WrittenAdded
  <2>4. QED
    BY <2>1, <2>2, <2>3, Zenon
<1> HIDE DEF deployed, kind
<1>8. QED
    BY <1>4, <1>7, AddedRestorable, SelfRestorable DEF Require, Ok, Err, o, kind

(* What is stored belongs to a contract that is deployed.                  *)
Owned(w) == \A key \in DOMAIN w.storage : OwnerContract(key) \in DOMAIN w.contracts

(* deploy_amm_pool adds a pool without shares.                             *)
LEMMA DeployPoolOutcome ==
    ASSUME NEW w, Sized(w), Owned(w), NEW t
    PROVE  LET o == DeployAmmPoolFromFactory(w, t)
           IN  /\ Restorable(w, o.w)
               /\ o.ok => /\ Added(w, o.w, t.contract) /\ t.asset # t.asset_b
                          /\ o.w.contracts[t.contract]
                                = Record([name |-> "AmmPool", asset_a |-> t.asset,
                                          asset_b |-> t.asset_b, swap_fee_bps |-> 30], AmmPoolPolicies)
                          /\ AmmInvariantsHold(o.w, t.contract)
<1> DEFINE c == t.contract
           a == t.asset
           b == t.asset_b
           kind == [name |-> "AmmPool", asset_a |-> a, asset_b |-> b, swap_fee_bps |-> 30]
           supply == <<"LpSupply", c>>
           keys == {<<"Reserve", c, a>>, <<"Reserve", c, b>>, supply,
                    <<"AmmFeeCollected", c, a>>, <<"AmmFeeCollected", c, b>>}
           zeros == [key \in keys |-> 0]
           inserted == Insert(w, c, kind, AmmPoolPolicies)
           v == Written(inserted, zeros)
           o == DeployAmmPoolFromFactory(w, t)
<1>1. o = Err(w) \/ (c \notin DOMAIN w.contracts /\ a # b /\ o = Ok(v))
    BY Zenon DEF DeployAmmPoolFromFactory, DeployAmmPool, DeployAmmPoolWithParameters, Require
<1>2. \A key \in keys : key[2] = c /\ key[1] # "LpBalance"
    OBVIOUS
<1>3. supply \in keys
    BY Zenon
<1> HIDE DEF keys, o, supply
<1>4. DOMAIN zeros = keys /\ \A key \in DOMAIN zeros : zeros[key] \in Nat /\ key[2] = c
    BY <1>2, Zenon
<1>5. ASSUME c \notin DOMAIN w.contracts
      PROVE  /\ Added(w, v, c) /\ v.contracts[c] = Record(kind, AmmPoolPolicies)
             /\ AmmInvariantsHold(v, c)
  <2>1. /\ Added(w, inserted, c) /\ inserted.contracts[c] = Record(kind, AmmPoolPolicies)
        /\ inserted.storage = w.storage
    BY <1>5, InsertAdded
  <2> HIDE DEF inserted, kind
  <2>2. /\ Added(w, v, c) /\ v.contracts = inserted.contracts
        /\ DOMAIN v.storage = DOMAIN w.storage \cup keys
        /\ \A key \in keys : v.storage[key] = 0
    BY <1>4, <2>1, WrittenAdded
  <2> HIDE DEF v, zeros
  <2>3. \A key \in DOMAIN w.storage : key[2] # c
    BY <1>5, Zenon DEF Owned, OwnerContract
  <2>4. {key \in DOMAIN v.storage : key[1] = "LpBalance" /\ key[2] = c} = {}
    BY <1>2, <2>2, <2>3, Zenon
  <2>5. SumOver(v, "LpBalance", c) = 0
    BY <2>4, EmptySum, Zenon DEF SumOver, Restrict
  <2>6. LpSupply(v, c) = 0
    BY <1>3, <2>2, Zenon DEF LpSupply, UintAt, supply
  <2>7. QED
    BY <2>1, <2>2, <2>5, <2>6, AmountAssumption, SMTT(20) DEF AmmInvariantsHold, Fits
<1> HIDE DEF v, kind
<1>6. QED
    BY <1>1, <1>5, AddedRestorable, SelfRestorable DEF Ok, Err, o, kind

(* deploy_aspect_contract adds a contract of a registered module.          *)
LEMMA DeployAspectOutcome ==
    ASSUME NEW w, Sized(w), NEW t
    PROVE  LET o == DeployAspectContractFromFactory(w, t)
               record == o.w.contracts[t.contract]
           IN  /\ Restorable(w, o.w)
               /\ o.ok => /\ Added(w, o.w, t.contract)
                          /\ DOMAIN record = {"kind", "code_hash", "method_policies"}
                          /\ record.kind = [name |-> "AspectModule", module_hash |-> t.module_hash,
                                            bundle |-> t.bundle]
                          /\ t.module_hash \in DOMAIN w.aspect_modules
                          /\ record.method_policies = Nothing
                             \/ /\ w.aspect_modules[t.module_hash].has_ir
                                /\ t.bundle \in DOMAIN w.aspect_modules[t.module_hash].bundles
                                /\ record.method_policies
                                      = w.aspect_modules[t.module_hash].bundles[t.bundle]
<1> DEFINE c == t.contract
           hash == t.module_hash
           module == w.aspect_modules[hash]
           kind == [name |-> "AspectModule", module_hash |-> hash, bundle |-> t.bundle]
           policies == AspectModuleMethodPolicies(module, t.bundle)
           inserted == Insert(w, c, kind, policies)
           hashed == [inserted EXCEPT !.contracts[c].code_hash = hash]
           v == AddGrant(hashed, <<"GovernanceAdmin", c, t.sender>>)
           o == DeployAspectContractFromFactory(w, t)
           deployed == DeployAspectContract(w, c, hash, t.bundle)
<1>1. \/ o = Err(w)
      \/ /\ c \notin DOMAIN w.contracts /\ hash \in DOMAIN w.aspect_modules
         /\ module.has_ir => t.bundle \in DOMAIN module.bundles
         /\ o = Ok(v)
  <2>1. o = IF deployed.ok THEN Ok(AddGrant(deployed.w, <<"GovernanceAdmin", c, t.sender>>))
            ELSE deployed
    BY Zenon DEF DeployAspectContractFromFactory, Then
  <2>2. \/ deployed = Err(w)
        \/ /\ c \notin DOMAIN w.contracts /\ hash \in DOMAIN w.aspect_modules
           /\ module.has_ir => t.bundle \in DOMAIN module.bundles
           /\ deployed = Ok(hashed)
    BY Zenon DEF DeployAspectContract, Require
  <2> HIDE DEF deployed, hashed
  <2>3. deployed = Ok(hashed) => deployed.ok /\ deployed.w = hashed
    BY DEF Ok
  <2>4. deployed = Err(w) => ~deployed.ok
    BY DEF Err
  <2>5. QED
    BY <2>1, <2>2, <2>3, <2>4, Zenon
<1>2. policies = Nothing \/ (module.has_ir /\ policies = module.bundles[t.bundle])
    BY Zenon DEF AspectModuleMethodPolicies
<1> HIDE DEF o, policies, kind
<1>3. ASSUME c \notin DOMAIN w.contracts
      PROVE  /\ Added(w, v, c) /\ DOMAIN v.contracts[c] = {"kind", "code_hash", "method_policies"}
             /\ v.contracts[c].kind = kind /\ v.contracts[c].method_policies = policies
  <2>1. Added(w, inserted, c) /\ inserted.contracts[c] = Record(kind, policies)
    BY <1>3, InsertAdded
  <2> HIDE DEF inserted
  <2>2. /\ DOMAIN hashed = DOMAIN NewState /\ hashed.storage = inserted.storage
        /\ hashed.registry = inserted.registry /\ hashed.height = inserted.height
        /\ hashed.paused_contracts = inserted.paused_contracts
        /\ hashed.aspect_modules = inserted.aspect_modules
        /\ hashed.scheduled_upgrades = inserted.scheduled_upgrades
        /\ hashed.scheduled_policy_updates = inserted.scheduled_policy_updates
        /\ hashed.trusted_bridge_validator_sets = inserted.trusted_bridge_validator_sets
        /\ hashed.outbound_message_ids = inserted.outbound_message_ids
        /\ hashed.cross_shard_outbox = inserted.cross_shard_outbox
        /\ hashed.contracts = [inserted.contracts EXCEPT ![c].code_hash = hash]
    BY <2>1, Zenon DEF Added, NewState
  <2>3. c \in DOMAIN inserted.contracts
    BY <2>1, Zenon DEF Added
  <2> HIDE DEF hashed
  <2>4. /\ DOMAIN hashed.contracts = DOMAIN inserted.contracts
        /\ \A d \in DOMAIN w.contracts : hashed.contracts[d] = inserted.contracts[d]
        /\ hashed.contracts[c] = [inserted.contracts[c] EXCEPT !.code_hash = hash]
    BY <1>3, <2>1, <2>2, <2>3, Zenon DEF Added
  <2>5. Keeps(w, hashed) /\ Typed(hashed) /\ \A key : Same(w, hashed, key) \/ key[2] = c
    BY <2>1, <2>2 DEF Added, Keeps, Typed, Same
  <2>6. \A g : HasGrant(inserted, g) <=> HasGrant(hashed, g)
    BY <2>2, Zenon DEF HasGrant
  <2>7. Added(w, hashed, c)
    BY <2>1, <2>2, <2>4, <2>5, <2>6 DEF Added
  <2>8. Added(w, v, c) /\ v.contracts = hashed.contracts
    BY <2>7, GrantAdded
  <2> HIDE DEF v
  <2>9. QED
    BY <2>1, <2>4, <2>8 DEF Record
<1> HIDE DEF v
<1>4. QED
    BY <1>1, <1>2, <1>3, AddedRestorable, SelfRestorable DEF Ok, Err, o, kind, policies

=============================================================================
