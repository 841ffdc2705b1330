------------------------- MODULE ValidatorSetMetadata -------------------------
(***************************************************************************)
(* Validator-set metadata updates.  Validators sign updates of the keyring *)
(* (who to add, with which key, and who to remove); a node collects the    *)
(* authorizations of an update in a pool and applies the update once a     *)
(* quorum of its own keyring has signed the same content.  The pool and    *)
(* the keyring are stored, the limits of the pool are not.                 *)
(*                                                                         *)
(* An authorization is a SignedValidatorMessage with an update in it; the  *)
(* key id and the key of a validator are one number.  The network delivers *)
(* any of them at any time and any number of times.  The pool is the set   *)
(* of authorizations it holds, at most one per update id and signer, which *)
(* is what the map of maps of the code is.                                 *)
(***************************************************************************)
EXTENDS NodeFiles, TLC

CONSTANTS
    Chain,          \* the chain id
    NeverExpires    \* expires_at_height = None

--------------------------------------------------------------------------------
(***************************************************************************)
(* Messages validators sign (detta-protocol).  A signature covers the      *)
(* domain, the network, the chain and the message, so it is written as the *)
(* key that made it over the other fields of the same record; bytes that   *)
(* no key signed are NoSignature.  A public key is the id of its owner,    *)
(* the key id and the key itself.                                          *)
(***************************************************************************)
NoSignature == 0

\* expected_signature_domain: the kinds of message that can be signed.
SignatureDomain ==
    [block |-> "BlockProposal", vote |-> "Vote", certificate |-> "FinalityCertificate",
     set_update |-> "ValidatorSetUpdate", metadata_update |-> "ValidatorSetMetadataUpdate",
     evidence |-> "EquivocationEvidence"]

\* claimed_message_signer: a block names its proposer and a vote its voter.
ClaimedSigner(message) ==
    CASE message.kind = "block" -> {message.proposer}
      [] message.kind = "vote" -> {message.validator_id}
      [] OTHER -> {}

\* sign_message, for a message that has a domain.
SignMessage(validator, key_id, key, network, chain, message) ==
    [signer |-> validator, key_id |-> key_id, network |-> network, chain |-> chain,
     domain |-> SignatureDomain[message.kind], message |-> message, signature |-> key]

\* SignedValidatorMessage::verify: the error, or "ok".
VerifyOutcome(signed, network, chain, public) ==
    CASE signed.network # network -> "network_mismatch"
      [] signed.chain # chain -> "chain_mismatch"
      [] signed.signer # public.validator_id -> "signer_mismatch"
      [] signed.key_id # public.key_id -> "key_id_mismatch"
      [] signed.message.kind \notin DOMAIN SignatureDomain -> "unsupported_message_kind"
      [] signed.domain # SignatureDomain[signed.message.kind] -> "domain_mismatch"
      [] ClaimedSigner(signed.message) \notin {{}, {signed.signer}} -> "message_signer_mismatch"
      [] signed.signature # public.key -> "invalid_signature"
      [] OTHER -> "ok"

--------------------------------------------------------------------------------
\* verify_signed_validator_message, with a keyring and a network id, be they
\* those a node has in memory or those it has stored.
VerifiedMessage(held, a) ==
    /\ a.signer \in DOMAIN held.keyring
    /\ VerifyOutcome(a, held.network, Chain,
                     [validator_id |-> a.signer, key_id |-> held.keyring[a.signer],
                      key |-> held.keyring[a.signer]]) = "ok"

\* verified_validator_set_metadata_update.
Verified(held, a) == VerifiedMessage(held, a) /\ a.message.kind = "metadata_update"

Expired(update, height) ==
    update.expires_at_height # NeverExpires /\ height >= update.expires_at_height

\* consensus quorum_for, and the floor of one the node puts under it.
Quorum(keyring) ==
    LET count == Cardinality(DOMAIN keyring)
    IN  IF count = 0 THEN 1 ELSE (count * 2) \div 3 + 1

ForUpdate(pool, id) == {a \in pool : a.message.update.update_id = id}
UpdateIds(pool) == {a.message.update.update_id : a \in pool}

\* authorizations.values().next(): the map is ordered by signer.
FirstOf(auths) == CHOOSE a \in auths : \A b \in auths : a.signer <= b.signer

(***************************************************************************)
(* insert_pending_validator_set_metadata_authorization: the error it       *)
(* returns, or "ok".                                                       *)
(***************************************************************************)
InsertOutcome(m, a) ==
    LET id    == a.message.update.update_id
        same  == ForUpdate(m.pending, id)
        mine  == {b \in m.pending : b.signer = a.signer}
    IN  CASE ~Verified(m, a) -> "unverified"
          [] Expired(a.message.update, m.height) -> "expired"
          [] id \in m.applied -> "already_applied"
          [] same = {} /\ Cardinality(UpdateIds(m.pending)) >= m.max_updates -> "pool_full"
          [] mine \cap same = {} /\ Cardinality(mine) >= m.max_per_validator -> "rate_limited"
          [] same # {} /\ ~Verified(m, FirstOf(same)) -> "unverified_first"
          [] same # {} /\ FirstOf(same).message.update # a.message.update -> "mismatch"
          [] OTHER -> "ok"

\* A signer's new authorization of an update replaces its earlier one.
Inserted(m, a) ==
    [m EXCEPT !.pending =
        {b \in @ : ~(b.signer = a.signer /\ b.message.update.update_id = a.message.update.update_id)}
        \cup {a}]

\* The keyring after the update: removals first, so that one update can
\* replace a validator's key.
NextKeyring(keyring, update) ==
    [v \in DOMAIN update.add \cup (DOMAIN keyring \ update.remove) |->
        IF v \in DOMAIN update.add THEN update.add[v] ELSE keyring[v]]

\* Mutant: the messages are not verified with the keyring of the moment the
\* update is applied.
ApplyOutcomeUnverified(m, messages, quorum) ==
    LET update == FirstOf(messages).message.update
    IN  CASE \E a \in messages : a.message.update.update_id \in m.applied -> "already_applied"
          [] \E a \in messages : a.message.update # update -> "mismatch"
          [] messages = {} \/ Cardinality({a.signer : a \in messages}) < quorum -> "no_quorum"
          [] ~(update.remove \subseteq DOMAIN m.keyring) -> "key_not_found"
          [] DOMAIN update.add \cap (DOMAIN m.keyring \ update.remove) # {} -> "duplicate_key"
          [] OTHER -> "ok"

(***************************************************************************)
(* apply_quorum_authorized_validator_set_metadata_update_with_quorum and   *)
(* apply_validator_set_metadata_update: every message must verify now, all *)
(* must have the same content, and as many validators as the caller wants  *)
(* must have signed, one at least; the removed validators must be there    *)
(* and the added ones must not.  Expiry is not looked at again.            *)
(***************************************************************************)
ApplyOutcome(m, messages, quorum) ==
    LET update == FirstOf(messages).message.update
    IN  CASE \E a \in messages : ~Verified(m, a) -> "unverified"
          [] \E a \in messages : a.message.update.update_id \in m.applied -> "already_applied"
          [] \E a \in messages : a.message.update # update -> "mismatch"
          [] messages = {} \/ Cardinality({a.signer : a \in messages}) < quorum -> "no_quorum"
          [] ~(update.remove \subseteq DOMAIN m.keyring) -> "key_not_found"
          [] DOMAIN update.add \cap (DOMAIN m.keyring \ update.remove) # {} -> "duplicate_key"
          [] OTHER -> "ok"

\* The memory once the update is applied.
Applied(m, update) ==
    [m EXCEPT !.keyring = NextKeyring(@, update), !.applied = @ \cup {update.update_id}]

\* commit_validator_set_metadata: network id, keyring and applied updates are
\* one file.
StoreMetadata(d, m) ==
    [d EXCEPT !.network = m.network, !.keyring = m.keyring, !.applied = m.applied]

\* persist_pending_validator_set_metadata_authorizations
PersistPending(d, m) == [d EXCEPT !.pending = m.pending]

(***************************************************************************)
(* apply_pending_validator_set_metadata_update, from files d and memory m: *)
(* the quorum is that of the node's keyring; the metadata file is written  *)
(* and reaches memory after that, then the audit record, then the pool.  A *)
(* refused update is recorded and stays in the pool.                       *)
(***************************************************************************)
ApplySteps(d, m, id) ==
    LET held == ForUpdate(m.pending, id)
    IN  IF ApplyOutcome(m, held, Quorum(m.keyring)) # "ok"
        THEN RecordAudit(d, m, m, id, "rejected")
        ELSE LET m1 == Applied(m, FirstOf(held).message.update)
                 d1 == StoreMetadata(d, m1)
                 m2 == [m1 EXCEPT !.pending = @ \ ForUpdate(@, id)]
                 audit == RecordAudit(d1, m1, m2, id, "applied")
             IN  <<Step(d1, m1), audit[1], audit[2],
                   Step(PersistPending(audit[2].disk, m2), m2)>>

--------------------------------------------------------------------------------
(***************************************************************************)
(* What an authorization does to a node with memory m and files d, be it   *)
(* from a peer or from a client: it is verified, put into the pool, and    *)
(* the update is applied once the pool holds a quorum                      *)
(* (propose_validator_set_metadata_update_authorization,                   *)
(* record_pending_validator_set_metadata_authorization).                   *)
(***************************************************************************)
Authorize(d, m, a) ==
    LET id == a.message.update.update_id
        next == Inserted(m, a)
        saved == PersistPending(d, next)
        enough == Cardinality(ForUpdate(next.pending, id)) >= Quorum(m.keyring)
    IN  CASE ~Verified(m, a) -> [mem |-> m, steps |-> <<>>, error |-> TRUE]
          [] Verified(m, a) /\ InsertOutcome(m, a) # "ok" ->
                [mem |-> m, steps |-> RecordAudit(d, m, m, id, "rejected"), error |-> TRUE]
          [] Verified(m, a) /\ InsertOutcome(m, a) = "ok" ->
                [mem |-> next,
                 steps |-> <<Step(saved, next)>>
                           \o IF enough THEN ApplySteps(saved, next, id) ELSE <<>>,
                 error |-> enough /\ ApplyOutcome(next, ForUpdate(next.pending, id),
                                                   Quorum(next.keyring)) # "ok"]

\* apply_pending_validator_set_metadata_update called by the operator.
ApplyPending(n, id) ==
    /\ Idle(n) /\ id \in UpdateIds(mem[n].pending)
    /\ Begin(n, mem[n], ApplySteps(disk[n], mem[n], id))
    /\ UNCHANGED <<scope, disk, faults>>

(***************************************************************************)
(* What the program around the node may do to its validator set by hand.   *)
(* apply_quorum_authorized_validator_set_metadata_update_with_quorum takes *)
(* messages the pool need not hold and a quorum of the caller's; it keeps  *)
(* no audit record and leaves the pool as it is.                           *)
(***************************************************************************)
ApplyMessages(n, messages, quorum) ==
    /\ Idle(n) /\ ApplyOutcome(mem[n], messages, quorum) = "ok"
    /\ LET m == Applied(mem[n], FirstOf(messages).message.update)
       IN  Begin(n, mem[n], <<Step(StoreMetadata(disk[n], m), m)>>)
    /\ UNCHANGED <<scope, disk, faults>>

\* persist_validator_set_metadata: no signatures, and no update counts as
\* applied any more.
PersistValidatorSetMetadata(n, network, keyring) ==
    /\ Idle(n)
    /\ LET m == [mem[n] EXCEPT !.network = network, !.keyring = keyring, !.applied = {}]
       IN  Begin(n, mem[n], <<Step(StoreMetadata(disk[n], m), m)>>)
    /\ UNCHANGED <<scope, disk, faults>>

\* trust_validator_key: memory only, so a restart forgets it, unless an
\* update is applied before that.
TrustValidatorKey(n, validator, key) ==
    /\ Idle(n)
    /\ mem' = [mem EXCEPT ![n].keyring =
                 [v \in DOMAIN @ \cup {validator} |-> IF v = validator THEN key ELSE @[v]]]
    /\ UNCHANGED <<scope, disk, work, faults>>

\* set_network_id: memory only, too.
SetNetworkId(n, network) ==
    /\ Idle(n)
    /\ mem' = [mem EXCEPT ![n].network = network]
    /\ UNCHANGED <<scope, disk, work, faults>>

(***************************************************************************)
(* prune_validator_set_metadata_authorizations: the first authorization of *)
(* each update must verify or nothing is pruned; then every applied or     *)
(* expired update leaves the pool, in the order of the ids, each with its  *)
(* audit record, and the pool is stored last.                              *)
(***************************************************************************)
Prunable(m) ==
    {id \in UpdateIds(m.pending) :
        id \in m.applied \/ Expired(FirstOf(ForUpdate(m.pending, id)).message.update, m.height)}

PrunedOf(m, ids) == [m EXCEPT !.pending = {a \in @ : a.message.update.update_id \notin ids}]

\* The ids in their order: the i-th, and the first i.
Rank(ids, id) == Cardinality({j \in ids : j < id})
NthOf(ids, i) == CHOOSE id \in ids : Rank(ids, id) = i - 1
FirstIds(ids, i) == {id \in ids : Rank(ids, id) < i}

\* The files once the first i of the ids have their records.
PrunedFiles(d, m, ids, i) ==
    LET records == [j \in 1..i |-> [update_id |-> NthOf(ids, j), outcome |-> "pruned"]]
    IN  IF i = 0 THEN d
        ELSE PersistCurrentRoots([d EXCEPT !.audit = Retained(@ \o records, m.max_audit)])

\* The i-th of the ids, which is out of the pool, is recorded, then the next
\* one leaves the pool.
PruneStep(d, m, ids, i) ==
    RecordAudit(PrunedFiles(d, m, ids, i - 1), PrunedOf(m, FirstIds(ids, i)),
                PrunedOf(m, FirstIds(ids, i + 1)), NthOf(ids, i), "pruned")

PruneSteps(d, m, ids) ==
    LET count == Cardinality(ids)
        end == PrunedOf(m, ids)
    IN  [k \in 1..(2 * count) |->
            IF k % 2 = 1 THEN PruneStep(d, m, ids, (k + 1) \div 2)[1]
            ELSE PruneStep(d, m, ids, k \div 2)[2]]
        \o <<Step(PersistPending(PrunedFiles(d, m, ids, count), end), end)>>

Prune(n) ==
    LET m == mem[n]
        ids == Prunable(m)
    IN  /\ Idle(n) /\ ids # {}
        /\ \A id \in UpdateIds(m.pending) :
              Verified(m, FirstOf(ForUpdate(m.pending, id)))
        /\ Begin(n, PrunedOf(m, FirstIds(ids, 1)),
                 PruneSteps(disk[n], m, ids))
        /\ UNCHANGED <<scope, disk, faults>>

\* Mutant: the authorizations of expired updates are inserted too.
LiveStoredOrExpired(d) == {a \in d.pending : a.message.update.update_id \notin d.applied}

(***************************************************************************)
(* load_pending_validator_set_metadata_authorizations: every stored        *)
(* authorization must verify with the stored keyring; those of applied and *)
(* expired updates are skipped; the others are inserted in the order of    *)
(* the file, under the default limits, and any refusal fails the restart.  *)
(***************************************************************************)
LiveStored(d) ==
    {a \in d.pending : a.message.update.update_id \notin d.applied /\ ~Expired(a.message.update, d.snapshot)}

\* The order of the file: by update id, then by signer.
Precedes(b, a) ==
    \/ b.message.update.update_id < a.message.update.update_id
    \/ b.message.update.update_id = a.message.update.update_id /\ b.signer < a.signer

\* Each authorization finds the ones before it in the pool.
Inserts(m, auths) ==
    IF \A a \in auths :
          InsertOutcome([m EXCEPT !.pending = {b \in auths : Precedes(b, a)}], a) = "ok"
    THEN {[m EXCEPT !.pending = auths]} ELSE {}

\* with_pending_transactions: the mempool takes every stored transaction
\* again.
Readmits(d) == \A tx \in d.mempool : tx > d.snapshot

\* The memory restart ends with: none when it fails.
Loaded(d) ==
    IF Readmits(d) /\ \A a \in d.pending : Verified(d, a)
    THEN Inserts(FromDisk(d), LiveStored(d)) ELSE {}

\* restart: the node is up once the pool is stored again.
Restart(n) ==
    /\ ~mem[n].up /\ work[n] = <<>>
    /\ \E m \in Loaded(disk[n]) :
          Begin(n, mem[n], <<Step(PersistPending(disk[n], m), m)>>)
    /\ UNCHANGED <<scope, disk, faults>>
================================================================================
