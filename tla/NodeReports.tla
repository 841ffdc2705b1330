------------------------------ MODULE NodeReports ------------------------------
(***************************************************************************)
(* What a node takes in from its peers and its clients besides blocks and  *)
(* transactions, and what it reports to its operator: the status of its    *)
(* metadata roots, its metrics and its alerts.  A report is read from      *)
(* memory and from the files as they are.  Mempool and disk sizes are not  *)
(* state here, so the two alerts about them are left out.                  *)
(***************************************************************************)
EXTENDS ValidatorSetMetadata

CONSTANTS
    MinPeerCount,       \* OperatorAlertPolicy.min_peer_count
    MaxFinalityLag,     \* max_finality_lag
    MaxFailureRatio,    \* max_latest_block_failure_ratio_per_mille
    MaxRpcErrors        \* max_rpc_error_count

\* Validators are numbered in the order of their ids, which is the order of
\* the maps keyed by them; an update adds finitely many.
IsSigned(a) ==
    /\ a.signer \in Nat
    /\ a.message.kind = "metadata_update" => IsFiniteSet(DOMAIN a.message.update.add)

ASSUME ReportsAssumption ==
    /\ MaxFinalityLag \in Nat
    /\ \A s \in Scope :
          /\ \A e \in s.envelopes : e.message.kind = "signed" => IsSigned(e.message.signed)
          /\ \A r \in s.requests :
                r.call = "ProposeValidatorSetMetadataUpdate" => IsSigned(r.authorization)
          /\ \A messages \in s.batches :
                /\ IsFiniteSet(messages)
                /\ \A a \in messages : IsSigned(a) /\ a.message.kind = "metadata_update"
          /\ \A v \in s.validator_sets : IsFiniteSet(DOMAIN v.keyring)
          /\ s.quorums \subseteq Nat
          /\ \A k \in s.trusted : k = <<k[1], k[2]>>

--------------------------------------------------------------------------------
(***************************************************************************)
(* snapshot_metadata_root_status.  A root is a set, empty when there is    *)
(* none.  The local roots are those of the node's own files.               *)
(***************************************************************************)
RootNames ==
    {"validator_set_audit", "import_audit_config", "import_audit", "required_roots",
     "client_metrics"}

PersistedRoot(d, name) == {d.roots[k] : k \in {name} \cap DOMAIN d.roots}

LocalRoot(d, name) ==
    CASE name = "validator_set_audit" -> {d.audit}
      [] name = "import_audit_config" -> IF d.import_config = {} THEN {} ELSE {d.import_config}
      [] name = "import_audit" -> IF d.imports = <<>> THEN {} ELSE {d.imports}
      [] name = "required_roots" -> IF d.required = NoRoots THEN {} ELSE {d.required}
      [] name = "client_metrics" -> IF d.metrics = {} THEN {} ELSE {d.metrics}

RootStatus(d, name) ==
    LET local == LocalRoot(d, name)
        persisted == PersistedRoot(d, name)
        first == IF name = "validator_set_audit" THEN persisted ELSE local
        second == IF name = "validator_set_audit" THEN local ELSE persisted
    IN  [root |-> IF first # {} THEN first ELSE second, local |-> local, persisted |-> persisted,
         using_imported |-> /\ persisted # {}
                            /\ IF name = "validator_set_audit" THEN persisted # local
                               ELSE local = {},
         persisted_matches_local |-> persisted # {} /\ persisted = local]

SnapshotMetadataRootStatus(d) == [name \in RootNames |-> RootStatus(d, name)]

\* snapshot_root_mismatch.
SnapshotRootMismatch(d) ==
    \E name \in RootNames :
        LET status == SnapshotMetadataRootStatus(d)[name]
        IN  status.persisted # {} /\ ~status.persisted_matches_local

\* node_snapshot_roots: what an operator copies to require it elsewhere.
NodeSnapshotRoots(d, m) ==
    [global_state_root |-> m.height,
     validator_set_metadata_audit_root |-> EffectiveRoots(d)["validator_set_audit"],
     snapshot_import_audit_root |-> d.imports,
     snapshot_import_audit_max_records |-> m.max_imports,
     snapshot_import_audit_config_root |-> d.import_config,
     required_snapshot_metadata_roots |-> d.required,
     snapshot_sync_client_metrics |-> d.metrics]

\* validator_set_metadata_update_status.
UpdateStatus(m, id) ==
    [pending_authorizations |-> Cardinality(ForUpdate(m.pending, id)),
     required_quorum |-> Quorum(m.keyring), applied |-> id \in m.applied]

--------------------------------------------------------------------------------
\* Reads of FileStorage: what is in the file, or nothing when there is none.
MaybeLoadBlock(d, height) == {d.blocks[h] : h \in {height} \cap DOMAIN d.blocks}
MaybeLoadFinalityCertificate(d, height) == {height} \cap d.certificates
MaybeLoadSlashingRecord(d, validator_id) == {s \in d.slashings : s.validator_id = validator_id}

\* highest_finalized_height: a set with it; certificates above the node's
\* height are not looked at.
HighestFinalizedHeight(d, m) ==
    LET found == {h \in 1..m.height : MaybeLoadFinalityCertificate(d, h) # {}}
    IN  {h \in found : \A k \in found : k <= h}

LatestBlockFailureCounts(d, m) ==
    LET found == MaybeLoadBlock(d, m.height)
    IN  IF found = {} THEN [receipts |-> 0, failures |-> 0] ELSE CHOOSE b \in found : TRUE

OperatorMetrics(d, m) ==
    [peer_count |-> Cardinality(m.peers), consensus_height |-> m.height,
     highest_finalized_height |-> HighestFinalizedHeight(d, m),
     finality_lag |-> {m.height - h : h \in HighestFinalizedHeight(d, m)},
     rpc_error_count |-> m.errors]

\* operator_alerts_for_state: the codes of the alerts.
AlertsForState(metrics, root_mismatch, slashings, latest) ==
    {a \in {"peer_isolation", "stalled_consensus", "root_mismatch", "excessive_reverts",
            "slashing_evidence", "rpc_overload"} :
       CASE a = "peer_isolation" -> metrics.peer_count < MinPeerCount
         [] a = "stalled_consensus" ->
               /\ metrics.consensus_height > 0
               /\ \A lag \in metrics.finality_lag : lag > MaxFinalityLag
         [] a = "root_mismatch" -> root_mismatch
         [] a = "excessive_reverts" ->
               /\ latest.receipts > 0
               /\ (latest.failures * 1000) \div latest.receipts > MaxFailureRatio
         [] a = "slashing_evidence" -> slashings > 0
         [] a = "rpc_overload" -> metrics.rpc_error_count > MaxRpcErrors}

OperatorAlerts(d, m) ==
    AlertsForState(OperatorMetrics(d, m), SnapshotRootMismatch(d),
                   Cardinality(d.slashings), LatestBlockFailureCounts(d, m))

--------------------------------------------------------------------------------
\* persist_equivocation_evidence: one record per validator, the last one.
EvidenceSteps(d, m, evidence) ==
    <<Step([d EXCEPT !.slashings =
                {r \in @ : r.validator_id # evidence.validator_id} \cup {evidence}], m)>>

(***************************************************************************)
(* ingest_network_envelope.  The sender counts as a peer whatever becomes  *)
(* of the message.  A signed message is verified, and what is inside it is *)
(* taken in as if it had come unsigned, except an update, which is only    *)
(* taken from a signed one.  Votes, certificates and control messages      *)
(* change nothing.                                                         *)
(***************************************************************************)
Observed(n, m, from) == IF from = n THEN m ELSE [m EXCEPT !.peers = @ \cup {from}]

IngestUnsigned(n, m, message) ==
    CASE message.kind = "evidence" -> Begin(n, m, EvidenceSteps(disk[n], m, message.evidence))
      [] message.kind = "block" ->
            LET next == NextBlock(m)
            IN  IF message.height = m.height + 1
                THEN Begin(n, next, BlockSteps(disk[n], next, message.block))
                ELSE Begin(n, m, <<>>)
      [] message.kind = "transaction" -> Submit(n, m, message.tx)
      [] OTHER -> Begin(n, m, <<>>)

IngestNetworkEnvelope(n, e) ==
    /\ Idle(n)
    /\ LET m == Observed(n, mem[n], e.from)
           signed == e.message.signed
           result == Authorize(disk[n], m, signed)
       IN  CASE e.message.kind # "signed" -> IngestUnsigned(n, m, e.message)
             [] e.message.kind = "signed" /\ ~VerifiedMessage(m, signed) ->
                   Begin(n, m, <<>>)
             [] OTHER -> IF signed.message.kind = "metadata_update"
                         THEN Begin(n, result.mem, result.steps)
                         ELSE IngestUnsigned(n, m, signed.message)
    /\ UNCHANGED <<scope, disk, faults>>

\* persist_finality_certificate; the notification is in Services.
PersistFinalityCertificate(n, height) ==
    /\ Idle(n) /\ height \notin disk[n].certificates
    /\ Begin(n, mem[n], <<Step([disk[n] EXCEPT !.certificates = @ \cup {height}], mem[n])>>)
    /\ UNCHANGED <<scope, disk, faults>>

(***************************************************************************)
(* handle_rpc_request, for the requests a node answers itself.  A read     *)
(* fails when there is no such file; the reports are always answered.  An  *)
(* error is counted once the answer is known.  Transactions and blocks     *)
(* that come in requests go the way of those that come in envelopes.       *)
(***************************************************************************)
ReadFound(d, r) ==
    CASE r.call = "GetBlock" -> MaybeLoadBlock(d, r.height) # {}
      [] r.call = "GetReceiptProof" ->
            \E b \in MaybeLoadBlock(d, r.height) : r.index < b.receipts
      [] r.call = "GetFinalityCertificate" -> MaybeLoadFinalityCertificate(d, r.height) # {}
      [] r.call = "GetSlashingRecord" -> MaybeLoadSlashingRecord(d, r.validator_id) # {}
      [] OTHER -> TRUE

\* The answer comes with the last file.
AnsweredAtEnd(steps, error) ==
    [i \in 1..Len(steps) |->
        IF i < Len(steps) THEN steps[i] ELSE Step(steps[i].disk, Answered(steps[i].mem, error))]

Propose(n, a) ==
    LET result == Authorize(disk[n], [mem[n] EXCEPT !.calling = TRUE], a)
        steps == result.steps
    IN  IF steps = <<>> THEN Begin(n, Answered(mem[n], TRUE), <<>>)
        ELSE Begin(n, result.mem, AnsweredAtEnd(steps, result.error))

HandleRpcRequest(n, r) ==
    /\ Idle(n) /\ mem[n].errors < scope.errors
    /\ IF r.call = "ProposeValidatorSetMetadataUpdate" THEN Propose(n, r.authorization)
       ELSE Begin(n, Answered(mem[n], ~ReadFound(disk[n], r)), <<>>)
    /\ UNCHANGED <<scope, disk, faults>>
================================================================================
