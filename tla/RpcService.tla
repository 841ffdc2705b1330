------------------------------ MODULE RpcService ------------------------------
(***************************************************************************)
(* RpcService of detta-rpc: a ValidatorNode behind a request interface,    *)
(* with a bounded log of notifications that subscribers page through, and  *)
(* the proofs it serves.  A service is a value, and a request is an        *)
(* operator from a service to the service and the response.                *)
(***************************************************************************)
EXTENDS Blocks, FiniteSetsExt, RestrictedScripts

CONSTANTS
    MaxSubscriptionEvents,      \* DEFAULT_MAX_SUBSCRIPTION_EVENTS
    MaxSubscriptionPage,        \* DEFAULT_MAX_SUBSCRIPTION_EVENT_PAGE_SIZE
    MaxBlockPage,               \* DEFAULT_MAX_BLOCK_PAGE_SIZE
    MaxEventPage                \* DEFAULT_MAX_EVENT_PAGE_SIZE

Topics == {"Blocks", "Receipts", "Events", "Finality"}

NewService ==
    [node |-> NewNode(GenesisState), subscriptions |-> NoEntries, events |-> <<>>,
     next_id |-> 1, next_sequence |-> 1]

Least(a, b) == IF a < b THEN a ELSE b

EarliestRetained(svc) == IF svc.events = <<>> THEN svc.next_sequence ELSE svc.events[1].sequence

--------------------------------------------------------------------------------
\* publish_subscription_event: the oldest events make room.
Publish(svc, topic) ==
    LET all == Append(svc.events, [sequence |-> svc.next_sequence, topic |-> topic])
        excess == Len(all) - Least(Len(all), MaxSubscriptionEvents)
    IN  [svc EXCEPT !.events = SubSeq(all, excess + 1, Len(all)), !.next_sequence = @ + 1]

\* publish_block_notifications: the block, its receipts, then its events.
BlockNotifications(b, events) ==
    <<"Blocks">> \o [i \in 1..Len(b.receipts) |-> "Receipts"] \o [i \in 1..Len(events) |-> "Events"]

Apply(svc, b) ==
    LET node == ValidateAndApply(svc.node, b)
        new == SubSeq(node.state.events, Len(svc.node.state.events) + 1, Len(node.state.events))
    IN  FoldLeft(Publish, [svc EXCEPT !.node = node], BlockNotifications(b, new))

\* import_block.
ImportBlock(svc, b) ==
    IF Accepts(svc.node.state, b) THEN [service |-> Apply(svc, b), response |-> "ok"]
    ELSE [service |-> svc, response |-> "block.mismatch"]

\* submit_transaction.
SubmitTransaction(svc, tx) ==
    [service |-> [svc EXCEPT !.node = Submit(@, tx)], response |-> SubmitError(svc.node, tx)]

\* into_authorized_transaction, then the same.
SubmitSignedTransaction(svc, tx, signature) ==
    CASE signature = "wrong" -> [service |-> svc, response |-> "mempool.invalid_signature"]
      [] signature = "another account's" ->
            [service |-> svc, response |-> "mempool.unauthorized_signer"]
      [] OTHER -> SubmitTransaction(svc, tx)

\* produce_block: the mempool is drained of what fits into a block, of any
\* height the caller says, and the node applies the block it has built.
ProduceBlock(svc, height) ==
    LET txs == Selected(svc.node.pending)
        drained == [svc EXCEPT !.node.pending = @ \ ToSet(txs)]
    IN  ImportBlock(drained, BuildBlock(svc.node.state, height, txs, 0))

\* publish_finality_certificate.
PublishFinalityCertificate(svc) == Publish(svc, "Finality")

\* subscribe: no topic means every topic.
Subscribe(svc, topics) ==
    [service |-> [svc EXCEPT !.subscriptions =
                                (svc.next_id :> (IF topics = {} THEN Topics ELSE topics)) @@ @,
                             !.next_id = @ + 1],
     response |-> "ok"]

\* Mutant: the cursor moves on by the number of events in the page.
NextSequenceByCount(svc, from, page) ==
    IF page = <<>> THEN svc.next_sequence ELSE from + Len(page)

\* Where the next page starts: after the last event of this one, or after
\* everything published when this one is empty.
NextSequence(svc, from, page) ==
    IF page = <<>> THEN svc.next_sequence ELSE Last(page).sequence + 1

\* get_subscription_events: a set with the page, empty for an unknown id.
GetSubscriptionEvents(svc, id, from, limit) ==
    LET start == IF from > EarliestRetained(svc) THEN from ELSE EarliestRetained(svc)
        wanted == SelectSeq(svc.events, LAMBDA e : e.sequence >= start
                                                    /\ e.topic \in svc.subscriptions[id])
        page == SubSeq(wanted, 1, Least(Len(wanted), Least(limit, MaxSubscriptionPage)))
    IN  IF id \notin DOMAIN svc.subscriptions THEN {}
        ELSE {[events |-> page, from_sequence |-> start,
               next_sequence |-> NextSequence(svc, start, page)]}

\* get_blocks_page.
GetBlocksPage(node, start, limit) == BlocksFrom(node, start, Least(limit, MaxBlockPage))

--------------------------------------------------------------------------------
(***************************************************************************)
(* The reads.  Each is a set: what is found, or nothing.                   *)
(***************************************************************************)
GetTransaction(node, tx) == {node.transactions[t] : t \in {tx} \cap DOMAIN node.transactions}
GetReceipt(node, tx) == {node.receipts[t] : t \in {tx} \cap DOMAIN node.receipts}
GetBlock(node, height) == {node.blocks[h] : h \in {height} \cap DOMAIN node.blocks}

\* node_health, its height and roots.
NodeHealth(s) ==
    [height |-> s.height, storage_root |-> MerkleRoot(Entries(s.storage)),
     registry_root |-> MerkleRoot(Entries(s.registry)),
     event_root |-> MerkleRoot(s.events), outbox_root |-> MerkleRoot(s.outbox)]

\* get_events_page.
GetEventsPage(s, offset, limit) ==
    [events |-> SubSeq(s.events, offset + 1,
                       Least(Len(s.events), offset + Least(limit, MaxEventPage))),
     total_events |-> Len(s.events)]

--------------------------------------------------------------------------------
(***************************************************************************)
(* The proofs and reports a service serves of the state it has.            *)
(***************************************************************************)
StorageProof(s, key) == KeyProof(s.storage, key)
StorageNonInclusionProof(s, key) == NonInclusionProof(s.storage, key)
RegistryProof(s, key) == KeyProof(s.registry, key)
RegistryNonInclusionProof(s, key) == NonInclusionProof(s.registry, key)

ItemProof(items, index) ==
    {[value |-> items[index + 1], proof |-> p] : p \in MerkleProof(items, index)}
EventProof(s, index) == ItemProof(s.events, index)
OutboxMessageProof(s, index) == ItemProof(s.outbox, index)
ReceiptProof(b, index) == ItemProof(b.receipts, index)

Serve(svc, q) ==
    LET s == svc.node.state
    IN  CASE q.kind = "storage" -> StorageProof(s, q.key)
          [] q.kind = "no_storage" -> StorageNonInclusionProof(s, q.key)
          [] q.kind = "registry" -> RegistryProof(s, q.key)
          [] q.kind = "no_registry" -> RegistryNonInclusionProof(s, q.key)
          [] q.kind = "event" -> EventProof(s, q.index)
          [] q.kind = "outbox" -> OutboxMessageProof(s, q.index)
          [] q.kind = "receipt" ->
                UNION {ReceiptProof(b, q.index) : b \in GetBlock(svc.node, q.height)}
          [] q.kind = "block" -> GetBlock(svc.node, q.height)
          [] q.kind = "health" -> {NodeHealth(s)}
          [] q.kind = "events" -> {GetEventsPage(s, q.offset, q.limit)}

\* What a client checks of an answer against a block header it trusts: that
\* the proof verifies and is of the root in the header.
AnswerVerifies(q, p, header) ==
    CASE q.kind = "storage" -> KeyProofVerifies(p) /\ p.proof.root = header.storage_root
      [] q.kind = "no_storage" -> NonInclusionVerifies(p) /\ p.root = header.storage_root
      [] q.kind = "registry" -> KeyProofVerifies(p) /\ p.proof.root = header.registry_root
      [] q.kind = "no_registry" -> NonInclusionVerifies(p) /\ p.root = header.registry_root
      [] q.kind = "event" -> Verifies(p.proof, p.value) /\ p.proof.root = header.event_root
      [] q.kind = "outbox" -> Verifies(p.proof, p.value) /\ p.proof.root = header.outbox_root
      [] q.kind = "receipt" -> Verifies(p.proof, p.value) /\ p.proof.root = header.receipt_root
      [] q.kind = "block" -> p.header = header
      [] q.kind = "health" -> \A root \in DOMAIN p : p[root] = header[root]
      [] q.kind = "events" -> TRUE

--------------------------------------------------------------------------------
\* The requests only a persistent node can answer.
NodeMethods ==
    {"GetOperatorMetrics", "GetOperatorAlerts", "ProposeValidatorSetMetadataUpdate",
     "GetFinalityCertificate", "GetSlashingRecord", "GetValidatorSetMetadataUpdateStatus",
     "GetValidatorSetMetadataAuditRecords", "GetSnapshotImportAuditRecords",
     "GetSnapshotImportAuditRoot", "GetSnapshotImportAuditConfigRoot",
     "GetSnapshotImportAuditConfig", "GetPersistentNodeSnapshotRoots",
     "GetSnapshotMetadataRootStatus", "GetSnapshotSyncClientMetrics",
     "GetRequiredSnapshotMetadataRoots"}

Found(svc, found, error) ==
    [service |-> svc, response |-> IF found = {} THEN error ELSE "ok"]

\* Reads that always have an answer, and reads of contracts, aspect modules and
\* upgrades with the answers they may have: those are of state that Blocks
\* abstracts, so the request carries the one it gets.
Reports ==
    {"GetBlocksPage", "GetNodeHealth", "GetMempoolStatus", "GetStateRoot", "GetSnapshot",
     "GetBalance", "GetTotalSupply", "GetEvents", "GetAspectModules", "GetScheduledUpgrades",
     "GetScheduledPolicyUpdates", "GetRestrictedEvaluatorFixtureInventory"}
Lookups ==
    [GetContract |-> {"ok", "rpc.contract_not_found"},
     GetAspectModule |-> {"ok", "rpc.aspect_module_not_found"},
     GetAspectModuleProof |-> {"ok", "rpc.proof_not_found"},
     GetAspectModuleArtifacts |-> {"ok", "rpc.aspect_module_not_found"},
     GetUpgradeRehearsalReport |-> {"ok", "execution.upgrade_not_found",
                                    "execution.upgrade_already_executed",
                                    "execution.contract_not_found"}]

\* handle_request.
HandleRequest(svc, r) ==
    CASE r.call = "SubmitTransaction" -> SubmitTransaction(svc, r.tx)
      [] r.call = "SubmitSignedTransaction" -> SubmitSignedTransaction(svc, r.tx, r.signature)
      [] r.call = "ProduceBlock" -> ProduceBlock(svc, r.height)
      [] r.call = "ImportBlock" -> ImportBlock(svc, r.block)
      [] r.call = "Subscribe" -> Subscribe(svc, r.topics)
      [] r.call = "GetSubscriptionEvents" ->
            Found(svc, GetSubscriptionEvents(svc, r.id, r.from, r.limit),
                  "rpc.subscription_not_found")
      [] r.call = "GetTransaction" ->
            Found(svc, GetTransaction(svc.node, r.name), "rpc.transaction_not_found")
      [] r.call = "GetReceipt" ->
            Found(svc, GetReceipt(svc.node, r.name), "rpc.receipt_not_found")
      [] r.call = "Get" ->
            Found(svc, Serve(svc, r.query),
                  IF r.query.kind \in {"receipt", "block"}
                     /\ GetBlock(svc.node, r.query.height) = {}
                  THEN "rpc.block_not_found" ELSE "rpc.proof_not_found")
      [] r.call = "EvaluateRestrictedScript" ->
            LET outcome == EvaluateRestrictedScript(r.tokens, r.max_steps)
            IN  [service |-> svc, response |-> IF outcome.ok THEN "ok" ELSE outcome.code]
      [] r.call \in Reports -> [service |-> svc, response |-> "ok"]
      [] r.call \in DOMAIN Lookups -> [service |-> svc, response |-> r.answer]
      [] r.call \in NodeMethods ->
            [service |-> svc, response |-> "rpc.unsupported_node_method"]
================================================================================
