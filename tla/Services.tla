------------------------------- MODULE Services -------------------------------
(***************************************************************************)
(* What stands around a chain of blocks: the cluster that finalizes them,  *)
(* the service that hands them, their notifications and their proofs out,  *)
(* the front end of that service, the transport by which a follower gets   *)
(* them, and the evaluator of restricted scripts.  A behaviour exercises   *)
(* one group of them, the one its scope names.                             *)
(***************************************************************************)
EXTENDS ConsensusCluster, RpcFrontEnd, Transport

CONSTANTS
    Leader, Follower,   \* peer ids of the two nodes that have an inbox
    Queries,            \* the proof queries clients make
    Connections,        \* the connections clients open, as what they send
    Scripts,            \* the restricted scripts, as tokens
    Hellos,             \* peer id -> the PeerHello a dialled peer sends
    MaxReceiveBatch,    \* max_receive_batch of the follower's manager
    DialLimit           \* the limit the follower gives to ready_peers

VARIABLES
    history,    \* the blocks the service has produced, each with the state after it
    published,  \* the topic of every notification published, by sequence
    reader,     \* a subscriber: its id, topics, cursor, what it has seen and what
                \* pages of limit 0 have taken it past
    link,       \* inboxes, garbled payloads and dials still to come (bounds)
    follower,   \* the follower: its node, manager, queue and tick
    answer,     \* the last answer to a proof query, with the length of history then
    evaluation  \* the last restricted script evaluated

restVars == <<history, published, reader, link, follower, answer, evaluation>>
vars == <<scope, clusterVars, frontVars, restVars>>

Init ==
    /\ ClusterInit /\ FrontInit
    /\ door \in {[layers |-> l, served |-> 0, accepts |-> scope.accepts] : l \in scope.layers}
    /\ history = <<>> /\ published = <<>> /\ reader = {} /\ answer = {} /\ evaluation = {}
    /\ link = [inboxes |-> [p \in {Leader, Follower} |-> <<>>],
               garbles |-> scope.garbles, dials |-> scope.dials]
    /\ follower = [node |-> NewNode(GenesisState), manager |-> NoEntries, tick |-> 0,
                   queue |-> [p \in DOMAIN Hellos |-> Untried]]

--------------------------------------------------------------------------------
\* A client submits a transaction.
Offer(tx) ==
    /\ service' = SubmitTransaction(service, tx).service
    /\ UNCHANGED <<clusterVars, door, conn, journal, restVars>>

\* The service is told to produce a block of some height; where there is a
\* follower, its node broadcasts it.
Produce(height) ==
    LET result == ProduceBlock(service, height)
        state == result.service.node.state
        block == result.service.node.blocks[height]
        events == SubSeq(state.events, Len(service.node.state.events) + 1, Len(state.events))
    IN  /\ Len(history) < scope.produce
        /\ result.response = "ok"
        /\ service' = result.service
        /\ history' = Append(history, [block |-> block, state |-> state])
        /\ published' = published \o BlockNotifications(block, events)
        /\ link' = IF ~scope.gossip THEN link
                   ELSE [link EXCEPT !.inboxes =
                            Broadcast(@, Leader, [decodes |-> TRUE, block |-> {block}])]
        /\ UNCHANGED <<clusterVars, door, conn, journal, reader, follower, answer, evaluation>>

\* The caller publishes a certificate.
Certify ==
    /\ Cardinality({i \in DOMAIN published : published[i] = "Finality"}) < scope.certificates
    /\ service' = PublishFinalityCertificate(service)
    /\ published' = Append(published, "Finality")
    /\ UNCHANGED <<clusterVars, door, conn, journal, history, reader, link, follower, answer,
                   evaluation>>

\* A client subscribes and starts at the next_sequence of the status.
Open(topics) ==
    LET result == Subscribe(service, topics)
    IN  /\ reader = {}
        /\ service' = result.service
        /\ reader' = {[id |-> service.next_id, topics |-> result.service.subscriptions[service.next_id],
                       since |-> service.next_sequence, next |-> service.next_sequence,
                       seen |-> <<>>, skipped |-> {}]}
        /\ UNCHANGED <<clusterVars, door, conn, journal, history, published, link, follower,
                       answer, evaluation>>

\* It asks for a page and goes on where the page says.
Poll(limit) ==
    /\ \E r \in reader, page \in UNION {GetSubscriptionEvents(service, q.id, q.next, limit) : q \in reader} :
          reader' = {[r EXCEPT !.next = page.next_sequence,
                               !.seen = @ \o [i \in DOMAIN page.events |-> page.events[i].sequence],
                               !.skipped = IF limit > 0 THEN @
                                           ELSE @ \cup (r.next..(page.next_sequence - 1))]}
    /\ UNCHANGED <<clusterVars, frontVars, history, published, link, follower, answer, evaluation>>

--------------------------------------------------------------------------------
\* A payload that does not decode arrives in the follower's inbox.
Garble ==
    /\ link.garbles > 0
    /\ link' = [link EXCEPT !.garbles = @ - 1,
                            !.inboxes = Send(@, Leader, Follower, [decodes |-> FALSE, block |-> {}])]
    /\ UNCHANGED <<clusterVars, frontVars, history, published, reader, follower, answer, evaluation>>

\* A node imports the blocks of a list that it accepts.
ImportAll(node, blocks) ==
    FoldLeft(LAMBDA n, b : IF Accepts(n.state, b) THEN ValidateAndApply(n, b) ELSE n, node, blocks)

\* receive_bounded, and the follower imports what it got.
Drain ==
    LET drained == DrainBounded(link.inboxes, Follower, MaxReceiveBatch)
        blocks == [i \in DOMAIN drained.envelopes |->
                      CHOOSE b \in drained.envelopes[i].payload.block : TRUE]
    IN  /\ link.inboxes[Follower] # <<>>
        /\ link' = [link EXCEPT !.inboxes = drained.inboxes]
        /\ follower' = [follower EXCEPT !.node = ImportAll(@, blocks)]
        /\ UNCHANGED <<clusterVars, frontVars, history, published, reader, answer, evaluation>>

Ready == ReadyPeers(follower.queue, follower.tick, DialLimit)
LocalHello == [peer_id |-> Follower, network_id |-> "net", min |-> 1, max |-> 2]

\* The follower dials a ready peer.  The stream breaks, or the handshake
\* fails, or it gets a page of the blocks after its own.
Dial ==
    \E i \in DOMAIN Ready :
      LET p == Ready[i]
          page == GetBlocksPage(service.node, follower.node.state.height + 1, scope.page)
      IN  /\ link.dials > 0
          /\ link' = [link EXCEPT !.dials = @ - 1]
          /\ \/ follower' = [follower EXCEPT !.queue = RecordFailure(@, p, follower.tick)]
             \/ /\ Handshake(LocalHello, Hellos[p])
                /\ follower' = [follower EXCEPT !.queue = RecordSuccess(@, p),
                                                !.manager = RegisterPeer(@, LocalHello, Hellos[p]),
                                                !.node = ImportAll(@, page)]
          /\ UNCHANGED <<clusterVars, frontVars, history, published, reader, answer, evaluation>>

\* Time passes.
Tick ==
    /\ follower.tick < scope.ticks
    /\ follower' = [follower EXCEPT !.tick = @ + 1]
    /\ UNCHANGED <<clusterVars, frontVars, history, published, reader, link, answer, evaluation>>

--------------------------------------------------------------------------------
\* A client asks for a proof, once, and keeps it while the chain grows.
Ask(q) ==
    /\ answer' = {[query |-> q, proofs |-> Serve(service, q), at |-> Len(history)]}
    /\ UNCHANGED <<clusterVars, frontVars, history, published, reader, link, follower, evaluation>>

\* A client has a script evaluated; the service keeps nothing of it.
Evaluate(tokens, max_steps) ==
    /\ evaluation' = {[tokens |-> tokens, max_steps |-> max_steps,
                       outcome |-> EvaluateRestrictedScript(tokens, max_steps)]}
    /\ UNCHANGED <<clusterVars, frontVars, history, published, reader, link, follower, answer>>

Next ==
    /\ UNCHANGED scope
    /\ \/ ClusterNext /\ UNCHANGED <<frontVars, restVars>>
       \/ \E tx \in scope.submits : Offer(tx)
       \/ \E height \in scope.heights : Produce(height)
       \/ Certify \/ Garble \/ Drain \/ Dial \/ Tick
       \/ \E topics \in scope.topics : Open(topics)
       \/ \E limit \in scope.limits : Poll(limit)
       \/ scope.asks /\ answer = {} /\ \E q \in Queries : Ask(q)
       \/ door.accepts > 0 /\ \E c \in Connections : Accept(c) /\ UNCHANGED <<clusterVars, restVars>>
       \/ ServeConnection /\ UNCHANGED <<clusterVars, restVars>>
       \/ evaluation = {} /\ \E n \in scope.budgets : \E tokens \in Scripts : Evaluate(tokens, n)

Spec == Init /\ [][Next]_vars

--------------------------------------------------------------------------------
(***************************************************************************)
(* A certificate that finalize_block issues stands for a block its signers *)
(* have on their chains, for as long as they stay, whatever later calls    *)
(* fail half way; and the certificates a validator signs that way, also    *)
(* one that has left, are of blocks of one chain.  (They may be of one     *)
(* height: nothing compares the height of a block with that of the one     *)
(* before it.)  And only validators are slashed, which is what             *)
(* active_validator_count needs to subtract them (finalize_block,          *)
(* apply_validator_set_update).                                            *)
(***************************************************************************)
SameValidator(v, c) == v \in DOMAIN validators /\ validators[v].born = c.born[v]
Extends(hash, earlier) ==
    \E i \in DOMAIN HeadersTo(hash) : <<HeadersTo(hash)[i]>> = earlier
CertificatesAreBacked ==
    /\ slashed \subseteq DOMAIN validators
    /\ \A c \in {x \in certificates : x.from = "finalize"} :
         \A v \in c.signers :
            SameValidator(v, c) => Extends(validators[v].state.finalized, c.block_hash)
    /\ \A c, d \in {x \in certificates : x.from = "finalize"} :
         (\E v \in c.signers \cap d.signers : c.born[v] = d.born[v]) =>
            Extends(c.block_hash, d.block_hash) \/ Extends(d.block_hash, c.block_hash)

(***************************************************************************)
(* A subscriber that follows next_sequence sees every notification of its  *)
(* topics, in order and once, except those the log had already dropped and *)
(* those a page of limit 0 took it past: such a page is empty, and an      *)
(* empty page continues after everything published                         *)
(* (get_subscription_events, publish_subscription_event).                  *)
(***************************************************************************)
SubscriberMissesNothing ==
    \A r \in reader :
        /\ \A i \in 2..Len(r.seen) : r.seen[i - 1] < r.seen[i]
        /\ \A n \in r.since..(r.next - 1) :
              published[n] \in r.topics /\ n >= EarliestRetained(service) /\ n \notin r.skipped
                 => \E i \in DOMAIN r.seen : r.seen[i] = n

(***************************************************************************)
(* A proof served and accepted against the header of any block of the      *)
(* chain is true of the state after that block; against the header of the  *)
(* block it was served after (for a receipt, the last one of its height)   *)
(* it is accepted; and it is served exactly when there is something to     *)
(* prove.  The health report carries the roots of the latest header, and a *)
(* page of events stays right while the chain grows (merkle_proof,         *)
(* MerkleProof::verify, storage_non_inclusion_proof, verify_non_inclusion, *)
(* node_health, get_events_page).                                          *)
(***************************************************************************)
StateAt(i) == IF i = 0 THEN GenesisState ELSE history[i].state
\* The last block of a height among the first n, 0 when there is none.
LastOf(height, n) == Max({0} \cup {i \in 1..n : history[i].block.header.height = height})

Items(q, i) ==
    CASE q.kind = "event" -> StateAt(i).events
      [] q.kind = "outbox" -> StateAt(i).outbox
      [] q.kind = "receipt" -> IF i = 0 THEN <<>> ELSE history[i].block.receipts
MapOf(q, i) ==
    IF q.kind \in {"storage", "no_storage"} THEN StateAt(i).storage ELSE StateAt(i).registry

TrueOf(q, p, i) ==
    CASE q.kind \in {"storage", "registry"} ->
            q.key \in DOMAIN MapOf(q, i) /\ MapOf(q, i)[q.key] = p.value
      [] q.kind \in {"no_storage", "no_registry"} -> q.key \notin DOMAIN MapOf(q, i)
      [] q.kind = "block" -> history[i].block = p
      [] q.kind = "health" -> p = NodeHealth(StateAt(i))
      [] q.kind = "events" ->
            \A n \in DOMAIN p.events : q.offset + n <= Len(StateAt(i).events)
                                        => StateAt(i).events[q.offset + n] = p.events[n]
      [] OTHER -> \E n \in DOMAIN Items(q, i) : Items(q, i)[n] = p.value

Provable(q, i) ==
    CASE q.kind \in {"storage", "registry"} -> q.key \in DOMAIN MapOf(q, i)
      [] q.kind \in {"no_storage", "no_registry"} -> q.key \notin DOMAIN MapOf(q, i)
      [] q.kind = "block" -> i > 0
      [] q.kind \in {"health", "events"} -> TRUE
      [] OTHER -> q.index < Len(Items(q, i))

ProofsAreFaithful ==
    \A a \in answer :
        LET q == a.query
            of == IF q.kind \in {"receipt", "block"} THEN LastOf(q.height, a.at) ELSE a.at
        IN  /\ a.proofs # {} <=> Provable(q, of)
            /\ \A p \in a.proofs :
                  /\ of > 0 => AnswerVerifies(q, p, history[of].block.header)
                  /\ \A i \in DOMAIN history :
                        AnswerVerifies(q, p, history[i].block.header) => TrueOf(q, p, i)

(***************************************************************************)
(* What clients and followers may rely on when calls, answers and blocks   *)
(* get lost and are sent again.                                            *)
(* A nonce takes effect once: all events with it are of one transaction,   *)
(* each is there once, however often it, or a rival, is submitted or put   *)
(* into a block.  A block is imported once.  A follower, which gets blocks *)
(* twice (by broadcast and in pages), late or not at all, is always in a   *)
(* state the leader has been in.                                           *)
(* Where the front end is the only way to the service, the service is what *)
(* the requests answered with success, in their order, made of it: one     *)
(* that is refused at any layer or fails leaves no trace, and the receipt  *)
(* of an imported transaction is found from then on.  A request that       *)
(* reached a service behind the token carried it, and behind the limit     *)
(* there were never more than it allows.                                   *)
(* Only a ProduceBlock sent again is not harmless: it makes another block, *)
(* which takes the place of the first among the blocks by height           *)
(* (apply_transaction, Mempool::submit, validate_and_apply, import_block,  *)
(* AuthenticatedJsonRpcHandler, RateLimitedJsonRpcHandler, get_receipt).   *)
(***************************************************************************)
Layers == {door.layers[i] : i \in DOMAIN door.layers}
RetriesTakeEffectOnce ==
    LET done == SelectSeq(journal, LAMBDA e : e.response = "ok")
        events == service.node.state.events
    IN  /\ \A i, j \in DOMAIN events :
              /\ events[i].nonce = events[j].nonce => events[i].tx = events[j].tx
              /\ events[i] = events[j] => i = j
        /\ scope.gossip => \E i \in 0..Len(history) : follower.node.state = StateAt(i)
        /\ scope.accepts > 0 =>
             /\ service = FoldLeft(LAMBDA svc, e : HandleRequest(svc, e.request).service,
                                   NewService, done)
             /\ \A i, j \in DOMAIN done :
                   done[i].request.call = "ImportBlock" /\ done[j].request = done[i].request => i = j
             /\ \A i, j \in DOMAIN journal :
                   /\ i < j /\ journal[i].response = "ok"
                   /\ journal[i].request.call = "ImportBlock" /\ journal[j].request.call = "GetReceipt"
                   /\ \E n \in DOMAIN journal[i].request.block.transactions :
                         journal[i].request.block.transactions[n].name = journal[j].request.name
                   => journal[j].response = "ok"
             /\ "auth" \in Layers => \A i \in DOMAIN journal : journal[i].token = BearerToken
             /\ "rate" \in Layers => Len(journal) <= MaxRequests

(***************************************************************************)
(* A script that evaluates has a canonical source that parses to the same  *)
(* instructions and evaluates to the same report; a larger budget changes  *)
(* nothing and one smaller than its steps fails; and the trace is enough   *)
(* to judge every write it makes (canonical_script_source, execute,        *)
(* verify_kernel_trace).                                                   *)
(***************************************************************************)
EvaluationIsFaithful ==
    \A e \in evaluation :
        LET out == e.outcome
            script == CHOOSE s \in ParseRestrictedScript(e.tokens) : TRUE
            writes == {script[i].operands[1] : i \in {j \in DOMAIN script : script[j].op = "state-set"}}
        IN  out.ok =>
            /\ ParseRestrictedScript(out.canonical) = {script}
            /\ \A n \in e.max_steps..MaxSteps : EvaluateRestrictedScript(out.canonical, n) = out
            /\ \A n \in 0..(out.report.steps_used - 1) : ~EvaluateRestrictedScript(e.tokens, n).ok
            /\ \A k \in writes :
                  VerifyKernelTrace(k.fields[1], writes \ {k}, out.report.trace) # {}
================================================================================
