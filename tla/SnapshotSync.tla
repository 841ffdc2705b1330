----------------------------- MODULE SnapshotSync -----------------------------
(***************************************************************************)
(* Snapshot state sync between nodes.  A client asks a serving node for    *)
(* the chunks of the snapshot with a given root, a few at a time, over a   *)
(* stream that may break, with a bounded number of attempts; it verifies   *)
(* what it got against the manifest and against the metadata roots the     *)
(* operator requires; then the node writes the snapshot, the manifest's    *)
(* metadata roots, the required roots and an audit record, one file after  *)
(* the other.  The server reads its files again for every request, so it   *)
(* may have moved on between two requests of one fetch.                    *)
(*                                                                         *)
(* A manifest is the snapshot root with the metadata roots next to it; its *)
(* hash is itself.  A chunk is the manifest it belongs to, its index and   *)
(* the root of the snapshot its bytes are cut from.                        *)
(***************************************************************************)
EXTENDS NodeFiles

CONSTANTS
    ChunkCount,         \* chunks a snapshot is cut into
    MaxChunksPerRequest,\* max_chunks_per_request of the client
    MaxAttempts         \* SnapshotSyncRetryPolicy.max_attempts

ASSUME SyncAssumption ==
    /\ ChunkCount \in Nat \ {0}
    /\ MaxChunksPerRequest \in Nat \ {0}
    /\ MaxAttempts \in Nat \ {0}

VARIABLES
    fetch,   \* fetch[c]: where the fetch of client c stands
    fetches, \* fetches started
    served   \* every manifest a node has ever served

syncVars == <<fetch, fetches, served>>

NoFetch == [phase |-> "none"]

SyncInit ==
    /\ fetch = [n \in Node |-> NoFetch]
    /\ fetches = 0
    /\ served = {}

--------------------------------------------------------------------------------
\* build_snapshot_chunks_with_metadata_roots
ManifestOf(d) == [root |-> d.snapshot, metadata_roots |-> EffectiveRoots(d)]

Chunk(manifest, i) == [manifest |-> manifest, index |-> i, bytes |-> <<manifest.root, i>>]

\* serve_snapshot_chunk_request, for a request whose root the server has: the
\* manifest, and the chunks from start on, at most limit of them.
Response(d, start, limit) ==
    LET manifest == ManifestOf(d)
        count == IF ChunkCount <= start THEN 0
                 ELSE IF ChunkCount - start < limit THEN ChunkCount - start ELSE limit
    IN  [manifest |-> manifest,
         chunks |-> [i \in 1..count |-> Chunk(manifest, start + i - 1)]]

\* reconstruct_snapshot: every chunk is of this manifest, inside its count
\* and there once; none is missing; the bytes are those of the root.
Reconstructs(manifest, chunks) ==
    /\ \A i \in DOMAIN chunks : chunks[i].manifest = manifest /\ chunks[i].index < ChunkCount
    /\ \A i, j \in DOMAIN chunks : chunks[i].index = chunks[j].index => i = j
    /\ \A index \in 0..(ChunkCount - 1) :
          \E i \in DOMAIN chunks : chunks[i].index = index /\ chunks[i].bytes = <<manifest.root, index>>

\* Mutant: a required root the manifest does not have is let through.
RootsMatchIfPresent(manifest, required) ==
    \A k \in DOMAIN required \cap DOMAIN manifest.metadata_roots :
        manifest.metadata_roots[k] = required[k]

\* The second half of reconstruct_snapshot_with_metadata_roots.
RootsMatch(manifest, required) ==
    \A k \in DOMAIN required :
        /\ k \in DOMAIN manifest.metadata_roots
        /\ manifest.metadata_roots[k] = required[k]

--------------------------------------------------------------------------------
\* The caller decides on a root and on the metadata roots it requires: those
\* another node reports for its snapshot now, none, or one nobody has.
StartFetch(c, s, required) ==
    /\ Idle(c) /\ fetch[c].phase = "none" /\ fetches < scope.fetches
    /\ fetch' = [fetch EXCEPT ![c] =
          [phase |-> "connect", server |-> s, root |-> disk[s].snapshot,
           required |-> required, attempt |-> 1, manifest |-> {}, chunks |-> <<>>]]
    /\ fetches' = fetches + 1
    /\ UNCHANGED <<nodeVars, served>>

\* Mutant: the failed attempt is not counted.
NextAttemptUncounted(f) == [f EXCEPT !.phase = "connect"]

\* The attempt failed in the network: another one from nothing while the
\* policy allows it, else the fetch fails.
NextAttempt(f) ==
    IF f.attempt < MaxAttempts
    THEN [f EXCEPT !.phase = "connect", !.attempt = @ + 1]
    ELSE [f EXCEPT !.phase = "failed", !.manifest = {}, !.chunks = <<>>]

\* The operating system lets the connection through or gives up on it.
Connect(c) ==
    /\ fetch[c].phase = "connect"
    /\ fetch' = [fetch EXCEPT ![c] =
          [@ EXCEPT !.phase = "request", !.manifest = {}, !.chunks = <<>>]]
    /\ UNCHANGED <<nodeVars, fetches, served>>

ConnectFails(c) ==
    /\ fetch[c].phase = "connect"
    /\ fetch' = [fetch EXCEPT ![c] = NextAttempt(@)]
    /\ UNCHANGED <<nodeVars, fetches, served>>

\* One request and its whole response.  The first manifest is kept and every
\* later one must equal it; when all chunks are there the set is verified.
Received(f, response) ==
    LET manifest == IF f.manifest = {} THEN response.manifest
                    ELSE CHOOSE m \in f.manifest : TRUE
        chunks == f.chunks \o response.chunks
    IN  CASE manifest # response.manifest -> [f EXCEPT !.phase = "failed"]
          [] Len(chunks) < ChunkCount -> [f EXCEPT !.manifest = {manifest}, !.chunks = chunks]
          [] Reconstructs(manifest, chunks) /\ RootsMatch(manifest, f.required) ->
                [f EXCEPT !.phase = "fetched", !.manifest = {manifest}, !.chunks = chunks]
          [] OTHER -> [f EXCEPT !.phase = "failed"]

Exchange(c) ==
    LET f == fetch[c] IN
    /\ f.phase = "request" /\ Idle(f.server)
    /\ disk[f.server].snapshot = f.root
    /\ LET response == Response(disk[f.server], Len(f.chunks), MaxChunksPerRequest)
       IN  /\ fetch' = [fetch EXCEPT ![c] = Received(f, response)]
           /\ served' = served \cup {response.manifest}
    /\ UNCHANGED <<nodeVars, fetches>>

\* The stream breaks, the server is gone, or it no longer has the root and
\* closes the stream.  No read timeout is set, so this need not happen: a
\* server that stays silent keeps the client in read_exact.
StreamFails(c) ==
    /\ fetch[c].phase = "request"
    /\ fetch' = [fetch EXCEPT ![c] = NextAttempt(@)]
    /\ UNCHANGED <<nodeVars, fetches, served>>

\* import_snapshot_chunk_set: the set is verified again, then four files.
\* The node's memory does not change.
ImportSteps(d, m, manifest, required) ==
    LET d1 == [d EXCEPT !.snapshot = manifest.root]
        d2 == [d1 EXCEPT !.roots = manifest.metadata_roots]
        d3 == [d2 EXCEPT !.required = required]
        record == [root |-> manifest.root, manifest |-> manifest, required |-> required]
        d4 == [d3 EXCEPT !.imports = AppendWithRetention(@, record, m.max_imports)]
    IN  <<Step(d1, m), Step(d2, m), Step(d3, m), Step(d4, m)>>

Import(c) ==
    LET f == fetch[c] IN
    /\ f.phase = "fetched" /\ Idle(c)
    /\ \E manifest \in f.manifest :
          /\ Reconstructs(manifest, f.chunks) /\ RootsMatch(manifest, f.required)
          /\ Begin(c, mem[c], ImportSteps(disk[c], mem[c], manifest, f.required))
    /\ fetch' = [fetch EXCEPT ![c].phase = "imported"]
    /\ UNCHANGED <<scope, disk, faults, fetches, served>>

\* persist_snapshot_sync_client_metrics, which the caller does last.
PersistMetrics(c) ==
    /\ fetch[c].phase = "imported" /\ Idle(c)
    /\ Begin(c, mem[c], <<Step([disk[c] EXCEPT !.metrics = {fetch[c].attempt}], mem[c])>>)
    /\ fetch' = [fetch EXCEPT ![c] = NoFetch]
    /\ UNCHANGED <<scope, disk, faults, fetches, served>>

\* The caller drops a fetch that failed or that it has no use for.
GiveUp(c) ==
    /\ fetch[c].phase \in {"failed", "fetched", "imported"}
    /\ fetch' = [fetch EXCEPT ![c] = NoFetch]
    /\ UNCHANGED <<nodeVars, fetches, served>>

\* What the client's thread does without the server.
Dial(c) == Connect(c) \/ ConnectFails(c)

FetchStep(c) == Dial(c) \/ Exchange(c) \/ StreamFails(c)
================================================================================
