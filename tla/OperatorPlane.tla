----------------------------- MODULE OperatorPlane -----------------------------
(***************************************************************************)
(* Nodes under an operator's care: keyring updates authorised by the       *)
(* validators, limits the operator changes, blocks, certificates and       *)
(* evidence, requests of clients, and snapshots that nodes fetch from each *)
(* other, with crashes and failed writes between any two files.            *)
(* ValidatorSetMetadata, NodeReports and SnapshotSync act on the same      *)
(* files of the same nodes.                                                *)
(***************************************************************************)
EXTENDS NodeReports, SnapshotSync

CONSTANT UnknownRoots     \* required roots no node has

vars == <<nodeVars, syncVars>>

Init == NodeInit /\ SyncInit

\* The roots a client may require of server s: what s reports now for its
\* validator-set audit, nothing, or something s does not have.
RequiredOf(s) ==
    {NoRoots, UnknownRoots,
     "validator_set_audit" :> NodeSnapshotRoots(disk[s], mem[s]).validator_set_metadata_audit_root}

\* A crash of a client ends its fetch.
CrashAll(n) ==
    /\ Crash(n)
    /\ fetch' = [fetch EXCEPT ![n] = NoFetch]
    /\ UNCHANGED <<fetches, served>>

Operate(n) ==
    /\ \/ \E l \in scope.pool_limits : SetAuthorizationLimits(n, l[1], l[2])
       \/ \E l \in scope.audit_limits : SetAuditLimit(n, l)
       \/ \E l \in scope.import_limits : SetImportAuditLimit(n, l)
    /\ UNCHANGED syncVars

\* What the program around a node does to its validator set by hand.
Administer(n) ==
    /\ \/ \E messages \in scope.batches : \E quorum \in scope.quorums \cup {Quorum(mem[n].keyring)} :
             ApplyMessages(n, messages, quorum)
       \/ \E v \in scope.validator_sets : PersistValidatorSetMetadata(n, v.network, v.keyring)
       \/ \E k \in scope.trusted : TrustValidatorKey(n, k[1], k[2])
       \/ \E network \in scope.networks : SetNetworkId(n, network)
    /\ UNCHANGED syncVars

UpdateValidatorSet(n) ==
    /\ \/ \E e \in scope.envelopes : IngestNetworkEnvelope(n, e)
       \/ \E r \in scope.requests : HandleRpcRequest(n, r)
       \/ \E h \in scope.certificates : PersistFinalityCertificate(n, h)
       \/ \E id \in UpdateIds(mem[n].pending) : ApplyPending(n, id)
       \/ Prune(n)
    /\ UNCHANGED syncVars

Run(n) ==
    /\ \/ Commit(n)
       \/ WriteFails(n)
       \/ Restart(n)
       \/ n \in scope.producing /\ \E block \in scope.blocks : CommitBlock(n, block)
    /\ UNCHANGED syncVars

Sync(c) ==
    \/ \E s \in Node \ {c} : \E required \in RequiredOf(s) : StartFetch(c, s, required)
    \/ FetchStep(c)
    \/ Import(c)
    \/ PersistMetrics(c)
    \/ GiveUp(c)

Next ==
    \/ \E n \in scope.collecting : Operate(n) \/ Administer(n) \/ UpdateValidatorSet(n)
    \/ \E n \in Node : Run(n) \/ CrashAll(n)
    \/ \E c \in scope.fetching : Sync(c)

(***************************************************************************)
(* The loop of fetch_verified_snapshot_chunk_set_over_tcp_with_retries     *)
(* runs in the caller's thread, and a connection attempt ends one way or   *)
(* the other.  Nothing else is fair: a server may never answer a request   *)
(* and never close the stream, a node may stay down, and an operation may  *)
(* wait for ever.                                                          *)
(***************************************************************************)
Fairness == \A c \in Node : WF_vars(Dial(c))

Spec == Init /\ [][Next]_vars /\ Fairness

--------------------------------------------------------------------------------
\* What may be done by hand in some behaviour.
TrustedKeys == UNION {s.trusted : s \in Scope}
NetworkIds == UNION {s.networks : s \in Scope}
ValidatorSets == UNION {s.validator_sets : s \in Scope}
Batches == UNION {s.batches : s \in Scope}
Quorums == UNION {s.quorums : s \in Scope}

\* Metadata d is what an update makes of the keyring in memory m: an update
\* not applied before, which at least quorum validators of that keyring, and
\* one of them in any case, signed in these messages with the keys they have
\* in it.
FromUpdate(m, messages, quorum, d) ==
    \E u \in {a.message.update : a \in messages} :
        LET signers == {a.signer : a \in
                {b \in messages : b.message.update = u /\ Verified(m, b)}}
        IN  /\ u.update_id \notin m.applied
            /\ d.applied = m.applied \cup {u.update_id}
            /\ d.keyring = NextKeyring(m.keyring, u)
            /\ d.network = m.network
            /\ u.remove \subseteq DOMAIN m.keyring
            /\ signers # {} /\ Cardinality(signers) >= quorum

\* Memory m has the stored network id and keyring, but for what was set and
\* trusted by hand.
Follows(m, d) ==
    /\ m.applied = d.applied
    /\ m.network = d.network \/ m.network \in NetworkIds
    /\ DOMAIN d.keyring \subseteq DOMAIN m.keyring
    /\ \A v \in DOMAIN m.keyring :
          \/ v \in DOMAIN d.keyring /\ m.keyring[v] = d.keyring[v]
          \/ <<v, m.keyring[v]>> \in TrustedKeys

(***************************************************************************)
(* The validator set a node has stored changes only to what one update     *)
(* makes of the keyring in memory, on the word of a quorum of the          *)
(* validators in that keyring, whose authorizations the pool holds; or     *)
(* the program around the node did it by hand, with messages and a quorum  *)
(* of its own or without any.  Memory follows the file, never ahead of it  *)
(* but for the network id and the keys that were put there by hand         *)
(* (trust_validator_key, set_network_id), and nothing forgets an applied   *)
(* update but persist_validator_set_metadata.  The pool may hold           *)
(* authorizations collected under an earlier keyring, from before a crash  *)
(* or after a refused attempt.                                             *)
(***************************************************************************)
UpdatesAreAuthorised ==
    [][\A n \in Node :
        /\ \/ disk'[n].network = disk[n].network /\ disk'[n].keyring = disk[n].keyring
              /\ disk'[n].applied = disk[n].applied
           \/ FromUpdate(mem[n], mem[n].pending, Quorum(mem[n].keyring), disk'[n])
           \/ \E messages \in Batches : \E quorum \in Quorums \cup {Quorum(mem[n].keyring)} :
                 FromUpdate(mem[n], messages, quorum, disk'[n])
           \/ \E v \in ValidatorSets : /\ disk'[n].network = v.network
                                       /\ disk'[n].keyring = v.keyring
                                       /\ disk'[n].applied = {}
        /\ mem'[n].up => Follows(mem'[n], disk'[n])]_vars

(***************************************************************************)
(* A node that is down can be restarted, whatever it was doing when it     *)
(* stopped, unless one of its two stored pools stands in the way: the      *)
(* mempool, with a transaction that the stored snapshot has left behind (a *)
(* block or an imported snapshot was written and the mempool after it was  *)
(* not), or the authorizations, with one that the stored keyring does not  *)
(* verify, or more live updates than the default limits allow (the         *)
(* operator's limits are not stored).  Applied and expired updates in the  *)
(* file never stand in the way.                                            *)
(***************************************************************************)
RestartBlockedOnlyByPools ==
    \A n \in Node :
        ~mem[n].up /\ Loaded(disk[n]) = {} =>
            \/ \E tx \in disk[n].mempool : ~(tx > disk[n].snapshot)
            \/ \E a \in disk[n].pending : ~Verified(disk[n], a)
            \/ Cardinality(UpdateIds(LiveStored(disk[n]))) > DefaultMaxUpdates
            \/ \E a \in LiveStored(disk[n]) :
                  Cardinality({b \in LiveStored(disk[n]) : b.signer = a.signer})
                      > DefaultMaxPerValidator

(***************************************************************************)
(* An import is recorded only when it is complete, and complete means what *)
(* it says: the snapshot, the metadata roots and the required roots on     *)
(* disk are those of one manifest that another node served, whole, with    *)
(* the roots the operator required, although the server may have changed   *)
(* its files between the requests and the client may have crashed and      *)
(* started over.  (With a limit of zero records the list only ever becomes *)
(* empty.)                                                                 *)
(***************************************************************************)
ImportsAreGenuine ==
    [][\A n \in Node : disk'[n].imports \notin {disk[n].imports, <<>>} =>
        LET r == disk'[n].imports[Len(disk'[n].imports)] IN
        /\ r.manifest \in served
        /\ disk[n].snapshot = r.root /\ r.root = r.manifest.root
        /\ disk[n].roots = r.manifest.metadata_roots
        /\ disk[n].required = r.required
        /\ \A k \in DOMAIN r.required :
              k \in DOMAIN r.manifest.metadata_roots /\ r.manifest.metadata_roots[k] = r.required[k]]_vars

(***************************************************************************)
(* What a node reports has a cause.  A node that is doing nothing reports  *)
(* a root mismatch only when a stored root that differs from its own came  *)
(* with a snapshot some node served, or a write or the node failed in      *)
(* between: an operation that ran to its end leaves the stored audit root  *)
(* equal to the root of the records, also when retention dropped some.  It *)
(* does not report stalled consensus while a certificate close enough to   *)
(* its height is stored (the genesis block, height 0, has none to count),  *)
(* nor reverts of a block it does not have; and an update reported         *)
(* as applied has nothing pending, unless something failed meanwhile or    *)
(* it was applied by hand, which leaves the pool alone (operator_alerts,   *)
(* record_validator_set_metadata_audit, highest_finalized_height,          *)
(* validator_set_metadata_update_status).                                  *)
(***************************************************************************)
AlertsHaveACause ==
    \A n \in Node :
        Idle(n) =>
            LET alerts == OperatorAlerts(disk[n], mem[n])
            IN  /\ "root_mismatch" \in alerts =>
                      \/ faults > 0
                      \/ \E m \in served : \E k \in DOMAIN m.metadata_roots \cap RootNames :
                            /\ PersistedRoot(disk[n], k) = {m.metadata_roots[k]}
                            /\ PersistedRoot(disk[n], k) # LocalRoot(disk[n], k)
                /\ "stalled_consensus" \in alerts =>
                      \A h \in disk[n].certificates \cap 1..mem[n].height :
                          h + MaxFinalityLag < mem[n].height
                /\ "excessive_reverts" \in alerts => mem[n].height \in DOMAIN disk[n].blocks
                /\ \A id \in mem[n].applied \ UNION {UpdateIds(messages) : messages \in Batches} :
                      faults = 0 => UpdateStatus(mem[n], id).pending_authorizations = 0

(***************************************************************************)
(* A fetch comes to an end, with a verified set of chunks or an error,     *)
(* however often the stream breaks and the server changes, unless it waits *)
(* for ever for the answer to one request: no number of failed attempts    *)
(* keeps it going round, and every answer takes it further.                *)
(***************************************************************************)
FetchEnds ==
    \A c \in Node :
        \/ []<>(fetch[c].phase \notin {"connect", "request"})
        \/ \E count \in 0..(ChunkCount - 1) :
              <>[](fetch[c].phase = "request" /\ Len(fetch[c].chunks) = count)
================================================================================
