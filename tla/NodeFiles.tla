------------------------------- MODULE NodeFiles -------------------------------
(***************************************************************************)
(* What a PersistentValidatorNode holds besides its chain: the validator   *)
(* keyring, the pool of pending validator-set authorizations, the limits   *)
(* the operator set, and the files of FileStorage behind them.  An         *)
(* operation runs to its end without another one in between (it borrows    *)
(* the node), but it writes its files one at a time, so it is a change of  *)
(* memory followed by a sequence of steps, each the commit of one file and *)
(* the memory the operation leaves once that commit has returned.  A step  *)
(* may fail, which ends the operation where it stands, and the node may    *)
(* crash before any step.                                                  *)
(*                                                                         *)
(* A hash is the value it is taken of: an audit root is the list of        *)
(* records, a metadata-roots map is a function from root names to roots.   *)
(* The chain is the one the nodes agree on, so a state root is a height,   *)
(* and a pending transaction is the height from which the chain refuses    *)
(* it: that of the block that uses its nonce, or the last it is valid at.  *)
(* What is in a block is in PersistentNode.                                *)
(***************************************************************************)
EXTENDS Naturals, Sequences, FiniteSets, TLC

CONSTANTS
    Node,                   \* the nodes
    Network,                \* the network id of bootstrap_with_validator_set
    InitialKeyring,         \* and its keyring
    DefaultMaxUpdates,      \* DEFAULT_MAX_PENDING_VALIDATOR_SET_METADATA_UPDATES
    DefaultMaxPerValidator, \* DEFAULT_MAX_PENDING_..._AUTHORIZATIONS_PER_VALIDATOR
    DefaultMaxAudit,        \* DEFAULT_MAX_VALIDATOR_SET_METADATA_AUDIT_RECORDS
    DefaultMaxImports,      \* DEFAULT_MAX_SNAPSHOT_IMPORT_AUDIT_RECORDS
    Scope                   \* bounds: the records the variable scope may be

\* A keyring is a map; a limit is an unsigned integer (usize), zero is one too.
ASSUME NodeAssumption ==
    /\ IsFiniteSet(DOMAIN InitialKeyring)
    /\ DefaultMaxUpdates \in Nat /\ DefaultMaxPerValidator \in Nat
    /\ DefaultMaxImports \in Nat
    /\ \A s \in Scope :
          s.collecting \subseteq Node /\ s.fetching \subseteq Node /\ s.import_limits \subseteq Nat

VARIABLES
    scope,  \* what happens in this behaviour, and how often: faults (crashes
            \* and failed writes) and height bound the nodes, the other fields
            \* are read where they apply; it never changes
    mem,    \* mem[n]: the PersistentValidatorNode of n, whether n is up, and
            \* whether a client's request is what it is working on
    disk,   \* disk[n]: the files of n
    work,   \* work[n]: the commits still to come of the operation n is in (a
            \* restart is one, of a node that is not up yet)
    faults  \* crashes and failed writes so far

nodeVars == <<scope, mem, disk, work, faults>>

\* No root map at all: a BTreeMap with no entry.
NoRoots == [k \in {} |-> 0]

--------------------------------------------------------------------------------
\* A commit of one file, and the memory the operation leaves behind it.
Step(d, m) == [disk |-> d, mem |-> m]

Idle(n) == mem[n].up /\ work[n] = <<>>

\* Start an operation of n: its first changes of memory, then its commits.
Begin(n, m, steps) ==
    /\ mem' = [mem EXCEPT ![n] = m]
    /\ work' = [work EXCEPT ![n] = steps]

\* A list kept to its newest max records.
Retained(all, max) ==
    IF Len(all) > max THEN SubSeq(all, Len(all) - max + 1, Len(all)) ELSE all

AppendWithRetention(records, record, max) == Retained(Append(records, record), max)

\* persist_current_snapshot_metadata_roots: the audit root of the node's own
\* records takes the place of whatever root is stored, an imported one too.
PersistCurrentRoots(d) ==
    [d EXCEPT !.roots =
        [k \in DOMAIN d.roots \cup {"validator_set_audit"} |->
            IF k = "validator_set_audit" THEN d.audit ELSE d.roots[k]]]

\* Mutant: the root is stored before the record, so it is that of the
\* records without it.
RecordAuditRootFirst(d, m, after, update_id, outcome) ==
    LET rooted == PersistCurrentRoots(d)
        logged == [rooted EXCEPT !.audit =
            AppendWithRetention(@, [update_id |-> update_id, outcome |-> outcome],
                                m.max_audit)]
    IN  <<Step(rooted, m), Step(logged, after)>>

\* record_validator_set_metadata_audit: two commits; after is the memory the
\* caller goes on to.
RecordAudit(d, m, after, update_id, outcome) ==
    LET logged == [d EXCEPT !.audit =
            AppendWithRetention(@, [update_id |-> update_id, outcome |-> outcome],
                                m.max_audit)]
    IN  <<Step(logged, m), Step(PersistCurrentRoots(logged), after)>>

\* effective_snapshot_metadata_roots: what the node says of itself next to a
\* snapshot.  The stored audit root wins over the node's own; every other
\* root the node has of its own wins over the stored one.
EffectiveRoots(d) ==
    LET own ==
          (IF d.metrics = {} THEN NoRoots ELSE "client_metrics" :> d.metrics)
       @@ (IF d.required = NoRoots THEN NoRoots ELSE "required_roots" :> d.required)
       @@ (IF d.imports = <<>> THEN NoRoots ELSE "import_audit" :> d.imports)
       @@ (IF d.import_config = {} THEN NoRoots
           ELSE "import_audit_config" :> d.import_config)
    IN  own @@ d.roots @@ ("validator_set_audit" :> d.audit)

--------------------------------------------------------------------------------
BootDisk ==
    [snapshot |-> 0, keyring |-> InitialKeyring, applied |-> {}, pending |-> {},
     audit |-> <<>>, roots |-> NoRoots, required |-> NoRoots, imports |-> <<>>,
     import_config |-> {}, metrics |-> {}, blocks |-> NoRoots, certificates |-> {},
     slashings |-> {}, network |-> Network, mempool |-> {}]

\* The memory restart builds from the files, before it loads the pool of
\* authorizations: the mempool, the keyring and the import-audit limits are
\* read back, every other limit is the default again, and the peers seen and
\* the errors answered are not remembered.
FromDisk(d) ==
    [up |-> TRUE, height |-> d.snapshot, keyring |-> d.keyring,
     network |-> d.network, applied |-> d.applied, pending |-> {}, mempool |-> d.mempool,
     max_updates |-> DefaultMaxUpdates, max_per_validator |-> DefaultMaxPerValidator,
     max_audit |-> DefaultMaxAudit,
     max_imports |-> IF d.import_config = {} THEN DefaultMaxImports
                     ELSE CHOOSE c \in d.import_config : TRUE,
     peers |-> {}, errors |-> 0, calling |-> FALSE]

NodeInit ==
    /\ scope \in Scope
    /\ disk = [n \in Node |-> BootDisk]
    /\ mem = [n \in Node |-> FromDisk(BootDisk)]
    /\ work = [n \in Node |-> <<>>]
    /\ faults = 0

\* The next file of the operation is written (write_json_atomic: the file is
\* the old one or the new one, never a mixture).
Commit(n) ==
    /\ work[n] # <<>>
    /\ disk' = [disk EXCEPT ![n] = Head(work[n]).disk]
    /\ mem' = [mem EXCEPT ![n] = Head(work[n]).mem]
    /\ work' = [work EXCEPT ![n] = Tail(@)]
    /\ UNCHANGED <<scope, faults>>

\* The end of handle_rpc_request: an error is counted.
Answered(m, error) == [m EXCEPT !.calling = FALSE, !.errors = IF error THEN @ + 1 ELSE @]

\* The write returns an error: the operation ends there, with the memory it
\* has changed so far; if a client called it, it gets the error.
WriteFails(n) ==
    /\ work[n] # <<>> /\ faults < scope.faults
    /\ work' = [work EXCEPT ![n] = <<>>]
    /\ mem' = [mem EXCEPT ![n] = IF @.calling THEN Answered(@, TRUE) ELSE @]
    /\ faults' = faults + 1
    /\ UNCHANGED <<scope, disk>>

\* Memory is gone; what it held is not read again.
Crash(n) ==
    /\ mem[n].up \/ work[n] # <<>>
    /\ faults < scope.faults
    /\ mem' = [mem EXCEPT ![n] = [FromDisk(BootDisk) EXCEPT !.up = FALSE]]
    /\ work' = [work EXCEPT ![n] = <<>>]
    /\ faults' = faults + 1
    /\ UNCHANGED <<scope, disk>>

\* submit_transaction: the mempool refuses what the chain has used or
\* outlived and what it holds; else it is stored with the transaction.
Submits(m, tx) == tx > m.height /\ tx \notin m.mempool

Submit(n, m, tx) ==
    LET next == [m EXCEPT !.mempool = @ \cup {tx}]
    IN  IF Submits(m, tx) THEN Begin(n, next, <<Step([disk[n] EXCEPT !.mempool = next.mempool], next)>>)
        ELSE Begin(n, m, <<>>)

\* A block enters the node's state, and the mempool keeps what the chain will
\* still take (validate_and_apply).
NextBlock(m) ==
    [m EXCEPT !.height = @ + 1, !.mempool = {tx \in @ : tx > m.height + 1}]

\* Then three files are written (persist_committed_block).
BlockSteps(d, m, block) ==
    LET stored == [d EXCEPT !.blocks = (m.height :> block) @@ @]
        snapped == [stored EXCEPT !.snapshot = m.height]
    IN  <<Step(stored, m), Step(snapped, m), Step([snapped EXCEPT !.mempool = m.mempool], m)>>

\* produce_block.  A block is how many receipts it has and how many of them
\* are of transactions that did not commit.
CommitBlock(n, block) ==
    /\ Idle(n) /\ mem[n].height < scope.height
    /\ LET m == NextBlock(mem[n])
       IN  Begin(n, m, BlockSteps(disk[n], m, block))
    /\ UNCHANGED <<scope, disk, faults>>

\* set_snapshot_import_audit_limits: the one pair of limits that is stored.
SetImportAuditLimit(n, max) ==
    /\ Idle(n) /\ max # mem[n].max_imports
    /\ LET m == [mem[n] EXCEPT !.max_imports = max]
       IN  Begin(n, m, <<Step([disk[n] EXCEPT !.import_config = {max}], m)>>)
    /\ UNCHANGED <<scope, disk, faults>>

\* set_validator_set_metadata_audit_limits: memory only.
SetAuditLimit(n, max) ==
    /\ Idle(n) /\ max # mem[n].max_audit
    /\ mem' = [mem EXCEPT ![n].max_audit = max]
    /\ UNCHANGED <<scope, disk, work, faults>>

\* set_validator_set_metadata_authorization_limits: memory only.
SetAuthorizationLimits(n, updates, perValidator) ==
    /\ Idle(n)
    /\ <<updates, perValidator>> # <<mem[n].max_updates, mem[n].max_per_validator>>
    /\ mem' = [mem EXCEPT ![n].max_updates = updates,
                          ![n].max_per_validator = perValidator]
    /\ UNCHANGED <<scope, disk, work, faults>>
================================================================================
