--------------------------- MODULE PersistentNode ---------------------------
(***************************************************************************)
(* One persistent validator node: the mempool and validate_and_apply of    *)
(* detta-core, the file storage of detta-storage, and the handlers of      *)
(* PersistentValidatorNode in detta-node, with process crashes.            *)
(*                                                                         *)
(* A handler changes memory first and then writes files, one by one; each  *)
(* file is replaced atomically (write_json_atomic).  step says which write *)
(* comes next; the process may crash before any of them.  Handlers do not  *)
(* overlap, as each borrows the node mutably.                              *)
(*                                                                         *)
(* Abstracted: a block hash is the sequence of blocks it commits to, and a *)
(* set of transactions stands for their list, as drain_ordered sorts it by *)
(* (sender, nonce, hash).  Transactions are those that pass the checks of  *)
(* Mempool::submit that no state changes: chain, signature, size, budget.  *)
(* State sync, which replaces latest_snapshot.bin (import_snapshot_chunk_  *)
(* set), is not part of this module.                                       *)
(***************************************************************************)
EXTENDS Integers, Sequences, FiniteSets, FiniteSetsExt

CONSTANTS
    Transactions,        \* records: sender, nonce, valid_until_height, units
    Rank,                \* their place in the order of drain_ordered
    NoExpiry,            \* valid_until_height: None
    BlockResourceLimit,  \* DEFAULT_BLOCK_RESOURCE_LIMIT
    MaxPending,
    MaxPendingPerSender,
    ConsecutiveHeights,  \* whether callers name the height after the state's
    MaxHeight,           \* bound: the highest block
    MaxBlocks            \* bound: the longest chain

ASSUME NodeAssumption ==
    /\ IsFiniteSet(Transactions)
    /\ \A tx \in Transactions :
          /\ tx.valid_until_height \in Nat \cup {NoExpiry}
          /\ tx.units \in Nat
    /\ Rank \in [Transactions -> Nat]
    /\ NoExpiry \notin Nat
    /\ {BlockResourceLimit, MaxPending, MaxPendingPerSender} \subseteq Nat
    /\ ConsecutiveHeights \in BOOLEAN
    /\ {MaxHeight, MaxBlocks} \subseteq Nat

VARIABLES
    up,             \* the process is running
    state,          \* memory: DeTTaState
    pool,           \* memory: Mempool.pending
    step,           \* the next write of the handler in progress, or "Idle"
    submitted,      \* the transaction the handler in progress will acknowledge
    stored_blocks,  \* disk: blocks/<height>.bin
    snapshot,       \* disk: latest_snapshot.bin
    mempool_file,   \* disk: mempool.bin
    accepted        \* history: transactions whose submission was acknowledged

memory == <<state, pool, step, submitted>>
disk == <<stored_blocks, snapshot, mempool_file>>
vars == <<up, memory, disk, accepted>>

Heights == 1..MaxHeight
NonceKey(tx) == <<tx.sender, tx.nonce>>
NonceKeys == {NonceKey(tx) : tx \in Transactions}
Units(txs) == MapThenSumSet(LAMBDA tx : tx.units, txs)

(* proposer tells blocks produced here from imported ones.                 *)
Block == [height: Heights, proposer: {"self", "peer"}, txs: SUBSET Transactions]
ChainState == [height: 0..MaxHeight, used_nonces: SUBSET NonceKeys, tip: Seq(Block)]
Genesis == [height |-> 0, used_nonces |-> {}, tip |-> <<>>]

-----------------------------------------------------------------------------
(* Execution, as far as the node depends on it.                            *)

(* Mutant: the state ends up one height further.                           *)
ExecuteToNextHeight(s, block) ==
    [height |-> block.height + 1,
     used_nonces |-> s.used_nonces \cup {NonceKey(tx) : tx \in block.txs},
     tip |-> Append(s.tip, block)]

(* apply_block: a transaction already expired at the block's height is     *)
(* rejected and uses no nonce; any other has its nonce used afterwards.    *)
Execute(s, block) ==
    [height |-> block.height,
     used_nonces |-> s.used_nonces \cup
         {NonceKey(tx) : tx \in {t \in block.txs :
              t.valid_until_height = NoExpiry \/ t.valid_until_height >= block.height}},
     tip |-> Append(s.tip, block)]

-----------------------------------------------------------------------------
(* Mempool.                                                                *)

Expired(s, tx) ==
    tx.valid_until_height # NoExpiry /\ tx.valid_until_height <= s.height

Admissible(s, tx) == ~Expired(s, tx) /\ NonceKey(tx) \notin s.used_nonces

Admits(s, pending, tx) ==
    /\ Admissible(s, tx)
    /\ tx \notin pending
    /\ Cardinality(pending) < MaxPending
    /\ Cardinality({p \in pending : p.sender = tx.sender}) < MaxPendingPerSender

(* Mutant: expired transactions stay pending.                              *)
RetainUnusedNonces(s, pending) ==
    {tx \in pending : NonceKey(tx) \notin s.used_nonces}

RetainAdmissible(s, pending) == {tx \in pending : Admissible(s, tx)}

(* drain_ordered_with_resource_limit: in order, take each transaction that *)
(* still fits after those taken before it; the others stay pending.        *)
Selected(pending) ==
    LET taken == CHOOSE sel \in SUBSET pending :
            \A tx \in pending :
                tx \in sel <=>
                    Units({t \in sel : Rank[t] < Rank[tx]}) + tx.units
                        <= BlockResourceLimit
    IN  pending \cap taken

(* Mempool::from_transactions submits the stored transactions one by one   *)
(* and fails if one is refused.                                            *)
Reloads(s, txs) == \A tx \in txs : Admits(s, txs \ {tx}, tx)

-----------------------------------------------------------------------------
(* Handlers.                                                               *)

Idle == up /\ step = "Idle"

BlockHeights ==
    IF ConsecutiveHeights THEN {state.height + 1} \cap Heights ELSE Heights

SubmitTransaction(tx) ==
    /\ Idle
    /\ Admits(state, pool, tx)
    /\ pool' = pool \cup {tx}
    /\ submitted' = {tx}
    /\ step' = "PersistMempool"
    /\ UNCHANGED <<up, state, disk, accepted>>

PersistMempool ==
    /\ step = "PersistMempool"
    /\ mempool_file' = pool
    /\ accepted' = accepted \cup submitted
    /\ submitted' = {}
    /\ step' = "Idle"
    /\ UNCHANGED <<up, state, pool, stored_blocks, snapshot>>

(* Mutant: the caller persists the state but not the block.                *)
ApplyWithoutBlockFile(block, pending) ==
    /\ Len(state.tip) < MaxBlocks
    /\ state' = Execute(state, block)
    /\ pool' = RetainAdmissible(Execute(state, block), pending)
    /\ step' = "CommitSnapshot"
    /\ UNCHANGED <<up, submitted, disk, accepted>>

(* validate_and_apply, on the transactions left pending.                   *)
ValidateAndApply(block, pending) ==
    /\ Len(state.tip) < MaxBlocks
    /\ state' = Execute(state, block)
    /\ pool' = RetainAdmissible(Execute(state, block), pending)
    /\ step' = "CommitBlock"
    /\ UNCHANGED <<up, submitted, disk, accepted>>

ProduceBlock(h) ==
    /\ Idle
    /\ ValidateAndApply([height |-> h, proposer |-> "self", txs |-> Selected(pool)],
                        pool \ Selected(pool))

(* A peer's block that extends this node's chain; any other is refused.    *)
ImportBlock(h, txs) ==
    /\ Idle
    /\ Units(txs) <= BlockResourceLimit
    /\ ValidateAndApply([height |-> h, proposer |-> "peer", txs |-> txs], pool)

(* Mutant: the mempool is written before the snapshot.                     *)
CommitBlockAndMempool ==
    /\ step = "CommitBlock"
    /\ stored_blocks' = [stored_blocks EXCEPT ![state.height] = state.tip]
    /\ mempool_file' = pool
    /\ step' = "CommitSnapshot"
    /\ UNCHANGED <<up, state, pool, submitted, snapshot, accepted>>

(* Mutant: the mempool is not written after the snapshot.                  *)
CommitSnapshotOnly ==
    /\ step = "CommitSnapshot"
    /\ snapshot' = state
    /\ step' = "Idle"
    /\ UNCHANGED <<up, state, pool, submitted, stored_blocks, mempool_file, accepted>>

(* persist_committed_block: three writes.                                  *)
CommitBlock ==
    /\ step = "CommitBlock"
    /\ stored_blocks' = [stored_blocks EXCEPT ![state.height] = state.tip]
    /\ step' = "CommitSnapshot"
    /\ UNCHANGED <<up, state, pool, submitted, snapshot, mempool_file, accepted>>

CommitSnapshot ==
    /\ step = "CommitSnapshot"
    /\ snapshot' = state
    /\ step' = "CommitMempool"
    /\ UNCHANGED <<up, state, pool, submitted, stored_blocks, mempool_file, accepted>>

CommitMempool ==
    /\ step = "CommitMempool"
    /\ mempool_file' = pool
    /\ step' = "Idle"
    /\ UNCHANGED <<up, state, pool, submitted, stored_blocks, snapshot, accepted>>

Crash ==
    /\ up
    /\ up' = FALSE
    /\ state' = Genesis
    /\ pool' = {}
    /\ submitted' = {}
    /\ step' = "Idle"
    /\ UNCHANGED <<disk, accepted>>

(* Mutant: recovery starts from the genesis state.                         *)
RestartFromGenesis ==
    /\ ~up
    /\ Reloads(Genesis, mempool_file)
    /\ up' = TRUE
    /\ state' = Genesis
    /\ pool' = mempool_file
    /\ UNCHANGED <<step, submitted, disk, accepted>>

(* restart fails with NodeError::Mempool unless every stored transaction   *)
(* is admitted again.                                                      *)
Restart ==
    /\ ~up
    /\ Reloads(snapshot, mempool_file)
    /\ up' = TRUE
    /\ state' = snapshot
    /\ pool' = mempool_file
    /\ UNCHANGED <<step, submitted, disk, accepted>>

(* After bootstrap.                                                        *)
Init ==
    /\ up = TRUE
    /\ state = Genesis
    /\ pool = {}
    /\ step = "Idle"
    /\ submitted = {}
    /\ stored_blocks = [h \in Heights |-> <<>>]
    /\ snapshot = Genesis
    /\ mempool_file = {}
    /\ accepted = {}

Next ==
    \/ \E tx \in Transactions : SubmitTransaction(tx)
    \/ PersistMempool
    \/ \E h \in BlockHeights :
          ProduceBlock(h) \/ \E txs \in SUBSET Transactions : ImportBlock(h, txs)
    \/ CommitBlock
    \/ CommitSnapshot
    \/ CommitMempool
    \/ Crash
    \/ Restart

Spec == Init /\ [][Next]_vars

-----------------------------------------------------------------------------
(* Properties.                                                             *)

(* Every variable holds a value of its declared type.                      *)
TypeOK ==
    /\ up \in BOOLEAN
    /\ state \in ChainState
    /\ pool \subseteq Transactions
    /\ step \in {"Idle", "PersistMempool", "CommitBlock", "CommitSnapshot",
                 "CommitMempool"}
    /\ submitted \subseteq Transactions
    /\ stored_blocks \in [Heights -> Seq(Block)]
    /\ snapshot \in ChainState
    /\ mempool_file \subseteq Transactions
    /\ accepted \subseteq Transactions

(* Whatever is pending could be submitted to the current state:            *)
(* retain_admissible drops what a produced or imported block used up or    *)
(* let expire, also from what the resource limit deferred.                 *)
PendingIsAdmissible == \A tx \in pool : Admissible(state, tx)

(* An acknowledged transaction survives a crash at any point: it is in     *)
(* mempool.bin, or the durable state has settled it by using its nonce or  *)
(* passing its expiry height.                                              *)
AcceptedSurvives ==
    \A tx \in accepted : tx \in mempool_file \/ ~Admissible(snapshot, tx)

(* Between handlers the files hold what memory holds, and restart accepts  *)
(* them: stopping an idle node and restarting it changes nothing.          *)
IdleIsDurable ==
    Idle => /\ snapshot = state
            /\ mempool_file = pool
            /\ Reloads(snapshot, mempool_file)

(* With consecutive heights, get_block finds every block of the durable    *)
(* chain under its height; a crash leaves at most one other block behind,  *)
(* a successor of the durable state at the next height.                    *)
HistoryIsStored ==
    \A h \in Heights :
        LET found == stored_blocks[h] IN
        IF h <= snapshot.height
        THEN found = SubSeq(snapshot.tip, 1, h)
        ELSE found # <<>> =>
                h = snapshot.height + 1 /\ SubSeq(found, 1, h - 1) = snapshot.tip

IsPrefixOf(s, t) == Len(s) <= Len(t) /\ SubSeq(t, 1, Len(s)) = s

(* The durable chain is only ever extended: no crash, restart, produced or *)
(* imported block makes latest_snapshot.bin forget a block it held.        *)
DurableChainGrows == [][IsPrefixOf(snapshot.tip, snapshot'.tip)]_vars

(* "storage survives process crash at every commit boundary"               *)
(* (detta-production-implementation-plan.md): a crashed node can restart.  *)
RestartSucceeds == ~up => Reloads(snapshot, mempool_file)

(* After a restart, persistent nodes serve get_block from durable block    *)
(* storage so that clients "recover finalized history"                     *)
(* (detta-rpc-api.md): the blocks served are those of the node's chain.    *)
ServedBlocksAreOnChain ==
    Idle => \A h \in Heights : IsPrefixOf(stored_blocks[h], state.tip)

(* "nodes reject blocks with ... wrong height"                             *)
(* (detta-production-implementation-plan.md): heights rise along the chain.*)
HeightsIncrease ==
    \A i, j \in 1..Len(state.tip) :
        i < j => state.tip[i].height < state.tip[j].height

=============================================================================
