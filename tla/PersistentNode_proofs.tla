------------------------ MODULE PersistentNode_proofs ------------------------
(***************************************************************************)
(* Proofs about PersistentNode, for any transactions, limits and bounds,   *)
(* when callers name consecutive heights.                                  *)
(*                                                                         *)
(* The inductive invariant says, for each write a handler still has to do, *)
(* how the files relate to memory: the durable state is memory's or its    *)
(* predecessor, and whatever mempool.bin holds beyond the pool is settled  *)
(* in memory's state.                                                      *)
(***************************************************************************)
EXTENDS PersistentNode, FiniteSetTheorems, SequenceTheorems, TLAPS

BlockSteps == {"CommitBlock", "CommitSnapshot", "CommitMempool"}

ChainShape(s) == Len(s.tip) = s.height

(* t is the state one block after s.                                       *)
Succeeds(s, t) ==
    /\ t.height = s.height + 1
    /\ s.used_nonces \subseteq t.used_nonces
    /\ SubSeq(t.tip, 1, s.height) = s.tip

Settles(txs, pending, s) ==
    \A tx \in txs : tx \in pending \/ ~Admissible(s, tx)

MemoryInv ==
    /\ ChainShape(state) /\ ChainShape(snapshot)
    /\ Reloads(state, pool)
    /\ ~up => step = "Idle" /\ pool = {}
    /\ step # "PersistMempool" => submitted = {}

FilesInv ==
    /\ Idle => snapshot = state /\ mempool_file = pool
    /\ step = "PersistMempool" =>
          snapshot = state /\ mempool_file \subseteq pool /\ submitted \subseteq pool
    /\ step \in {"CommitBlock", "CommitSnapshot"} => Succeeds(snapshot, state)
    /\ step = "CommitSnapshot" => stored_blocks[state.height] = state.tip
    /\ step = "CommitMempool" => snapshot = state
    /\ step \in BlockSteps => Settles(mempool_file, pool, state)

IInv ==
    /\ TypeOK
    /\ MemoryInv
    /\ FilesInv
    /\ AcceptedSurvives
    /\ HistoryIsStored

-----------------------------------------------------------------------------
(* Admission.                                                              *)

(* What one block settles stays settled.                                   *)
LEMMA SettledStays ==
    ASSUME NEW s \in ChainState, NEW t \in ChainState, Succeeds(s, t),
           NEW tx \in Transactions, ~Admissible(s, tx)
    PROVE  ~Admissible(t, tx)
BY NodeAssumption DEF Succeeds, Admissible, Expired, ChainState

(* Fewer pending transactions reload if more do.                           *)
LEMMA ReloadsSubset ==
    ASSUME NEW s, NEW txs \in SUBSET Transactions, NEW sub \in SUBSET txs,
           Reloads(s, txs)
    PROVE  Reloads(s, sub)
<1> SUFFICES ASSUME NEW tx \in sub
             PROVE  Admits(s, sub \ {tx}, tx)
    BY Zenon DEF Reloads
<1>1. Admits(s, txs \ {tx}, tx)
    BY Zenon DEF Reloads
<1>2. IsFiniteSet(txs \ {tx})
    BY NodeAssumption, FS_Subset, Zenon
<1>3. /\ IsFiniteSet(sub \ {tx})
      /\ Cardinality(sub \ {tx}) <= Cardinality(txs \ {tx})
    BY <1>2, FS_Subset, Zenon
<1> DEFINE Of(S) == {p \in S : p.sender = tx.sender}
<1>4. IsFiniteSet(Of(txs \ {tx}))
    BY <1>2, FS_Subset, Zenon
<1>5. /\ IsFiniteSet(Of(sub \ {tx}))
      /\ Cardinality(Of(sub \ {tx})) <= Cardinality(Of(txs \ {tx}))
    <2>1. Of(sub \ {tx}) \subseteq Of(txs \ {tx})
        BY Zenon
    <2> QED  BY <2>1, <1>4, FS_Subset, Zenon
<1>6. /\ Cardinality(sub \ {tx}) \in Nat /\ Cardinality(txs \ {tx}) \in Nat
      /\ Cardinality(Of(sub \ {tx})) \in Nat /\ Cardinality(Of(txs \ {tx})) \in Nat
    BY <1>2, <1>3, <1>4, <1>5, FS_CardinalityType, Zenon
<1>7. Cardinality(sub \ {tx}) < MaxPending
    BY <1>1, <1>3, <1>6, NodeAssumption DEF Admits
<1>8. Cardinality(Of(sub \ {tx})) < MaxPendingPerSender
    <2>1. Cardinality(Of(txs \ {tx})) < MaxPendingPerSender
        BY <1>1, Zenon DEF Admits
    <2> QED  BY <2>1, <1>5, <1>6, NodeAssumption
<1> QED  BY <1>1, <1>7, <1>8, Zenon DEF Admits

(* Exchanging an element keeps the cardinality.                            *)
LEMMA ExchangeCardinality ==
    ASSUME NEW S, IsFiniteSet(S), NEW a \in S, NEW b, b \notin S
    PROVE  Cardinality((S \ {a}) \cup {b}) = Cardinality(S)
<1>1. IsFiniteSet(S \ {a}) /\ Cardinality(S \ {a}) = Cardinality(S) - 1
    BY FS_RemoveElement, Zenon
<1>2. b \notin S \ {a}
    BY Zenon
<1>3. Cardinality((S \ {a}) \cup {b}) = Cardinality(S \ {a}) + 1
    BY <1>1, <1>2, FS_AddElement, Zenon
<1> QED  BY <1>1, <1>3, FS_CardinalityType

(* What submit admits can be reloaded with the rest.                       *)
LEMMA ReloadsSubmitted ==
    ASSUME NEW s, NEW txs \in SUBSET Transactions, Reloads(s, txs),
           NEW new \in Transactions, Admits(s, txs, new)
    PROVE  Reloads(s, txs \cup {new})
<1> SUFFICES ASSUME NEW tx \in txs \cup {new}
             PROVE  Admits(s, (txs \cup {new}) \ {tx}, tx)
    BY Zenon DEF Reloads
<1> DEFINE rest == (txs \cup {new}) \ {tx}
           Of(S, p) == {q \in S : q.sender = p.sender}
<1>1. new \notin txs
    BY Zenon DEF Admits
<1>2. CASE tx = new
    <2>1. rest = txs
        BY <1>1, <1>2, Zenon
    <2> QED  BY <1>2, <2>1, Zenon
<1>3. CASE tx # new
    <2>1. tx \in txs /\ Admits(s, txs \ {tx}, tx)
        BY <1>3, Zenon DEF Reloads
    <2>2. IsFiniteSet(txs) /\ IsFiniteSet(txs \ {tx})
        BY NodeAssumption, FS_Subset, Zenon
    <2>4. rest = (txs \ {tx}) \cup {new}
        BY <1>1, <1>3, Zenon
    <2>5. Cardinality(rest) = Cardinality(txs)
        BY <1>1, <2>1, <2>2, <2>4, ExchangeCardinality
    <2>6. Cardinality(rest) < MaxPending
        BY <2>5, Zenon DEF Admits
    <2>7. Cardinality(Of(rest, tx)) < MaxPendingPerSender
        <3>1. CASE new.sender # tx.sender
            <4>1. Of(rest, tx) = Of(txs \ {tx}, tx)
                BY <2>4, <3>1, Zenon
            <4>2. Cardinality(Of(txs \ {tx}, tx)) < MaxPendingPerSender
                BY <2>1, Zenon DEF Admits
            <4> QED  BY <4>1, <4>2, Zenon
        <3>2. CASE new.sender = tx.sender
            <4>1. Cardinality(Of(txs, new)) < MaxPendingPerSender
                BY Zenon DEF Admits
            <4>2. IsFiniteSet(Of(txs, new)) /\ tx \in Of(txs, new)
                BY <2>1, <2>2, <3>2, FS_Subset, Zenon
            <4>3. Of(rest, tx) = (Of(txs, new) \ {tx}) \cup {new}
                BY <2>4, <3>2, Zenon
            <4>4. new \notin Of(txs, new)
                BY <1>1, Zenon
            <4> HIDE DEF Of
            <4>5. Cardinality((Of(txs, new) \ {tx}) \cup {new})
                    = Cardinality(Of(txs, new))
                BY <4>2, <4>4, ExchangeCardinality, Zenon
            <4>6. Cardinality(Of(rest, tx)) = Cardinality(Of(txs, new))
                BY <4>3, <4>5, Zenon
            <4> QED  BY <4>1, <4>6, Zenon
        <3> QED  BY <3>1, <3>2, Zenon
    <2>8. tx \notin rest
        BY Zenon
    <2> QED  BY <2>1, <2>6, <2>7, <2>8, Zenon DEF Admits
<1> QED  BY <1>2, <1>3, Zenon

(* Pruning for a later state leaves a pool that reloads into it.           *)
LEMMA ReloadsRetained ==
    ASSUME NEW s, NEW t, NEW txs \in SUBSET Transactions, Reloads(s, txs),
           NEW sub \in SUBSET txs
    PROVE  Reloads(t, RetainAdmissible(t, sub))
<1> DEFINE kept == RetainAdmissible(t, sub)
<1>1. kept \in SUBSET txs
    BY Zenon DEF RetainAdmissible
<1>2. Reloads(s, kept)
    BY <1>1, ReloadsSubset, Zenon
<1>3. \A tx \in kept : Admissible(t, tx)
    BY Zenon DEF RetainAdmissible
<1> QED  BY <1>2, <1>3, Zenon DEF Reloads, Admits

-----------------------------------------------------------------------------
(* Execution.                                                              *)

(* Applying the block after s gives its successor, in which every          *)
(* transaction of the block is settled.                                    *)
LEMMA ExecuteSucceeds ==
    ASSUME NEW s \in ChainState, ChainShape(s),
           NEW block \in Block, block.height = s.height + 1
    PROVE  LET t == Execute(s, block)
           IN  /\ t \in ChainState
               /\ ChainShape(t)
               /\ Succeeds(s, t)
               /\ \A tx \in block.txs : ~Admissible(t, tx)
<1> DEFINE t == Execute(s, block)
           used == {tx \in block.txs :
                      tx.valid_until_height = NoExpiry \/ tx.valid_until_height >= block.height}
<1>1. /\ s.tip \in Seq(Block) /\ s.height \in Nat /\ Len(s.tip) = s.height
      /\ block.height \in Heights /\ block.txs \in SUBSET Transactions
    BY NodeAssumption DEF ChainState, ChainShape, Block
<1>2. /\ t.height = block.height
      /\ t.used_nonces = s.used_nonces \cup {NonceKey(tx) : tx \in used}
      /\ t.tip = Append(s.tip, block)
    BY Zenon DEF Execute
<1>3. /\ Append(s.tip, block) \in Seq(Block)
      /\ Len(Append(s.tip, block)) = s.height + 1
      /\ SubSeq(Append(s.tip, block), 1, s.height) = s.tip
    <2>1. /\ Append(s.tip, block) \in Seq(Block)
          /\ Len(Append(s.tip, block)) = s.height + 1
          /\ \A i \in 1..s.height : Append(s.tip, block)[i] = s.tip[i]
        BY <1>1
    <2>2. SubSeq(Append(s.tip, block), 1, s.height) = s.tip
        BY <1>1, <2>1
    <2> QED  BY <2>1, <2>2, Zenon
<1>4. t.used_nonces \in SUBSET NonceKeys
    BY <1>1, <1>2, Zenon DEF ChainState, NonceKeys
<1>5. t \in ChainState
    BY <1>1, <1>2, <1>3, <1>4, NodeAssumption DEF Execute, ChainState, Heights
<1>6. Succeeds(s, t)
    BY <1>2, <1>3, Zenon DEF Succeeds
<1>7. ASSUME NEW tx \in block.txs
      PROVE  ~Admissible(t, tx)
    <2>1. CASE tx \in used
        BY <1>2, <2>1, Zenon DEF Admissible
    <2>2. CASE tx \notin used
        <3>1. tx \in Transactions /\ block.height \in Nat
            BY <1>1 DEF Heights
        <3>2. /\ tx.valid_until_height # NoExpiry
              /\ tx.valid_until_height \in Nat
              /\ ~(tx.valid_until_height >= block.height)
            BY <2>2, <3>1, NodeAssumption, Zenon
        <3>3. tx.valid_until_height <= t.height
            BY <1>2, <3>1, <3>2
        <3> QED  BY <3>2, <3>3, Zenon DEF Admissible, Expired
    <2> QED  BY <2>1, <2>2, Zenon
<1> QED  BY <1>2, <1>3, <1>5, <1>6, <1>7, Zenon DEF ChainShape

-----------------------------------------------------------------------------
(* The inductive invariant.                                                *)

LEMMA InitIInv ==
    Init => IInv
<1> SUFFICES ASSUME Init PROVE IInv
    BY Zenon
<1>1. <<>> \in Seq(Block) /\ Len(<<>>) = 0
    OBVIOUS
<1>2. Genesis \in ChainState /\ ChainShape(Genesis)
    BY <1>1, NodeAssumption DEF Genesis, ChainState, ChainShape
<1>3. TypeOK
    BY <1>1, <1>2, Zenon DEF Init, TypeOK
<1>4. MemoryInv
    BY <1>2, Zenon DEF Init, MemoryInv, Reloads
<1>5. FilesInv
    BY Zenon DEF Init, FilesInv, BlockSteps
<1>6. HistoryIsStored
    BY NodeAssumption DEF Init, HistoryIsStored, Genesis, Heights
<1> QED  BY <1>3, <1>4, <1>5, <1>6, Zenon DEF IInv, AcceptedSurvives, Init

(* The memory half of produce_block and import_block.                      *)
LEMMA ApplyIInv ==
    ASSUME IInv, Idle, NEW block \in Block, block.height = state.height + 1,
           NEW pending \in SUBSET pool,
           \A tx \in pool : tx \in pending \/ tx \in block.txs,
           ValidateAndApply(block, pending)
    PROVE  IInv'
<1> DEFINE t == Execute(state, block)
<1>1. /\ t \in ChainState
      /\ ChainShape(t)
      /\ Succeeds(state, t)
      /\ \A tx \in block.txs : ~Admissible(t, tx)
    BY ExecuteSucceeds, Zenon DEF IInv, TypeOK, MemoryInv
<1> HIDE DEF t
<1>2. /\ state' = t /\ pool' = RetainAdmissible(t, pending) /\ step' = "CommitBlock"
      /\ UNCHANGED <<up, submitted, stored_blocks, snapshot, mempool_file, accepted>>
    BY Zenon DEF ValidateAndApply, disk, t
<1>3. snapshot = state /\ mempool_file = pool /\ up = TRUE /\ submitted = {}
    BY Zenon DEF IInv, FilesInv, MemoryInv, Idle, TypeOK
<1>4. pool' \subseteq pool
    BY <1>2, Zenon DEF RetainAdmissible
<1>5. TypeOK'
    BY <1>1, <1>2, <1>4, Zenon DEF IInv, TypeOK
<1>6. Reloads(t, pool')
    BY <1>2, ReloadsRetained, Zenon DEF IInv, TypeOK, MemoryInv
<1>7. MemoryInv'
    BY <1>1, <1>2, <1>3, <1>6, Zenon DEF IInv, MemoryInv
<1>8. Settles(mempool_file, pool', t)
    BY <1>1, <1>2, <1>3, Zenon DEF Settles, RetainAdmissible
<1>9. FilesInv'
    BY <1>1, <1>2, <1>3, <1>8, Zenon DEF FilesInv, Idle, BlockSteps
<1>10. AcceptedSurvives' /\ HistoryIsStored'
    BY <1>2, Zenon DEF IInv, AcceptedSurvives, HistoryIsStored
<1> QED  BY <1>5, <1>7, <1>9, <1>10, Zenon DEF IInv

(* Writing the snapshot moves the durable state on by one block; the files *)
(* of the blocks below and of the new one are in place.                    *)
LEMMA SnapshotHistory ==
    ASSUME IInv, CommitSnapshot
    PROVE  HistoryIsStored'
<1>1. /\ snapshot' = state /\ stored_blocks' = stored_blocks
      /\ Succeeds(snapshot, state) /\ ChainShape(state) /\ ChainShape(snapshot)
      /\ stored_blocks[state.height] = state.tip
    BY Zenon DEF CommitSnapshot, IInv, FilesInv, MemoryInv
<1>2. /\ state.tip \in Seq(Block) /\ state.height \in Nat /\ snapshot.height \in Nat
      /\ state.height = snapshot.height + 1 /\ Len(state.tip) = state.height
      /\ SubSeq(state.tip, 1, snapshot.height) = snapshot.tip
    BY <1>1, NodeAssumption DEF IInv, TypeOK, ChainState, ChainShape, Succeeds
<1> SUFFICES ASSUME NEW h \in Heights
             PROVE  IF h <= state.height
                    THEN stored_blocks[h] = SubSeq(state.tip, 1, h)
                    ELSE stored_blocks[h] # <<>> =>
                            /\ h = state.height + 1
                            /\ SubSeq(stored_blocks[h], 1, h - 1) = state.tip
    BY <1>1, Zenon DEF HistoryIsStored
<1>3. h \in Nat /\ h >= 1
    BY NodeAssumption DEF Heights
<1>4. CASE h <= snapshot.height
    <2>1. stored_blocks[h] = SubSeq(snapshot.tip, 1, h)
        BY <1>4, Zenon DEF IInv, HistoryIsStored
    <2>2. SubSeq(SubSeq(state.tip, 1, snapshot.height), 1, h) = SubSeq(state.tip, 1, h)
        BY <1>2, <1>3, <1>4
    <2> QED  BY <1>2, <1>3, <1>4, <2>1, <2>2
<1>5. CASE h = state.height
    <2>1. SubSeq(state.tip, 1, Len(state.tip)) = state.tip
        BY <1>2
    <2> QED  BY <1>1, <1>2, <1>3, <1>5, <2>1
<1>6. CASE h > state.height
    <2>1. stored_blocks[h] = <<>>
        BY <1>2, <1>3, <1>6 DEF IInv, HistoryIsStored
    <2> QED  BY <1>2, <1>3, <1>6, <2>1
<1> QED  BY <1>2, <1>3, <1>4, <1>5, <1>6

LEMMA NextIInv ==
    ASSUME ConsecutiveHeights, IInv, [Next]_vars
    PROVE  IInv'
<1> USE DEF IInv
<1>1. ASSUME NEW tx \in Transactions, SubmitTransaction(tx)
      PROVE  IInv'
    <2>1. /\ Idle /\ Admits(state, pool, tx) /\ pool' = pool \cup {tx}
          /\ submitted' = {tx} /\ step' = "PersistMempool"
          /\ UNCHANGED <<up, state, stored_blocks, snapshot, mempool_file, accepted>>
        BY <1>1, Zenon DEF SubmitTransaction, disk
    <2>2. TypeOK'
        BY <2>1, Zenon DEF TypeOK
    <2>3. Reloads(state, pool \cup {tx})
        BY <2>1, ReloadsSubmitted, Zenon DEF TypeOK, MemoryInv
    <2>4. MemoryInv'
        BY <2>1, <2>3, Zenon DEF MemoryInv, Idle
    <2>5. FilesInv'
        BY <2>1, Zenon DEF FilesInv, Idle, BlockSteps
    <2> QED  BY <2>1, <2>2, <2>4, <2>5, Zenon DEF AcceptedSurvives, HistoryIsStored
<1>2. CASE PersistMempool
    <2>1. /\ step = "PersistMempool" /\ mempool_file' = pool
          /\ accepted' = accepted \cup submitted /\ submitted' = {} /\ step' = "Idle"
          /\ UNCHANGED <<up, state, pool, stored_blocks, snapshot>>
        BY <1>2, Zenon DEF PersistMempool
    <2>2. snapshot = state /\ mempool_file \subseteq pool /\ submitted \subseteq pool
        BY <2>1, Zenon DEF FilesInv
    <2>3. TypeOK'
        BY <2>1, Zenon DEF TypeOK
    <2>4. MemoryInv' /\ FilesInv'
        BY <2>1, <2>2, Zenon DEF MemoryInv, FilesInv, Idle, BlockSteps
    <2>5. AcceptedSurvives'
        BY <2>1, <2>2, Zenon DEF AcceptedSurvives
    <2> QED  BY <2>1, <2>3, <2>4, <2>5, Zenon DEF HistoryIsStored
<1>3. ASSUME NEW h \in BlockHeights
      PROVE  h \in Heights /\ h = state.height + 1
    BY <1>3, Zenon DEF BlockHeights
<1>4. ASSUME NEW h \in BlockHeights, ProduceBlock(h)
      PROVE  IInv'
    <2> DEFINE block == [height |-> h, proposer |-> "self", txs |-> Selected(pool)]
    <2>1. Selected(pool) \subseteq pool
        BY Zenon DEF Selected
    <2>2. block \in Block
        BY <1>3, <2>1, Zenon DEF Block, TypeOK
    <2> QED  BY <1>3, <1>4, <2>1, <2>2, ApplyIInv, Zenon DEF ProduceBlock
<1>5. ASSUME NEW h \in BlockHeights, NEW txs \in SUBSET Transactions, ImportBlock(h, txs)
      PROVE  IInv'
    <2> DEFINE block == [height |-> h, proposer |-> "peer", txs |-> txs]
    <2>1. block \in Block
        BY <1>3, Zenon DEF Block
    <2> QED  BY <1>3, <1>5, <2>1, ApplyIInv, Zenon DEF ImportBlock
<1>6. CASE CommitBlock
    <2>1. /\ step = "CommitBlock" /\ step' = "CommitSnapshot"
          /\ stored_blocks' = [stored_blocks EXCEPT ![state.height] = state.tip]
          /\ UNCHANGED <<up, state, pool, submitted, snapshot, mempool_file, accepted>>
        BY <1>6, Zenon DEF CommitBlock
    <2>2. /\ Succeeds(snapshot, state) /\ state.height \in Heights
          /\ state.tip \in Seq(Block) /\ snapshot.height \in Nat
        BY <2>1, NodeAssumption DEF FilesInv, Succeeds, TypeOK, ChainState, Heights
    <2>3. TypeOK'
        BY <2>1, <2>2, Zenon DEF TypeOK
    <2>4. MemoryInv' /\ FilesInv'
        BY <2>1, <2>2, Zenon DEF MemoryInv, FilesInv, Idle, BlockSteps, TypeOK
    <2>5. HistoryIsStored'
        BY <2>1, <2>2, NodeAssumption, SMTT(30) DEF HistoryIsStored, Succeeds, Heights, TypeOK
    <2> QED  BY <2>1, <2>3, <2>4, <2>5, Zenon DEF AcceptedSurvives
<1>7. CASE CommitSnapshot
    <2>1. /\ step = "CommitSnapshot" /\ step' = "CommitMempool" /\ snapshot' = state
          /\ UNCHANGED <<up, state, pool, submitted, stored_blocks, mempool_file, accepted>>
        BY <1>7, Zenon DEF CommitSnapshot
    <2>2. TypeOK'
        BY <2>1, Zenon DEF TypeOK
    <2>3. MemoryInv' /\ FilesInv'
        BY <2>1, Zenon DEF MemoryInv, FilesInv, Idle, BlockSteps
    <2>4. AcceptedSurvives'
        <3>1. Succeeds(snapshot, state)
            BY <2>1, Zenon DEF FilesInv
        <3> QED  BY <2>1, <3>1, SettledStays, Zenon DEF AcceptedSurvives, TypeOK
    <2> QED  BY <1>7, <2>2, <2>3, <2>4, SnapshotHistory, Zenon
<1>8. CASE CommitMempool
    <2>1. /\ step = "CommitMempool" /\ step' = "Idle" /\ mempool_file' = pool
          /\ UNCHANGED <<up, state, pool, submitted, stored_blocks, snapshot, accepted>>
        BY <1>8, Zenon DEF CommitMempool
    <2>2. snapshot = state /\ Settles(mempool_file, pool, state)
        BY <2>1, Zenon DEF FilesInv, BlockSteps
    <2>3. TypeOK' /\ HistoryIsStored'
        BY <2>1, Zenon DEF TypeOK, HistoryIsStored
    <2>4. MemoryInv' /\ FilesInv'
        BY <2>1, <2>2, Zenon DEF MemoryInv, FilesInv, Idle, BlockSteps
    <2>5. AcceptedSurvives'
        BY <2>1, <2>2, Zenon DEF AcceptedSurvives, Settles
    <2> QED  BY <2>3, <2>4, <2>5, Zenon
<1>9. CASE Crash
    <2>1. /\ up' = FALSE /\ state' = Genesis /\ pool' = {} /\ submitted' = {}
          /\ step' = "Idle"
          /\ UNCHANGED <<stored_blocks, snapshot, mempool_file, accepted>>
        BY <1>9, Zenon DEF Crash, disk
    <2>2. Genesis \in ChainState /\ ChainShape(Genesis)
        BY NodeAssumption DEF Genesis, ChainState, ChainShape
    <2>3. TypeOK' /\ MemoryInv'
        BY <2>1, <2>2, Zenon DEF TypeOK, MemoryInv, Reloads
    <2> QED  BY <2>1, <2>3, Zenon DEF FilesInv, Idle, BlockSteps, AcceptedSurvives, HistoryIsStored
<1>10. CASE Restart
    <2>1. /\ ~up /\ Reloads(snapshot, mempool_file) /\ up' = TRUE /\ state' = snapshot
          /\ pool' = mempool_file
          /\ UNCHANGED <<step, submitted, stored_blocks, snapshot, mempool_file, accepted>>
        BY <1>10, Zenon DEF Restart, disk
    <2>2. TypeOK'
        BY <2>1, Zenon DEF TypeOK
    <2>3. MemoryInv' /\ FilesInv'
        BY <2>1, Zenon DEF MemoryInv, FilesInv, Idle, BlockSteps
    <2> QED  BY <2>1, <2>2, <2>3, Zenon DEF AcceptedSurvives, HistoryIsStored
<1>11. CASE UNCHANGED vars
    BY <1>11, Zenon DEF vars, memory, disk, TypeOK, MemoryInv, FilesInv, Idle,
                 AcceptedSurvives, HistoryIsStored
<1> QED  BY <1>1, <1>2, <1>4, <1>5, <1>6, <1>7, <1>8, <1>9, <1>10, <1>11, Zenon DEF Next

-----------------------------------------------------------------------------
(* Theorems.                                                               *)

(* Every reachable state satisfies the inductive invariant.                *)
THEOREM Invariance ==
    ASSUME ConsecutiveHeights
    PROVE  Spec => []IInv
<1>1. IInv /\ [Next]_vars => IInv'
    BY NextIInv, Zenon
<1> QED  BY <1>1, InitIInv, PTL DEF Spec

(* The variables of a node keep their types.                               *)
THEOREM TypeCorrectness ==
    ASSUME ConsecutiveHeights
    PROVE  Spec => []TypeOK
<1>1. IInv => TypeOK
    BY Zenon DEF IInv
<1> QED  BY <1>1, Invariance, PTL

(* Whatever is pending is admissible in the current state, whichever       *)
(* blocks the node produced or imported.                                   *)
THEOREM PendingPoolSafety ==
    ASSUME ConsecutiveHeights
    PROVE  Spec => []PendingIsAdmissible
<1>1. IInv => PendingIsAdmissible
    BY Zenon DEF IInv, MemoryInv, Reloads, Admits, PendingIsAdmissible
<1> QED  BY <1>1, Invariance, PTL

(* An acknowledged transaction is never lost: a crash between any two      *)
(* writes leaves it in mempool.bin or settled in the durable state.        *)
THEOREM AcceptedDurability ==
    ASSUME ConsecutiveHeights
    PROVE  Spec => []AcceptedSurvives
<1>1. IInv => AcceptedSurvives
    BY Zenon DEF IInv
<1> QED  BY <1>1, Invariance, PTL

(* Restarting an idle node succeeds and changes nothing.                   *)
THEOREM CleanRestart ==
    ASSUME ConsecutiveHeights
    PROVE  Spec => []IdleIsDurable
<1>1. IInv => IdleIsDurable
    BY Zenon DEF IInv, FilesInv, MemoryInv, IdleIsDurable
<1> QED  BY <1>1, Invariance, PTL

(* get_block finds every block of the durable chain under its height, and  *)
(* a crash between two files leaves at most one block that is not on it.   *)
THEOREM HistoryServed ==
    ASSUME ConsecutiveHeights
    PROVE  Spec => []HistoryIsStored
<1>1. IInv => HistoryIsStored
    BY Zenon DEF IInv, FilesInv
<1> QED  BY <1>1, Invariance, PTL

(* The durable chain is only ever extended.                                *)
THEOREM DurableChainExtension ==
    ASSUME ConsecutiveHeights
    PROVE  Spec => DurableChainGrows
<1>1. ASSUME NEW s \in ChainState
      PROVE  IsPrefixOf(s.tip, s.tip)
    <2>1. s.tip \in Seq(Block)
        BY <1>1, Zenon DEF ChainState
    <2>2. SubSeq(s.tip, 1, Len(s.tip)) = s.tip
        BY <2>1
    <2> QED  BY <2>1, <2>2 DEF IsPrefixOf
<1>2. IInv /\ [Next]_vars => [IsPrefixOf(snapshot.tip, snapshot'.tip)]_vars
    <2> SUFFICES ASSUME IInv, [Next]_vars
                 PROVE  IsPrefixOf(snapshot.tip, snapshot'.tip)
        BY Zenon
    <2>1. snapshot \in ChainState
        BY Zenon DEF IInv, TypeOK
    <2>2. CASE CommitSnapshot
        <3>1. snapshot' = state /\ Succeeds(snapshot, state)
              /\ ChainShape(state) /\ ChainShape(snapshot)
            BY <2>2, Zenon DEF CommitSnapshot, IInv, FilesInv, MemoryInv
        <3>2. snapshot.height \in Nat
            BY <2>1, NodeAssumption DEF ChainState
        <3> QED  BY <3>1, <3>2 DEF IsPrefixOf, Succeeds, ChainShape
    <2>3. CASE ~CommitSnapshot
        <3>1. snapshot' = snapshot
            BY <2>3, Zenon DEF Next, SubmitTransaction, PersistMempool, ProduceBlock, ImportBlock,
                        ValidateAndApply, CommitBlock, CommitMempool, Crash, Restart,
                        vars, disk
        <3> QED  BY <1>1, <2>1, <3>1, Zenon
    <2> QED  BY <2>2, <2>3, Zenon
<1> QED  BY <1>2, Invariance, PTL DEF Spec, DurableChainGrows

=============================================================================
