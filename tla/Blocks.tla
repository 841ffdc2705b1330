-------------------------------- MODULE Blocks --------------------------------
(***************************************************************************)
(* Blocks as detta-core builds and applies them, and the ValidatorNode     *)
(* that keeps them.  What a transaction does is given with it: the storage *)
(* entries it sets, the grants it adds and removes, its events and its     *)
(* outgoing messages (Executor and Contracts say how they come about).     *)
(* Its name stands for its hash, its nonce for its sender with its nonce,  *)
(* and its rank for the place of the three in the order blocks are filled. *)
(* The hash of a block is its header, in a sequence so that the genesis    *)
(* hash can be the empty one.  Header fields that depend on the state in   *)
(* the same way as these roots are left out.                               *)
(***************************************************************************)
EXTENDS Naturals, Sequences, FiniteSets, SequencesExt, TLC

CONSTANT BlockResourceLimit     \* DEFAULT_BLOCK_RESOURCE_LIMIT

--------------------------------------------------------------------------------
(***************************************************************************)
(* Merkle roots and the proofs that detta-core serves: inclusion of an     *)
(* element of a list at an index, inclusion of a key of a map, and absence *)
(* of a key from a map.  A map is proved as the list of its entries in key *)
(* order (a BTreeMap).  SHA-256 is the term it is taken of, so two hashes  *)
(* are equal exactly when the values are.                                  *)
(***************************************************************************)
MerkleLeaf(value) == <<"leaf", value>>
MerkleNode(left, right) == <<"node", left, right>>
EmptyRoot == <<"empty">>

\* The last node of an odd level is paired with itself.
NextMerkleLevel(level) ==
    [i \in 1..((Len(level) + 1) \div 2) |->
        MerkleNode(level[2 * i - 1],
                   IF 2 * i <= Len(level) THEN level[2 * i] ELSE level[2 * i - 1])]

MerkleLeaves(values) == [i \in 1..Len(values) |-> MerkleLeaf(values[i])]

RECURSIVE MerkleRootBytes(_)
MerkleRootBytes(level) ==
    CASE level = <<>> -> EmptyRoot
      [] Len(level) = 1 -> level[1]
      [] OTHER -> MerkleRootBytes(NextMerkleLevel(level))

MerkleRoot(values) == MerkleRootBytes(MerkleLeaves(values))

\* Mutant: the sibling of a right child is taken for a right sibling.
MerkleStepUnsided(level, index) ==
    [side |-> "Right",
     hash |-> level[1 + (IF index % 2 = 1 THEN index - 1
                         ELSE IF index + 1 < Len(level) THEN index + 1 ELSE index)]]

\* The sibling of the node at an index (from 0, as in the source) of a level.
MerkleStep(level, index) ==
    LET sibling == IF index % 2 = 1 THEN index - 1
                   ELSE IF index + 1 < Len(level) THEN index + 1 ELSE index
    IN  [side |-> IF sibling < index THEN "Left" ELSE "Right", hash |-> level[sibling + 1]]

RECURSIVE MerklePath(_, _)
MerklePath(level, index) ==
    IF Len(level) <= 1 THEN <<>>
    ELSE <<MerkleStep(level, index)>> \o MerklePath(NextMerkleLevel(level), index \div 2)

\* merkle_proof: a set with the proof, empty for an index out of range.
MerkleProof(values, index) ==
    {[root |-> MerkleRoot(values), leaf_hash |-> MerkleLeaf(values[i + 1]), index |-> i,
      leaf_count |-> Len(values), path |-> MerklePath(MerkleLeaves(values), i)] :
        i \in {index} \cap (0..Len(values) - 1)}

\* MerkleProof::verify.
Verifies(proof, value) ==
    /\ proof.leaf_hash = MerkleLeaf(value)
    /\ proof.root = FoldLeft(LAMBDA current, step :
                                 IF step.side = "Left" THEN MerkleNode(step.hash, current)
                                 ELSE MerkleNode(current, step.hash),
                             proof.leaf_hash, proof.path)

--------------------------------------------------------------------------------
(***************************************************************************)
(* Maps.  Keys are numbers, which stand for the order of the real keys.    *)
(***************************************************************************)
Entries(map) ==
    LET keys == SetToSortSeq(DOMAIN map, <)
    IN  [i \in 1..Len(keys) |-> <<keys[i], map[keys[i]]>>]

\* storage_proof and registry_proof: a set with the proof of the key's entry.
KeyProof(map, key) ==
    UNION {{[key |-> key, value |-> map[key], proof |-> p] : p \in MerkleProof(Entries(map), i - 1)} :
              i \in {j \in 1..Cardinality(DOMAIN map) : Entries(map)[j][1] = key}}

KeyProofVerifies(p) == Verifies(p.proof, <<p.key, p.value>>)

\* storage_non_inclusion_proof and registry_non_inclusion_proof: the entries
\* on both sides of where the key would be.
NonInclusionProof(map, key) ==
    LET entries == Entries(map)
        insertion == Cardinality({k \in DOMAIN map : k < key})
        EntryProof(i) == IF i \in 1..Len(entries) THEN KeyProof(map, entries[i][1]) ELSE {}
    IN  IF key \in DOMAIN map THEN {}
        ELSE {[key |-> key, root |-> MerkleRoot(entries), leaf_count |-> Len(entries),
               predecessor |-> EntryProof(insertion), successor |-> EntryProof(insertion + 1)]}

\* verify_non_inclusion, with the checks its callers make of each neighbour.
NonInclusionVerifies(p) ==
    LET Sound(q) == /\ KeyProofVerifies(q) /\ q.proof.root = p.root
                    /\ q.proof.leaf_count = p.leaf_count
        before == p.predecessor
        after == p.successor
    IN  IF p.leaf_count = 0 THEN before = {} /\ after = {} /\ p.root = EmptyRoot
        ELSE /\ before # {} \/ after # {}
             /\ \A q \in before : Sound(q) /\ q.key < p.key
             /\ \A q \in after : Sound(q) /\ p.key < q.key
             /\ \A q \in before, r \in after : q.proof.index + 1 = r.proof.index
             /\ before = {} => \A r \in after : r.proof.index = 0
             /\ after = {} => \A q \in before : q.proof.index + 1 = p.leaf_count

--------------------------------------------------------------------------------
NoEntries == [k \in {} |-> 0]

GenesisState ==
    [height |-> 0, finalized |-> <<>>, storage |-> NoEntries, registry |-> NoEntries,
     events |-> <<>>, outbox |-> <<>>, nonces |-> {}]

\* Mutant: a nonce that is used is not looked at.
ApplyTransactionReplayed(s, tx) ==
    LET used == [s EXCEPT !.nonces = @ \cup {tx.nonce}]
    IN  IF ~tx.commits THEN used
        ELSE [used EXCEPT !.storage = tx.sets @@ @, !.events = @ \o tx.events,
                          !.outbox = @ \o tx.messages]

\* apply_transaction: one whose nonce is used is rejected and does nothing;
\* any other uses its nonce, and has its effects when it commits.
ApplyTransaction(s, tx) ==
    LET used == [s EXCEPT !.nonces = @ \cup {tx.nonce}]
    IN  CASE tx.nonce \in s.nonces -> s
          [] tx.nonce \notin s.nonces /\ ~tx.commits -> used
          [] OTHER -> [used EXCEPT !.storage = tx.sets @@ @,
                                   !.registry = [g \in (DOMAIN @ \cup DOMAIN tx.grants) \ tx.revokes |->
                                                    (tx.grants @@ @)[g]],
                                   !.events = @ \o tx.events,
                                   !.outbox = @ \o tx.messages]
Execute(s, height, txs) == FoldLeft(ApplyTransaction, [s EXCEPT !.height = height], txs)

Receipt(s, tx) ==
    [tx |-> tx.name,
     status |-> CASE tx.nonce \in s.nonces -> "Rejected"
                  [] tx.nonce \notin s.nonces /\ tx.commits -> "Committed"
                  [] OTHER -> "Reverted"]
\* The receipts of a block: each of the state its predecessors leave.
Receipts(s, txs) ==
    [i \in 1..Len(txs) |-> Receipt(Execute(s, s.height, SubSeq(txs, 1, i - 1)), txs[i])]

\* The header of the block that takes s on by txs.
HeaderOf(s, height, txs, proposer) ==
    LET after == Execute(s, height, txs)
    IN  [height |-> height, previous_block_hash |-> s.finalized, proposer |-> proposer,
         tx_root |-> MerkleRoot(txs), receipt_root |-> MerkleRoot(Receipts(s, txs)),
         storage_root |-> MerkleRoot(Entries(after.storage)),
         registry_root |-> MerkleRoot(Entries(after.registry)),
         event_root |-> MerkleRoot(after.events), nonce_root |-> after.nonces,
         outbox_root |-> MerkleRoot(after.outbox)]

BuildBlock(s, height, txs, proposer) ==
    [header |-> HeaderOf(s, height, txs, proposer),
     transactions |-> txs, receipts |-> Receipts(s, txs)]

BlockHash(b) == <<b.header>>

ResourceUnits(txs) == FoldLeft(LAMBDA n, tx : n + tx.units, 0, txs)

\* The checks of validate_and_apply and apply_block.
Accepts(s, b) ==
    /\ ResourceUnits(b.transactions) <= BlockResourceLimit
    /\ b.header.previous_block_hash = s.finalized
    /\ b.receipts = Receipts(s, b.transactions)
    /\ b.header = HeaderOf(s, b.header.height, b.transactions, b.header.proposer)

ApplyBlock(s, b) ==
    [Execute(s, b.header.height, b.transactions) EXCEPT !.finalized = BlockHash(b)]

\* A ValidatorNode: its state, the pending transactions of its mempool, the
\* blocks it has applied, by height, and the transactions and receipts in
\* them, by name; a later one replaces an earlier.
NewNode(s) ==
    [state |-> s, pending |-> {}, blocks |-> NoEntries, transactions |-> NoEntries,
     receipts |-> NoEntries]

\* Mempool::submit, the refusals that depend on what was submitted before;
\* its limits and expiry are in PersistentNode.
SubmitError(node, tx) ==
    LET duplicate == \E t \in node.pending : t.name = tx.name
    IN  CASE duplicate -> "mempool.duplicate_transaction"
          [] ~duplicate /\ tx.nonce \in node.state.nonces -> "mempool.nonce_already_used"
          [] OTHER -> "ok"
Submit(node, tx) ==
    IF SubmitError(node, tx) = "ok" THEN [node EXCEPT !.pending = @ \cup {tx}] ELSE node

\* drain_ordered_with_resource_limit: in order, whatever still fits.
Selected(pending) ==
    FoldLeft(LAMBDA chosen, tx : IF ResourceUnits(Append(chosen, tx)) <= BlockResourceLimit
                                 THEN Append(chosen, tx) ELSE chosen,
             <<>>, SetToSortSeq(pending, LAMBDA t, u : t.rank < u.rank))

TransactionIndex(txs) == FoldLeft(LAMBDA index, tx : (tx.name :> tx) @@ index, NoEntries, txs)
ReceiptIndex(receipts) == FoldLeft(LAMBDA index, r : (r.tx :> r) @@ index, NoEntries, receipts)

ValidateAndApply(node, b) ==
    [state |-> ApplyBlock(node.state, b),
     pending |-> {tx \in node.pending : tx.nonce \notin ApplyBlock(node.state, b).nonces},
     blocks |-> (b.header.height :> b) @@ node.blocks,
     transactions |-> TransactionIndex(b.transactions) @@ node.transactions,
     receipts |-> ReceiptIndex(b.receipts) @@ node.receipts]

\* blocks_from.
BlocksFrom(node, start, limit) ==
    LET heights == SetToSortSeq({h \in DOMAIN node.blocks : h >= start}, <)
    IN  [i \in 1..(IF Len(heights) < limit THEN Len(heights) ELSE limit) |->
            node.blocks[heights[i]]]

\* The headers of the chain a block hash stands for, the first one first.
RECURSIVE HeadersTo(_)
HeadersTo(hash) ==
    IF hash = <<>> THEN <<>> ELSE Append(HeadersTo(hash[1].previous_block_hash), hash[1])
================================================================================
