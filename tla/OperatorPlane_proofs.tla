-------------------------- MODULE OperatorPlane_proofs --------------------------
(***************************************************************************)
(* Proofs of the safety properties of OperatorPlane, for any number of     *)
(* nodes and validators, any envelopes, requests, blocks and limits, and   *)
(* any number of crashes and failed writes.                                *)
(*                                                                         *)
(* The inductive invariant speaks of the commits still to come: work[n] is *)
(* a path of files and memories that starts where the node is, every step  *)
(* of which does only what the properties allow a step to do, and at whose *)
(* end, as long as nothing has failed, the node is settled.  A commit      *)
(* takes the first step of the path, a crash or a failed write forgets it, *)
(* and an operation starts one; so the proof is, for each operation, that  *)
(* the steps it lists are such a path.                                     *)
(***************************************************************************)
EXTENDS OperatorPlane, FiniteSetTheorems, SequenceTheorems, WellFoundedInduction, TLAPS

--------------------------------------------------------------------------------
(***************************************************************************)
(* The operations of a node as paths.  An operation lists the files it     *)
(* will commit, one after the other, with the memory that goes with each.  *)
(* Such a list is a path when every step of it does only what the          *)
(* properties of OperatorPlane allow a step to do.  For each operation:    *)
(* what it lists is a path that starts where the node is, and whose end is *)
(* settled when its start was.                                             *)
(***************************************************************************)
\* A list is a sequence of its own elements.
IsList(s) == s \in Seq({s[i] : i \in DOMAIN s})

\* A pool: finitely many authorizations, by numbered validators, of updates
\* that add finitely many; those of one update id with one content and at
\* most one by each validator.
IsPool(pool) ==
    /\ IsFiniteSet(pool)
    /\ \A a \in pool : a.signer \in Nat /\ IsFiniteSet(DOMAIN a.message.update.add)
    /\ \A a, b \in pool : a.message.update.update_id = b.message.update.update_id =>
          /\ a.message.update = b.message.update
          /\ a.signer = b.signer => a = b

DiskFields ==
    {"snapshot", "keyring", "applied", "pending", "audit", "roots", "required", "imports",
     "import_config", "metrics", "blocks", "certificates", "slashings", "network", "mempool"}

MemFields ==
    {"up", "height", "keyring", "applied", "pending", "max_updates", "max_per_validator",
     "max_audit", "max_imports", "peers", "errors", "calling", "network", "mempool"}

AreFiles(d) ==
    /\ DOMAIN d = DiskFields
    /\ d.snapshot \in Nat
    /\ d.import_config \subseteq Nat
    /\ IsList(d.imports)
    /\ IsPool(d.pending)
    /\ IsFiniteSet(DOMAIN d.keyring)

IsMemory(m) ==
    /\ DOMAIN m = MemFields
    /\ m.height \in Nat
    /\ m.max_imports \in Nat
    /\ IsPool(m.pending)
    /\ IsFiniteSet(DOMAIN m.keyring)

\* Memory follows the file of the keyring and the applied updates.
Together(d, m) == Follows(m, d)

\* A node that is up with files d and memory m.
Sound(d, m) == AreFiles(d) /\ IsMemory(m) /\ Together(d, m) /\ m.up

\* What UpdatesAreAuthorised says of a commit that leaves the files e to a
\* node with files d and memory m.
Authorised(d, m, e) ==
    \/ e.network = d.network /\ e.keyring = d.keyring /\ e.applied = d.applied
    \/ FromUpdate(m, m.pending, Quorum(m.keyring), e)
    \/ \E messages \in Batches : \E quorum \in Quorums \cup {Quorum(m.keyring)} :
          FromUpdate(m, messages, quorum, e)
    \/ \E v \in ValidatorSets : e.network = v.network /\ e.keyring = v.keyring /\ e.applied = {}

\* What ImportsAreGenuine says of it, when the manifests S have been served.
Genuine(d, e, S) ==
    e.imports \notin {d.imports, <<>>} =>
        LET r == e.imports[Len(e.imports)] IN
        /\ r.manifest \in S
        /\ d.snapshot = r.root /\ r.root = r.manifest.root
        /\ d.roots = r.manifest.metadata_roots
        /\ d.required = r.required
        /\ RootsMatch(r.manifest, r.required)

Lawful(d, m, e, S) == Authorised(d, m, e) /\ Genuine(d, e, S)

\* Where the step w[i] of a path w from files d and memory m starts.
FilesAt(d, w, i) == IF i = 1 THEN d ELSE w[i - 1].disk
MemoryAt(m, w, i) == IF i = 1 THEN m ELSE w[i - 1].mem

Path(d, m, w, S) ==
    /\ IsList(w)
    /\ \A i \in 1..Len(w) :
          /\ Sound(w[i].disk, w[i].mem)
          /\ Lawful(FilesAt(d, w, i), MemoryAt(m, w, i), w[i].disk, S)

\* Every stored root is the root of the node's own records or came with a
\* manifest that was served.
RootsExplained(d, S) ==
    \A k \in DOMAIN d.roots :
        \/ k = "validator_set_audit" /\ d.roots[k] = d.audit
        \/ \E manifest \in S : /\ k \in DOMAIN manifest.metadata_roots
                               /\ d.roots[k] = manifest.metadata_roots[k]

\* The updates that may be applied by hand, which leaves the pool alone.
ByHand == UNION {UpdateIds(messages) : messages \in Batches}

NoneApplied(m) ==
    \A a \in m.pending : a.message.update.update_id \in m.applied =>
                            a.message.update.update_id \in ByHand

Settled(d, m, S) == RootsExplained(d, S) /\ NoneApplied(m)

\* The end of a path.
EndsSettled(d, m, w, S) ==
    Settled(FilesAt(d, w, Len(w) + 1), MemoryAt(m, w, Len(w) + 1), S)

--------------------------------------------------------------------------------
(***************************************************************************)
(* Lemmas about numbers, lists and pools.                                  *)
(***************************************************************************)

\* A set of natural numbers that is not empty has a least element, which is
\* what makes "the first in the order of the map" the name of something.
LEMMA LeastNatural ==
    ASSUME NEW S, S \subseteq Nat, S # {}
    PROVE  \E x \in S : \A y \in S : x <= y
<1> DEFINE Less == {p \in Nat \X Nat : p[1] < p[2]}
<1>1. IsWellFoundedOn(Less, Nat)
  <2>1. Less = OpToRel(<, Nat)
    BY Zenon DEF OpToRel
  <2> QED BY <2>1, NatLessThanWellFounded, Zenon
<1>2. \A x, y \in Nat : x < y => <<x, y>> \in Less
  BY Zenon
<1> HIDE DEF Less
<1>3. \E x \in S : \A y \in S : ~ (<<y, x>> \in Less)
  BY <1>1, WFMin, Zenon
<1>4. PICK x \in S : \A y \in S : ~ (<<y, x>> \in Less)
  BY <1>3, Zenon
<1>5. \A y \in S : ~(y < x)
  BY <1>2, <1>4, Zenon
<1>6. \A y \in S : x <= y
  BY <1>5
<1> QED BY <1>6, Zenon

\* A set of heights up to n that is not empty has a greatest element
\* (highest_finalized_height).
LEMMA GreatestHeight ==
    ASSUME NEW n \in Nat, NEW S, S \subseteq 1..n, S # {}
    PROVE  \E x \in S : \A y \in S : y <= x
<1> DEFINE T == {n - x : x \in S}
<1>1. T \subseteq Nat /\ T # {}
  <2>1. \A x \in S : n - x \in Nat
    OBVIOUS
  <2> QED BY <2>1, Zenon
<1>2. PICK t \in T : \A u \in T : t <= u
  BY <1>1, LeastNatural, Zenon
<1>3. PICK x \in S : t = n - x
  BY <1>2, Zenon
<1>4. \A y \in S : y <= x
  <2> TAKE y \in S
  <2>1. n - x <= n - y
    BY <1>2, <1>3, Zenon
  <2> QED BY <2>1
<1> QED BY <1>4, Zenon

\* A sequence over any set is a list.
LEMMA SequenceIsList ==
    ASSUME NEW S, NEW s \in Seq(S)
    PROVE  IsList(s)
<1>1. Len(s) \in Nat /\ DOMAIN s = 1..Len(s) /\ s \in [1..Len(s) -> S]
  BY LenProperties, Zenon
<1> DEFINE R == {s[i] : i \in DOMAIN s}
<1>2. s \in [1..Len(s) -> R]
  BY <1>1, Zenon
<1>3. s \in Seq(R)
  BY <1>1, <1>2, SeqDef
<1> QED BY <1>3, Zenon DEF IsList

\* append_..._with_retention keeps the newest records: what it leaves is
\* empty, under a limit of zero, or ends with the record appended.
LEMMA RetentionKeepsNewest ==
    ASSUME NEW records, IsList(records), NEW record, NEW max \in Nat
    PROVE  LET kept == AppendWithRetention(records, record, max)
           IN  IsList(kept) /\ (kept = <<>> \/ kept[Len(kept)] = record)
<1> DEFINE S == {records[i] : i \in DOMAIN records} \cup {record}
           all == Append(records, record)
           kept == AppendWithRetention(records, record, max)
<1>1. records \in Seq(S)
  BY SeqMonotonic, Zenon DEF IsList
<1>2. all \in Seq(S) /\ Len(all) = Len(records) + 1 /\ all[Len(records) + 1] = record
  BY <1>1, AppendProperties
<1>3. Len(records) \in Nat
  BY <1>1, LenProperties, Zenon
<1> HIDE DEF all, S
<1>4. CASE Len(all) > max
  <2> DEFINE first == Len(all) - max + 1
  <2>1. kept = SubSeq(all, first, Len(all))
    BY <1>4, Zenon DEF AppendWithRetention, Retained, all
  <2>2. first \in Nat /\ first >= 1
    BY <1>2, <1>3, <1>4
  <2>3. \A i \in first..Len(all) : all[i] \in S
    BY <1>2, <1>3, <2>2, ElementOfSeq
  <2>4. /\ kept \in Seq(S)
        /\ Len(kept) = IF first <= Len(all) THEN Len(all) - first + 1 ELSE 0
        /\ \A i \in 1..(Len(all) - first + 1) : kept[i] = all[first + i - 1]
    BY <1>2, <1>3, <2>1, <2>2, <2>3, SubSeqProperties
  <2>5. CASE max = 0
    <3>1. kept = <<>>
      BY <1>2, <1>3, <2>1, <2>5, SubSeqEmpty
    <3> QED BY <2>4, <3>1, SequenceIsList, Zenon
  <2>6. CASE max # 0
    <3> HIDE DEF kept
    <3>1. /\ first <= Len(all) /\ Len(all) - first + 1 = max /\ first + max - 1 = Len(all)
          /\ max \in 1..(Len(all) - first + 1)
      BY <1>2, <1>3, <1>4, <2>6
    <3> HIDE DEF first
    <3>2. Len(kept) = max /\ kept[max] = all[Len(all)]
      BY <2>4, <3>1, Zenon
    <3> QED BY <1>2, <2>4, <3>2, SequenceIsList, Zenon DEF kept
  <2> QED BY <2>5, <2>6, Zenon
<1>5. CASE ~(Len(all) > max)
  <2>1. kept = all
    BY <1>5, Zenon DEF AppendWithRetention, Retained, all
  <2> QED BY <1>2, <2>1, SequenceIsList, Zenon
<1> QED BY <1>4, <1>5, Zenon

\* authorizations.values().next() of an update that has authorizations is
\* one of them.
LEMMA FirstIsOne ==
    ASSUME NEW held, \A a \in held : a.signer \in Nat, held # {}
    PROVE  FirstOf(held) \in held /\ \A b \in held : FirstOf(held).signer <= b.signer
<1> DEFINE signers == {a.signer : a \in held}
<1>1. signers \subseteq Nat /\ signers # {}
  OBVIOUS
<1>2. PICK s \in signers : \A t \in signers : s <= t
  BY <1>1, LeastNatural, Zenon
<1>3. \E a \in held : \A b \in held : a.signer <= b.signer
  BY <1>2, Zenon
<1> QED BY <1>3, Zenon DEF FirstOf

LEMMA FirstIsHeld ==
    ASSUME NEW pool, IsPool(pool), NEW held, held \subseteq pool, held # {}
    PROVE  FirstOf(held) \in held
<1>1. \A a \in held : a.signer \in Nat
  BY Zenon DEF IsPool
<1> QED BY <1>1, FirstIsOne, Zenon

\* The update ids of a pool are finitely many.
LEMMA FinitelyManyUpdates ==
    ASSUME NEW pool, IsFiniteSet(pool)
    PROVE  IsFiniteSet(UpdateIds(pool)) /\ Cardinality(UpdateIds(pool)) \in Nat
<1> DEFINE f == [a \in pool |-> a.message.update.update_id]
<1>1. f \in Surjection(pool, UpdateIds(pool))
  BY Zenon DEF Surjection, UpdateIds
<1> QED BY <1>1, FS_Surjection, FS_CardinalityType, Zenon

\* Of the ways an insertion can be refused, restart meets only the two limits.
LEMMA RefusedByLimit ==
    ASSUME NEW d, AreFiles(d), \A a \in d.pending : Verified(d, a),
           NEW a \in LiveStored(d), NEW m,
           m.pending = {b \in LiveStored(d) : Precedes(b, a)},
           m.network = d.network /\ m.keyring = d.keyring, m.height = d.snapshot, m.applied = d.applied,
           m.max_updates = DefaultMaxUpdates, m.max_per_validator = DefaultMaxPerValidator,
           InsertOutcome(m, a) # "ok"
    PROVE  \/ Cardinality(UpdateIds(LiveStored(d))) > DefaultMaxUpdates
           \/ Cardinality({b \in LiveStored(d) : b.signer = a.signer}) > DefaultMaxPerValidator
<1> DEFINE live == LiveStored(d)
           id == a.message.update.update_id
           same == ForUpdate(m.pending, id)
           mine == {b \in m.pending : b.signer = a.signer}
<1>1. /\ live \subseteq d.pending /\ m.pending \subseteq live /\ a \in live
      /\ id \notin d.applied /\ ~Expired(a.message.update, d.snapshot)
  BY Zenon DEF LiveStored
<1>2. IsPool(d.pending) /\ IsFiniteSet(live)
  BY <1>1, FS_Subset, Zenon DEF AreFiles, IsPool
<1>3. same \subseteq m.pending /\ \A b \in same : b.message.update.update_id = id
  BY Zenon DEF ForUpdate
<1>4. same # {} => /\ Verified(d, FirstOf(same))
                   /\ FirstOf(same).message.update = a.message.update
  <2> HAVE same # {}
  <2>1. same \subseteq d.pending
    BY <1>1, <1>3, Zenon
  <2> HIDE DEF same
  <2>2. FirstOf(same) \in same
    BY <1>2, <2>1, FirstIsHeld, Zenon
  <2> QED BY <1>1, <1>2, <1>3, <2>1, <2>2, Zenon DEF IsPool
<1>8. \A b : Verified(m, b) <=> Verified(d, b)
  BY Zenon DEF Verified, VerifiedMessage
<1>9. Verified(m, a) /\ (same # {} => Verified(m, FirstOf(same)))
  BY <1>1, <1>4, <1>8, Zenon
<1>5. \/ same = {} /\ Cardinality(UpdateIds(m.pending)) >= DefaultMaxUpdates
      \/ mine \cap same = {} /\ Cardinality(mine) >= DefaultMaxPerValidator
  BY <1>1, <1>4, <1>9, Zenon DEF InsertOutcome
<1>6. CASE same = {} /\ Cardinality(UpdateIds(m.pending)) >= DefaultMaxUpdates
  <2> DEFINE ids == UpdateIds(m.pending)
  <2>1. IsFiniteSet(m.pending)
    BY <1>1, <1>2, FS_Subset, Zenon
  <2>2. IsFiniteSet(ids) /\ Cardinality(ids) \in Nat /\ IsFiniteSet(UpdateIds(live))
    BY <1>2, <2>1, FinitelyManyUpdates, Zenon
  <2>3. id \notin ids
    BY <1>6, Zenon DEF UpdateIds, ForUpdate
  <2>4. ids \cup {id} \subseteq UpdateIds(live)
    BY <1>1, Zenon DEF UpdateIds
  <2>5. Cardinality(ids \cup {id}) = Cardinality(ids) + 1
    BY <2>2, <2>3, FS_AddElement, Zenon
  <2>6. Cardinality(ids \cup {id}) <= Cardinality(UpdateIds(live)) /\ Cardinality(UpdateIds(live)) \in Nat
    BY <2>2, <2>4, FS_Subset, FS_CardinalityType, Zenon
  <2> HIDE DEF ids, live
  <2> QED BY <1>6, <2>2, <2>5, <2>6, NodeAssumption DEF live, ids
<1>7. CASE mine \cap same = {} /\ Cardinality(mine) >= DefaultMaxPerValidator
  <2> DEFINE all == {b \in live : b.signer = a.signer}
  <2>1. mine \cup {a} \subseteq all /\ all \subseteq live
    BY <1>1, Zenon
  <2>2. a \notin mine
    BY <1>7, Zenon DEF ForUpdate
  <2> HIDE DEF mine, all, live
  <2>3. IsFiniteSet(all) /\ mine \subseteq all
    BY <1>2, <2>1, FS_Subset, Zenon
  <2>4. IsFiniteSet(mine) /\ Cardinality(mine) \in Nat /\ Cardinality(all) \in Nat
    BY <2>3, FS_Subset, FS_CardinalityType, Zenon
  <2>5. Cardinality(mine \cup {a}) = Cardinality(mine) + 1
    BY <2>2, <2>4, FS_AddElement, Zenon
  <2>6. Cardinality(mine \cup {a}) <= Cardinality(all)
    BY <2>1, <2>3, FS_Subset, Zenon
  <2>7. Cardinality(all) > DefaultMaxPerValidator
    BY <1>7, <2>4, <2>5, <2>6, NodeAssumption
  <2> QED BY <2>7, Zenon DEF all, live
<1> QED BY <1>5, <1>6, <1>7, Zenon

\* Whether memory follows the file is a matter of the network id, the keyring
\* and the applied updates of both.
LEMMA TogetherSame ==
    ASSUME NEW d, NEW m, Together(d, m), NEW e, NEW k,
           e.network = d.network, e.keyring = d.keyring, e.applied = d.applied,
           k.network = m.network, k.keyring = m.keyring, k.applied = m.applied
    PROVE  Together(e, k)
BY Zenon DEF Together, Follows

LEMMA TogetherEqual ==
    ASSUME NEW d, NEW m, m.network = d.network, m.keyring = d.keyring, m.applied = d.applied
    PROVE  Together(d, m)
BY Zenon DEF Together, Follows

\* A part of a pool is a pool.
LEMMA PartOfPool ==
    ASSUME NEW pool, IsPool(pool), NEW part, part \subseteq pool
    PROVE  IsPool(part)
BY FS_Subset, Zenon DEF IsPool

--------------------------------------------------------------------------------
(***************************************************************************)
(* Lemmas about paths.                                                     *)
(***************************************************************************)

\* A commit that leaves the keyring, the applied updates and the import
\* records as they are is lawful whatever else it writes.
LEMMA QuietIsLawful ==
    ASSUME NEW d, NEW m, NEW e, NEW S,
           e.network = d.network /\ e.keyring = d.keyring, e.applied = d.applied, e.imports = d.imports
    PROVE  Lawful(d, m, e, S)
BY Zenon DEF Lawful, Authorised, Genuine

\* An operation with nothing to write ends where it starts.
LEMMA EmptyPath ==
    ASSUME NEW d, NEW m, NEW S
    PROVE  Path(d, m, <<>>, S) /\ (EndsSettled(d, m, <<>>, S) <=> Settled(d, m, S))
<1>1. <<>> \in Seq({}) /\ Len(<<>>) = 0
  BY EmptySeq, Zenon
<1>2. IsList(<<>>)
  BY <1>1, SequenceIsList, Zenon
<1> QED BY <1>1, <1>2 DEF Path, EndsSettled, FilesAt, MemoryAt

\* A path lists sound states.
LEMMA PathIsSequence ==
    ASSUME NEW d, NEW m, NEW w, NEW S, Path(d, m, w, S)
    PROVE  Len(w) \in Nat /\ w \in Seq({w[i] : i \in DOMAIN w}) /\ DOMAIN w = 1..Len(w)
BY LenProperties, Zenon DEF Path, IsList

\* Commit: the first step of a path is lawful, and the rest is a path from
\* where it leads, to the same end.
LEMMA PathAfterCommit ==
    ASSUME NEW d, NEW m, NEW w, NEW S, Path(d, m, w, S), w # <<>>
    PROVE  /\ Sound(Head(w).disk, Head(w).mem)
           /\ Lawful(d, m, Head(w).disk, S)
           /\ Path(Head(w).disk, Head(w).mem, Tail(w), S)
           /\ EndsSettled(Head(w).disk, Head(w).mem, Tail(w), S) <=> EndsSettled(d, m, w, S)
<1> DEFINE R == {w[i] : i \in DOMAIN w}
<1>1. Len(w) \in Nat /\ w \in Seq(R)
  BY PathIsSequence, Zenon
<1> HIDE DEF R
<1>2. Len(w) >= 1 /\ Head(w) = w[1]
  BY <1>1, EmptySeq
<1>3. /\ Tail(w) \in Seq(R) /\ Len(Tail(w)) = Len(w) - 1
      /\ \A i \in 1..Len(Tail(w)) : Tail(w)[i] = w[i + 1]
  BY <1>1, HeadTailProperties, Zenon
<1>4. Sound(Head(w).disk, Head(w).mem) /\ Lawful(d, m, Head(w).disk, S)
  <2>1. Sound(w[1].disk, w[1].mem) /\ Lawful(FilesAt(d, w, 1), MemoryAt(m, w, 1), w[1].disk, S)
    BY <1>1, <1>2 DEF Path
  <2> QED BY <1>2, <2>1, Zenon DEF FilesAt, MemoryAt
<1>5. \A i \in 1..(Len(Tail(w)) + 1) :
         /\ FilesAt(Head(w).disk, Tail(w), i) = FilesAt(d, w, i + 1)
         /\ MemoryAt(Head(w).mem, Tail(w), i) = MemoryAt(m, w, i + 1)
  <2> TAKE i \in 1..(Len(Tail(w)) + 1)
  <2>1. CASE i = 1
    BY <1>2, <2>1 DEF FilesAt, MemoryAt
  <2>2. CASE i # 1
    <3>1. i - 1 \in 1..Len(Tail(w)) /\ (i - 1) + 1 = i /\ (i + 1) - 1 = i /\ i + 1 # 1
      BY <1>1, <1>3, <2>2
    <3>2. Tail(w)[i - 1] = w[i]
      BY <1>3, <3>1, Zenon
    <3> QED BY <2>2, <3>1, <3>2, Zenon DEF FilesAt, MemoryAt
  <2> QED BY <2>1, <2>2, Zenon
<1>6. Path(Head(w).disk, Head(w).mem, Tail(w), S)
  <2>1. IsList(Tail(w))
    BY <1>3, SequenceIsList, Zenon
  <2>2. ASSUME NEW i \in 1..Len(Tail(w))
        PROVE  /\ Sound(Tail(w)[i].disk, Tail(w)[i].mem)
               /\ Lawful(FilesAt(Head(w).disk, Tail(w), i), MemoryAt(Head(w).mem, Tail(w), i),
                         Tail(w)[i].disk, S)
    <3>1. i + 1 \in 1..Len(w) /\ i \in 1..(Len(Tail(w)) + 1)
      BY <1>1, <1>3
    <3>2. /\ Sound(w[i + 1].disk, w[i + 1].mem)
          /\ Lawful(FilesAt(d, w, i + 1), MemoryAt(m, w, i + 1), w[i + 1].disk, S)
      BY <3>1, Zenon DEF Path
    <3> QED BY <1>3, <1>5, <3>1, <3>2, Zenon
  <2> QED BY <2>1, <2>2, Zenon DEF Path
<1>7. EndsSettled(Head(w).disk, Head(w).mem, Tail(w), S) <=> EndsSettled(d, m, w, S)
  <2>1. Len(Tail(w)) + 1 \in 1..(Len(Tail(w)) + 1) /\ (Len(Tail(w)) + 1) + 1 = Len(w) + 1
    BY <1>1, <1>2, <1>3
  <2> QED BY <1>5, <2>1, Zenon DEF EndsSettled
<1> QED BY <1>4, <1>6, <1>7, Zenon

\* Manifests served later do no harm.
LEMMA ServedGrows ==
    ASSUME NEW d, NEW m, NEW w, NEW S, NEW T, S \subseteq T
    PROVE  /\ Path(d, m, w, S) => Path(d, m, w, T)
           /\ EndsSettled(d, m, w, S) => EndsSettled(d, m, w, T)
<1>1. \A x, y, z : Lawful(x, y, z, S) => Lawful(x, y, z, T)
  BY Zenon DEF Lawful, Genuine
<1>2. \A x, y : Settled(x, y, S) => Settled(x, y, T)
  BY Zenon DEF Settled, RootsExplained
<1>3. Path(d, m, w, S) => Path(d, m, w, T)
  BY <1>1, Zenon DEF Path
<1>4. EndsSettled(d, m, w, S) => EndsSettled(d, m, w, T)
  BY <1>2, Zenon DEF EndsSettled
<1> QED BY <1>3, <1>4, Zenon

\* Operations with one, two, three and four files to write.
LEMMA OneStep ==
    ASSUME NEW d, NEW m, NEW S, NEW e, NEW k, Sound(e, k), Lawful(d, m, e, S)
    PROVE  /\ Path(d, m, <<Step(e, k)>>, S)
           /\ EndsSettled(d, m, <<Step(e, k)>>, S) <=> Settled(e, k, S)
<1> DEFINE w == <<Step(e, k)>>
<1>1. w \in Seq({Step(e, k)}) /\ Len(w) = 1 /\ w[1] = Step(e, k)
  OBVIOUS
<1>2. Step(e, k).disk = e /\ Step(e, k).mem = k
  BY Zenon DEF Step
<1> HIDE DEF w
<1>3. IsList(w)
  BY <1>1, SequenceIsList, Zenon
<1>4. Path(d, m, w, S)
  BY <1>1, <1>2, <1>3 DEF Path, FilesAt, MemoryAt
<1>5. EndsSettled(d, m, w, S) <=> Settled(e, k, S)
  BY <1>1, <1>2 DEF EndsSettled, FilesAt, MemoryAt
<1> QED BY <1>4, <1>5, Zenon DEF w

LEMMA TwoSteps ==
    ASSUME NEW d, NEW m, NEW S, NEW e1, NEW k1, NEW e2, NEW k2,
           Sound(e1, k1), Lawful(d, m, e1, S), Sound(e2, k2), Lawful(e1, k1, e2, S)
    PROVE  /\ Path(d, m, <<Step(e1, k1), Step(e2, k2)>>, S)
           /\ EndsSettled(d, m, <<Step(e1, k1), Step(e2, k2)>>, S) <=> Settled(e2, k2, S)
<1> DEFINE w == <<Step(e1, k1), Step(e2, k2)>>
<1>1. /\ w \in Seq({Step(e1, k1), Step(e2, k2)}) /\ Len(w) = 2
      /\ w[1] = Step(e1, k1) /\ w[2] = Step(e2, k2)
  OBVIOUS
<1>2. \A e, k : Step(e, k).disk = e /\ Step(e, k).mem = k
  BY Zenon DEF Step
<1> HIDE DEF w
<1>3. IsList(w)
  BY <1>1, SequenceIsList, Zenon
<1>4. Path(d, m, w, S)
  <2>1. \A i \in 1..2 : i = 1 \/ i = 2
    OBVIOUS
  <2> QED BY <1>1, <1>2, <1>3, <2>1 DEF Path, FilesAt, MemoryAt
<1>5. EndsSettled(d, m, w, S) <=> Settled(e2, k2, S)
  BY <1>1, <1>2 DEF EndsSettled, FilesAt, MemoryAt
<1> QED BY <1>4, <1>5, Zenon DEF w

LEMMA ThreeSteps ==
    ASSUME NEW d, NEW m, NEW S,
           NEW e1, NEW k1, Sound(e1, k1), Lawful(d, m, e1, S),
           NEW e2, NEW k2, Sound(e2, k2), Lawful(e1, k1, e2, S),
           NEW e3, NEW k3, Sound(e3, k3), Lawful(e2, k2, e3, S)
    PROVE  LET w == <<Step(e1, k1), Step(e2, k2), Step(e3, k3)>>
           IN  Path(d, m, w, S) /\ (EndsSettled(d, m, w, S) <=> Settled(e3, k3, S))
<1> DEFINE w == <<Step(e1, k1), Step(e2, k2), Step(e3, k3)>>
<1>1. /\ w \in Seq({Step(e1, k1), Step(e2, k2), Step(e3, k3)}) /\ Len(w) = 3
      /\ w[1] = Step(e1, k1) /\ w[2] = Step(e2, k2) /\ w[3] = Step(e3, k3)
  OBVIOUS
<1>2. \A e, k : Step(e, k).disk = e /\ Step(e, k).mem = k
  BY Zenon DEF Step
<1> HIDE DEF w
<1>3. IsList(w)
  BY <1>1, SequenceIsList, Zenon
<1>4. Path(d, m, w, S)
  <2>1. \A i \in 1..3 : i = 1 \/ i = 2 \/ i = 3
    OBVIOUS
  <2>2. /\ FilesAt(d, w, 1) = d /\ FilesAt(d, w, 2) = e1 /\ FilesAt(d, w, 3) = e2
        /\ MemoryAt(m, w, 1) = m /\ MemoryAt(m, w, 2) = k1 /\ MemoryAt(m, w, 3) = k2
    BY <1>1, <1>2 DEF FilesAt, MemoryAt
  <2> QED BY <1>1, <1>2, <1>3, <2>1, <2>2 DEF Path
<1>5. EndsSettled(d, m, w, S) <=> Settled(e3, k3, S)
  BY <1>1, <1>2 DEF EndsSettled, FilesAt, MemoryAt
<1> QED BY <1>4, <1>5, Zenon DEF w

LEMMA FourSteps ==
    ASSUME NEW d, NEW m, NEW S,
           NEW e1, NEW k1, Sound(e1, k1), Lawful(d, m, e1, S),
           NEW e2, NEW k2, Sound(e2, k2), Lawful(e1, k1, e2, S),
           NEW e3, NEW k3, Sound(e3, k3), Lawful(e2, k2, e3, S),
           NEW e4, NEW k4, Sound(e4, k4), Lawful(e3, k3, e4, S)
    PROVE  LET w == <<Step(e1, k1), Step(e2, k2), Step(e3, k3), Step(e4, k4)>>
           IN  Path(d, m, w, S) /\ (EndsSettled(d, m, w, S) <=> Settled(e4, k4, S))
<1> DEFINE w == <<Step(e1, k1), Step(e2, k2), Step(e3, k3), Step(e4, k4)>>
<1>1. /\ w \in Seq({Step(e1, k1), Step(e2, k2), Step(e3, k3), Step(e4, k4)}) /\ Len(w) = 4
      /\ w[1] = Step(e1, k1) /\ w[2] = Step(e2, k2) /\ w[3] = Step(e3, k3) /\ w[4] = Step(e4, k4)
  OBVIOUS
<1>2. \A e, k : Step(e, k).disk = e /\ Step(e, k).mem = k
  BY Zenon DEF Step
<1> HIDE DEF w
<1>3. IsList(w)
  BY <1>1, SequenceIsList, Zenon
<1>4. Path(d, m, w, S)
  <2>1. \A i \in 1..4 : i = 1 \/ i = 2 \/ i = 3 \/ i = 4
    OBVIOUS
  <2>2. /\ FilesAt(d, w, 1) = d /\ FilesAt(d, w, 2) = e1 /\ FilesAt(d, w, 3) = e2
        /\ FilesAt(d, w, 4) = e3
        /\ MemoryAt(m, w, 1) = m /\ MemoryAt(m, w, 2) = k1 /\ MemoryAt(m, w, 3) = k2
        /\ MemoryAt(m, w, 4) = k3
    BY <1>1, <1>2 DEF FilesAt, MemoryAt
  <2> QED BY <1>1, <1>2, <1>3, <2>1, <2>2 DEF Path
<1>5. EndsSettled(d, m, w, S) <=> Settled(e4, k4, S)
  BY <1>1, <1>2 DEF EndsSettled, FilesAt, MemoryAt
<1> QED BY <1>4, <1>5, Zenon DEF w

\* An operation that goes on with another one after its first file.
LEMMA StepThenPath ==
    ASSUME NEW d, NEW m, NEW S, NEW e, NEW k, Sound(e, k), Lawful(d, m, e, S),
           NEW rest, Path(e, k, rest, S)
    PROVE  /\ Path(d, m, <<Step(e, k)>> \o rest, S)
           /\ <<Step(e, k)>> \o rest # <<>>
           /\ EndsSettled(d, m, <<Step(e, k)>> \o rest, S) <=> EndsSettled(e, k, rest, S)
<1> DEFINE w == <<Step(e, k)>> \o rest
           R == {rest[i] : i \in DOMAIN rest}
           T == R \cup {Step(e, k)}
<1>1. Len(rest) \in Nat /\ rest \in Seq(R)
  BY PathIsSequence, Zenon
<1>2. rest \in Seq(T) /\ <<Step(e, k)>> \in Seq(T) /\ Len(<<Step(e, k)>>) = 1
  BY <1>1, SeqMonotonic
<1>3. <<Step(e, k)>>[1] = Step(e, k) /\ Step(e, k).disk = e /\ Step(e, k).mem = k
  BY Zenon DEF Step
<1> HIDE DEF T, R
<1>4. /\ w \in Seq(T) /\ Len(w) = Len(rest) + 1
      /\ \A i \in 1..Len(w) : w[i] = IF i <= 1 THEN <<Step(e, k)>>[i] ELSE rest[i - 1]
  BY <1>1, <1>2, ConcatProperties
<1> HIDE DEF w
<1>5. w[1] = Step(e, k) /\ \A i \in 1..Len(rest) : w[i + 1] = rest[i]
  <2>1. 1 \in 1..Len(w)
    BY <1>1, <1>4
  <2>2. \A i \in 1..Len(rest) : i + 1 \in 1..Len(w) /\ ~(i + 1 <= 1) /\ (i + 1) - 1 = i
    BY <1>1, <1>4
  <2> QED BY <1>3, <1>4, <2>1, <2>2
<1>6. /\ FilesAt(d, w, 1) = d /\ MemoryAt(m, w, 1) = m
      /\ \A i \in 1..(Len(rest) + 1) : /\ FilesAt(d, w, i + 1) = FilesAt(e, rest, i)
                                       /\ MemoryAt(m, w, i + 1) = MemoryAt(k, rest, i)
  <2>1. FilesAt(d, w, 1) = d /\ MemoryAt(m, w, 1) = m
    BY Zenon DEF FilesAt, MemoryAt
  <2>2. FilesAt(d, w, 1 + 1) = FilesAt(e, rest, 1) /\ MemoryAt(m, w, 1 + 1) = MemoryAt(k, rest, 1)
    BY <1>3, <1>5 DEF FilesAt, MemoryAt
  <2>3. ASSUME NEW i \in 1..(Len(rest) + 1), i # 1
        PROVE  /\ FilesAt(d, w, i + 1) = FilesAt(e, rest, i)
               /\ MemoryAt(m, w, i + 1) = MemoryAt(k, rest, i)
    <3>1. i - 1 \in 1..Len(rest) /\ (i - 1) + 1 = i /\ (i + 1) - 1 = i /\ i + 1 # 1
      BY <1>1, <2>3
    <3>2. w[i] = rest[i - 1]
      BY <1>5, <3>1, Zenon
    <3> QED BY <2>3, <3>1, <3>2, Zenon DEF FilesAt, MemoryAt
  <2> QED BY <2>1, <2>2, <2>3, Zenon
<1>7. Path(d, m, w, S)
  <2>1. IsList(w)
    BY <1>4, SequenceIsList, Zenon
  <2>2. Sound(w[1].disk, w[1].mem) /\ Lawful(FilesAt(d, w, 1), MemoryAt(m, w, 1), w[1].disk, S)
    BY <1>3, <1>5, <1>6, Zenon
  <2>3. ASSUME NEW i \in 1..Len(w), i # 1
        PROVE  /\ Sound(w[i].disk, w[i].mem)
               /\ Lawful(FilesAt(d, w, i), MemoryAt(m, w, i), w[i].disk, S)
    <3>1. i - 1 \in 1..Len(rest) /\ i - 1 \in 1..(Len(rest) + 1) /\ (i - 1) + 1 = i
      BY <1>1, <1>4, <2>3
    <3>2. /\ Sound(rest[i - 1].disk, rest[i - 1].mem)
          /\ Lawful(FilesAt(e, rest, i - 1), MemoryAt(k, rest, i - 1), rest[i - 1].disk, S)
      BY <3>1, Zenon DEF Path
    <3>3. /\ w[i] = rest[i - 1] /\ FilesAt(d, w, i) = FilesAt(e, rest, i - 1)
          /\ MemoryAt(m, w, i) = MemoryAt(k, rest, i - 1)
      BY <1>5, <1>6, <3>1, Zenon
    <3> QED BY <3>2, <3>3, Zenon
  <2> QED BY <2>1, <2>2, <2>3, Zenon DEF Path
<1>8. EndsSettled(d, m, w, S) <=> EndsSettled(e, k, rest, S)
  <2>1. Len(rest) + 1 \in 1..(Len(rest) + 1) /\ Len(w) + 1 = (Len(rest) + 1) + 1
    BY <1>1, <1>4
  <2> QED BY <1>6, <2>1, Zenon DEF EndsSettled
<1>9. w # <<>>
  BY <1>1, <1>4
<1> QED BY <1>7, <1>8, <1>9, Zenon DEF w

--------------------------------------------------------------------------------
(***************************************************************************)
(* Lemmas about changes of memory and of single files.                     *)
(***************************************************************************)

\* Memory k differs from m only in limits, the mempool, peers, errors and the
\* caller.
AsGoodAs(k, m) ==
    /\ DOMAIN k = DOMAIN m
    /\ k.up = m.up /\ k.height = m.height /\ k.network = m.network /\ k.keyring = m.keyring
    /\ k.applied = m.applied /\ k.pending = m.pending /\ k.max_imports \in Nat

LEMMA AsGoodAsKeeps ==
    ASSUME NEW k, NEW m, AsGoodAs(k, m), IsMemory(m), NEW d
    PROVE  /\ IsMemory(k)
           /\ Together(d, m) => Together(d, k)
           /\ Sound(d, m) => Sound(d, k)
           /\ NoneApplied(m) => NoneApplied(k)
<1>1. IsMemory(k)
  BY Zenon DEF AsGoodAs, IsMemory
<1>2. Together(d, m) => Together(d, k)
  BY TogetherSame, Zenon DEF AsGoodAs
<1>3. Sound(d, m) => Sound(d, k)
  BY <1>1, <1>2, Zenon DEF AsGoodAs, Sound
<1>4. NoneApplied(m) => NoneApplied(k)
  BY Zenon DEF AsGoodAs, NoneApplied
<1> QED BY <1>1, <1>2, <1>3, <1>4, Zenon

\* An answer to a client leaves the node as good as it was.
LEMMA AnsweredIsAsGood ==
    ASSUME NEW m, IsMemory(m), NEW error
    PROVE  AsGoodAs(Answered(m, error), m)
BY Zenon DEF AsGoodAs, Answered, IsMemory, MemFields

\* So an answer that comes with the last file of an operation does not change
\* its path.
LEMMA AnsweredPath ==
    ASSUME NEW d, NEW m, NEW w, NEW S, Path(d, m, w, S), w # <<>>, NEW error
    PROVE  /\ Path(d, m, AnsweredAtEnd(w, error), S)
           /\ EndsSettled(d, m, w, S) => EndsSettled(d, m, AnsweredAtEnd(w, error), S)
<1> DEFINE v == AnsweredAtEnd(w, error)
           L == Len(w)
           last == Step(w[L].disk, Answered(w[L].mem, error))
           R == {w[i] : i \in DOMAIN w} \cup {last}
<1>1. L \in Nat /\ w \in Seq({w[i] : i \in DOMAIN w}) /\ DOMAIN w = 1..L
  BY PathIsSequence, Zenon
<1>2. L >= 1
  BY <1>1, EmptySeq
<1>3. /\ v \in [1..L -> R]
      /\ \A i \in 1..L : i # L => v[i] = w[i]
      /\ v[L] = last
  <2>1. v = [i \in 1..L |-> IF i < L THEN w[i] ELSE Step(w[i].disk, Answered(w[i].mem, error))]
    BY Zenon DEF AnsweredAtEnd
  <2>2. ASSUME NEW i \in 1..L
        PROVE  /\ i # L => i < L
               /\ i = L => ~(i < L)
    <3>1. L \in Nat
      BY PathIsSequence, Zenon
    <3> QED BY <3>1
  <2>3. L \in 1..L
    BY <1>1, <1>2
  <2> HIDE DEF v, L
  <2>4. \A i \in 1..L : v[i] = IF i # L THEN w[i] ELSE last
    BY <2>1, <2>2, Zenon DEF last
  <2>5. \A i \in 1..L : v[i] \in R
    BY <1>1, <2>4, Zenon DEF R
  <2>6. v \in [1..L -> R]
    BY <2>1, <2>5, Zenon
  <2> QED BY <2>3, <2>4, <2>6, Zenon
<1> HIDE DEF R, last, v, L
<1>4. v \in Seq(R)
  BY <1>1, <1>3, SeqDef
<1>5. Len(v) = L
  BY <1>1, <1>3, <1>4, LenProperties
<1> USE DEF L
<1>6. last.disk = w[L].disk /\ last.mem = Answered(w[L].mem, error)
  BY Zenon DEF Step, last
<1>7. Sound(w[L].disk, w[L].mem) /\ IsMemory(w[L].mem)
  BY <1>1, <1>2 DEF Path, Sound
<1>8. Sound(last.disk, last.mem) /\ (NoneApplied(w[L].mem) => NoneApplied(last.mem))
  BY <1>6, <1>7, AnsweredIsAsGood, AsGoodAsKeeps
<1>9. \A i \in 1..L : FilesAt(d, v, i) = FilesAt(d, w, i) /\ MemoryAt(m, v, i) = MemoryAt(m, w, i)
  <2>1. \A i \in 1..L : i # 1 => i - 1 \in 1..L /\ i - 1 # L
    BY <1>1
  <2> QED BY <1>3, <2>1, Zenon DEF FilesAt, MemoryAt
<1>10. Path(d, m, v, S)
  <2>1. IsList(v)
    BY <1>4, SequenceIsList, Zenon
  <2>2. ASSUME NEW i \in 1..L
        PROVE  /\ Sound(v[i].disk, v[i].mem)
               /\ Lawful(FilesAt(d, v, i), MemoryAt(m, v, i), v[i].disk, S)
    <3>1. /\ Sound(w[i].disk, w[i].mem)
          /\ Lawful(FilesAt(d, w, i), MemoryAt(m, w, i), w[i].disk, S)
      BY Zenon DEF Path
    <3>2. CASE i # L
      BY <1>3, <1>9, <3>1, <3>2, Zenon
    <3>3. CASE i = L
      BY <1>3, <1>6, <1>8, <1>9, <3>1, <3>3, Zenon
    <3> QED BY <3>2, <3>3, Zenon
  <2> QED BY <1>5, <2>1, <2>2, Zenon DEF Path
<1>11. EndsSettled(d, m, w, S) => EndsSettled(d, m, v, S)
  <2>1. L + 1 # 1 /\ (L + 1) - 1 = L
    BY <1>1, <1>2
  <2> QED BY <1>3, <1>5, <1>6, <1>8, <2>1, Zenon DEF EndsSettled, FilesAt, MemoryAt, Settled
<1> QED BY <1>10, <1>11, Zenon DEF v

\* Files e differ from d only in the audit records and the stored roots.
AuditedFrom(e, d) ==
    /\ DOMAIN e = DOMAIN d
    /\ \A f \in DiskFields \ {"audit", "roots"} : e[f] = d[f]

LEMMA AuditedKeeps ==
    ASSUME NEW e, NEW d, AuditedFrom(e, d), AreFiles(d), NEW m
    PROVE  /\ AreFiles(e)
           /\ e.network = d.network /\ e.keyring = d.keyring /\ e.applied = d.applied /\ e.imports = d.imports
           /\ Sound(d, m) => Sound(e, m)
<1>1. /\ e.snapshot = d.snapshot /\ e.import_config = d.import_config /\ e.imports = d.imports
      /\ e.pending = d.pending /\ e.network = d.network /\ e.keyring = d.keyring /\ e.applied = d.applied
  BY Zenon DEF AuditedFrom, DiskFields
<1>2. AreFiles(e)
  BY <1>1, Zenon DEF AuditedFrom, AreFiles
<1> QED BY <1>1, <1>2, TogetherSame, Zenon DEF Sound

\* persist_current_snapshot_metadata_roots explains the audit root again.
LEMMA CurrentRootsKeep ==
    ASSUME NEW d, AreFiles(d), NEW e, AuditedFrom(e, d), e.roots = d.roots, NEW S
    PROVE  /\ AuditedFrom(PersistCurrentRoots(e), d)
           /\ RootsExplained(d, S) => RootsExplained(PersistCurrentRoots(e), S)
<1> DEFINE p == PersistCurrentRoots(e)
<1>1. DOMAIN e = DiskFields
  BY Zenon DEF AuditedFrom, AreFiles
<1>2. /\ DOMAIN p = DiskFields
      /\ \A f \in DiskFields \ {"roots"} : p[f] = e[f]
      /\ p.roots = [k \in DOMAIN e.roots \cup {"validator_set_audit"} |->
                        IF k = "validator_set_audit" THEN e.audit ELSE e.roots[k]]
  BY <1>1, Zenon DEF PersistCurrentRoots, DiskFields
<1>3. p.audit = e.audit
  BY <1>2, Zenon DEF DiskFields
<1> HIDE DEF p
<1>4. AuditedFrom(p, d)
  BY <1>1, <1>2, Zenon DEF AuditedFrom
<1>5. RootsExplained(d, S) => RootsExplained(p, S)
  BY <1>2, <1>3 DEF RootsExplained
<1> QED BY <1>4, <1>5, Zenon DEF p

\* The two commits of record_validator_set_metadata_audit.
LEMMA RecordAuditSteps ==
    ASSUME NEW d, NEW m, NEW k, AreFiles(d), NEW id, NEW outcome
    PROVE  \E logged, rooted :
              /\ RecordAudit(d, m, k, id, outcome) = <<Step(logged, m), Step(rooted, k)>>
              /\ AuditedFrom(logged, d) /\ AuditedFrom(rooted, d)
              /\ \A S : RootsExplained(d, S) => RootsExplained(rooted, S)
<1> DEFINE logged == [d EXCEPT !.audit =
                AppendWithRetention(@, [update_id |-> id, outcome |-> outcome], m.max_audit)]
           rooted == PersistCurrentRoots(logged)
<1>1. RecordAudit(d, m, k, id, outcome) = <<Step(logged, m), Step(rooted, k)>>
  BY Zenon DEF RecordAudit
<1>2. AuditedFrom(logged, d) /\ logged.roots = d.roots
  BY Zenon DEF AuditedFrom, AreFiles, DiskFields
<1> HIDE DEF logged
<1>3. AuditedFrom(rooted, d) /\ \A S : RootsExplained(d, S) => RootsExplained(rooted, S)
  BY <1>2, CurrentRootsKeep, Zenon
<1> HIDE DEF rooted
<1> QED BY <1>1, <1>2, <1>3, Zenon

\* So it is a path that leaves the stored audit root explained.
LEMMA RecordAuditPath ==
    ASSUME NEW d, NEW m0, NEW m, NEW k, Sound(d, m), Sound(d, k), NEW id, NEW outcome, NEW S
    PROVE  LET w == RecordAudit(d, m, k, id, outcome)
           IN  /\ Path(d, m0, w, S) /\ w # <<>>
               /\ RootsExplained(d, S) /\ NoneApplied(k) => EndsSettled(d, m0, w, S)
<1> DEFINE w == RecordAudit(d, m, k, id, outcome)
<1>1. AreFiles(d)
  BY Zenon DEF Sound
<1>2. PICK logged, rooted :
         /\ w = <<Step(logged, m), Step(rooted, k)>>
         /\ AuditedFrom(logged, d) /\ AuditedFrom(rooted, d)
         /\ \A T : RootsExplained(d, T) => RootsExplained(rooted, T)
  BY <1>1, RecordAuditSteps
<1> HIDE DEF w
<1>3. Sound(logged, m) /\ Sound(rooted, k)
  BY <1>1, <1>2, AuditedKeeps, Zenon
<1>4. Lawful(d, m0, logged, S) /\ Lawful(logged, m, rooted, S)
  <2>1. /\ logged.network = d.network /\ logged.keyring = d.keyring /\ logged.applied = d.applied /\ logged.imports = d.imports
        /\ rooted.network = d.network /\ rooted.keyring = d.keyring /\ rooted.applied = d.applied /\ rooted.imports = d.imports
    BY <1>1, <1>2, AuditedKeeps, Zenon
  <2> QED BY <2>1, QuietIsLawful, Zenon
<1>5. Path(d, m0, w, S) /\ (EndsSettled(d, m0, w, S) <=> Settled(rooted, k, S))
  BY <1>2, <1>3, <1>4, TwoSteps, Zenon
<1>6. w # <<>>
  BY <1>2, Zenon
<1> QED BY <1>2, <1>5, <1>6, Zenon DEF Settled, w

\* persist_pending_validator_set_metadata_authorizations.
LEMMA PersistPendingKeeps ==
    ASSUME NEW d, NEW m, Sound(d, m), NEW S
    PROVE  LET e == PersistPending(d, m)
           IN  /\ Sound(e, m)
               /\ e.network = d.network /\ e.keyring = d.keyring /\ e.applied = d.applied /\ e.imports = d.imports
               /\ RootsExplained(d, S) => RootsExplained(e, S)
<1> DEFINE e == PersistPending(d, m)
<1>1. AreFiles(d) /\ IsMemory(m) /\ Together(d, m) /\ m.up
  BY Zenon DEF Sound
<1>2. DOMAIN d = DiskFields
  BY <1>1, Zenon DEF AreFiles
<1>3. /\ DOMAIN e = DiskFields /\ e.pending = m.pending
      /\ e.network = d.network /\ e.keyring = d.keyring /\ e.applied = d.applied /\ e.imports = d.imports
      /\ e.snapshot = d.snapshot /\ e.import_config = d.import_config
      /\ e.roots = d.roots /\ e.audit = d.audit
  BY <1>2, Zenon DEF PersistPending, DiskFields
<1> HIDE DEF e
<1>4. AreFiles(e)
  BY <1>1, <1>3, Zenon DEF AreFiles, IsMemory
<1>5. RootsExplained(d, S) => RootsExplained(e, S)
  BY <1>3, Zenon DEF RootsExplained
<1>6. Together(e, m)
  BY <1>1, <1>3, TogetherSame, Zenon
<1> QED BY <1>1, <1>3, <1>4, <1>5, <1>6, Zenon DEF Sound, e

--------------------------------------------------------------------------------
(***************************************************************************)
(* Lemmas about the operations on the validator set.                       *)
(***************************************************************************)

\* An update that apply_quorum_authorized_validator_set_metadata_update lets
\* through has the messages of enough signers, all of which verify.  The
\* messages are all those of one content in a pool, or all the caller has.
LEMMA AppliedIsSigned ==
    ASSUME NEW m, IsFiniteSet(DOMAIN m.keyring), NEW messages, IsFiniteSet(messages),
           \A a \in messages : a.signer \in Nat /\ IsFiniteSet(DOMAIN a.message.update.add),
           NEW quorum \in Nat, ApplyOutcome(m, messages, quorum) = "ok",
           NEW pool, messages \subseteq pool,
           \A a \in messages, b \in pool : b.message.update = a.message.update => b \in messages,
           NEW e, e.network = m.network,
           e.keyring = NextKeyring(m.keyring, FirstOf(messages).message.update),
           e.applied = m.applied \cup {FirstOf(messages).message.update.update_id}
    PROVE  /\ FirstOf(messages) \in messages
           /\ FromUpdate(m, pool, quorum, e) /\ IsFiniteSet(DOMAIN e.keyring)
<1> DEFINE u == FirstOf(messages).message.update
           signers == {b.signer : b \in messages}
<1>1. /\ \A b \in messages : Verified(m, b)
      /\ \A b \in messages : b.message.update.update_id \notin m.applied
      /\ \A b \in messages : b.message.update = u
      /\ messages # {} /\ ~(Cardinality(signers) < quorum)
      /\ u.remove \subseteq DOMAIN m.keyring
  BY Zenon DEF ApplyOutcome
<1>2. FirstOf(messages) \in messages
  BY <1>1, FirstIsOne, Zenon
<1>3. /\ u \in {a.message.update : a \in pool} /\ u.update_id \notin m.applied
      /\ IsFiniteSet(DOMAIN u.add)
  BY <1>1, <1>2, Zenon
<1>4. {b \in pool : b.message.update = u /\ Verified(m, b)} = messages
  BY <1>1, <1>2, Zenon
<1>5. signers # {} /\ IsFiniteSet(signers)
  <2> DEFINE f == [b \in messages |-> b.signer]
  <2>1. f \in Surjection(messages, signers)
    BY Zenon DEF Surjection
  <2>2. signers # {}
    BY <1>2, Zenon
  <2> QED BY <2>1, <2>2, FS_Surjection
<1> HIDE DEF u, signers
<1>6. Cardinality(signers) >= quorum
  BY <1>1, <1>5, FS_CardinalityType
<1>7. IsFiniteSet(DOMAIN e.keyring)
  <2>1. IsFiniteSet(DOMAIN m.keyring \ u.remove)
    BY FS_Subset, Zenon
  <2>2. DOMAIN e.keyring = DOMAIN u.add \cup (DOMAIN m.keyring \ u.remove)
    BY Zenon DEF NextKeyring, u
  <2>3. \A A, B : IsFiniteSet(A) /\ IsFiniteSet(B) => IsFiniteSet(A \cup B)
    BY FS_Union, Zenon
  <2> QED BY <1>3, <2>1, <2>2, <2>3
<1>8. e.keyring = NextKeyring(m.keyring, u) /\ e.applied = m.applied \cup {u.update_id}
  BY Zenon DEF u
<1>9. FromUpdate(m, pool, quorum, e)
  <2>1. {a.signer : a \in {b \in pool : b.message.update = u /\ Verified(m, b)}} = signers
    BY <1>4, Zenon DEF signers
  <2> QED BY <1>1, <1>3, <1>5, <1>6, <1>8, <2>1, Zenon DEF FromUpdate
<1> QED BY <1>2, <1>7, <1>9, Zenon

LEMMA QuorumType ==
    ASSUME NEW keyring, IsFiniteSet(DOMAIN keyring)
    PROVE  Quorum(keyring) \in Nat
<1>1. Cardinality(DOMAIN keyring) \in Nat
  BY FS_CardinalityType, Zenon
<1> QED BY <1>1 DEF Quorum

\* commit_validator_set_metadata of a changed memory, with memory after it.
LEMMA StoredMetadata ==
    ASSUME NEW d, NEW m, Sound(d, m), NEW k, DOMAIN k = MemFields,
           k.pending = m.pending, k.height = m.height, k.max_imports = m.max_imports, k.up = m.up,
           IsFiniteSet(DOMAIN k.keyring)
    PROVE  LET e == StoreMetadata(d, k)
           IN  /\ Sound(e, k) /\ e.imports = d.imports
               /\ e.network = k.network /\ e.keyring = k.keyring /\ e.applied = k.applied
               /\ \A S : RootsExplained(d, S) => RootsExplained(e, S)
<1> DEFINE e == StoreMetadata(d, k)
<1>1. AreFiles(d) /\ IsMemory(m) /\ m.up
  BY Zenon DEF Sound
<1>2. DOMAIN d = DiskFields
  BY <1>1, Zenon DEF AreFiles
<1>3. /\ DOMAIN e = DiskFields
      /\ e.network = k.network /\ e.keyring = k.keyring /\ e.applied = k.applied
      /\ e.snapshot = d.snapshot /\ e.import_config = d.import_config
      /\ e.imports = d.imports /\ e.pending = d.pending /\ e.roots = d.roots
      /\ e.audit = d.audit
  BY <1>2, Zenon DEF StoreMetadata, DiskFields
<1> HIDE DEF e
<1>4. AreFiles(e)
  BY <1>1, <1>3, Zenon DEF AreFiles
<1>5. IsMemory(k)
  BY <1>1, Zenon DEF IsMemory
<1>6. Together(e, k)
  BY <1>3, TogetherEqual, Zenon
<1>7. \A S : RootsExplained(d, S) => RootsExplained(e, S)
  BY <1>3, Zenon DEF RootsExplained
<1> QED BY <1>1, <1>3, <1>4, <1>5, <1>6, <1>7, Zenon DEF Sound, e

\* The memory after an update.
LEMMA AppliedMemory ==
    ASSUME NEW m, IsMemory(m), NEW update
    PROVE  LET k == Applied(m, update)
           IN  /\ DOMAIN k = MemFields /\ k.network = m.network
               /\ k.keyring = NextKeyring(m.keyring, update)
               /\ k.applied = m.applied \cup {update.update_id}
               /\ k.pending = m.pending /\ k.height = m.height
               /\ k.max_imports = m.max_imports /\ k.up = m.up
<1>1. DOMAIN m = MemFields
  BY Zenon DEF IsMemory
<1> QED BY <1>1, Zenon DEF Applied, MemFields

\* Removing authorizations from memory leaves it sound.
LEMMA PrunedMemory ==
    ASSUME NEW d, NEW m, Sound(d, m), NEW part, part \subseteq m.pending
    PROVE  LET k == [m EXCEPT !.pending = part]
           IN  /\ Sound(d, k) /\ k.pending = part /\ k.applied = m.applied
               /\ NoneApplied(m) => NoneApplied(k)
<1> DEFINE k == [m EXCEPT !.pending = part]
<1>1. AreFiles(d) /\ IsMemory(m) /\ Together(d, m) /\ m.up
  BY Zenon DEF Sound
<1>2. DOMAIN m = MemFields
  BY <1>1, Zenon DEF IsMemory
<1>3. /\ DOMAIN k = MemFields /\ k.pending = part /\ k.applied = m.applied
      /\ k.network = m.network /\ k.keyring = m.keyring /\ k.height = m.height /\ k.max_imports = m.max_imports
      /\ k.up = m.up
  BY <1>2, Zenon DEF MemFields
<1> HIDE DEF k
<1>4. IsPool(part)
  BY <1>1, PartOfPool, Zenon DEF IsMemory
<1>5. IsMemory(k)
  BY <1>1, <1>3, <1>4, Zenon DEF IsMemory
<1>6. Together(d, k)
  BY <1>1, <1>3, TogetherSame, Zenon
<1>7. NoneApplied(m) => NoneApplied(k)
  BY <1>3, Zenon DEF NoneApplied
<1> QED BY <1>1, <1>3, <1>5, <1>6, <1>7, Zenon DEF Sound, k

\* apply_pending_validator_set_metadata_update, applied or refused.
LEMMA ApplyPath ==
    ASSUME NEW d, NEW m, Sound(d, m), NEW id \in UpdateIds(m.pending), NEW S
    PROVE  LET w == ApplySteps(d, m, id)
           IN  /\ Path(d, m, w, S) /\ w # <<>>
               /\ Settled(d, m, S) => EndsSettled(d, m, w, S)
<1> DEFINE held == ForUpdate(m.pending, id)
<1>1. CASE ApplyOutcome(m, held, Quorum(m.keyring)) # "ok"
  <2>1. ApplySteps(d, m, id) = RecordAudit(d, m, m, id, "rejected")
    BY <1>1, Zenon DEF ApplySteps
  <2> QED BY <2>1, RecordAuditPath, Zenon DEF Settled
<1>2. CASE ApplyOutcome(m, held, Quorum(m.keyring)) = "ok"
  <2> DEFINE update == FirstOf(held).message.update
             m1 == Applied(m, update)
             d1 == StoreMetadata(d, m1)
             part == m1.pending \ ForUpdate(m1.pending, id)
             m2 == [m1 EXCEPT !.pending = part]
             audit == RecordAudit(d1, m1, m2, id, "applied")
             w == ApplySteps(d, m, id)
  <2>1. w = <<Step(d1, m1), audit[1], audit[2], Step(PersistPending(audit[2].disk, m2), m2)>>
    BY <1>2, Zenon DEF ApplySteps
  <2>2. AreFiles(d) /\ IsMemory(m) /\ Together(d, m) /\ m.up
    BY Zenon DEF Sound
  <2>3. /\ IsFiniteSet(DOMAIN m.keyring) /\ Quorum(m.keyring) \in Nat
        /\ held \subseteq m.pending /\ IsFiniteSet(held)
        /\ \A a \in held : a.signer \in Nat /\ IsFiniteSet(DOMAIN a.message.update.add)
        /\ \A a \in held, b \in m.pending : b.message.update = a.message.update => b \in held
    <3>1. IsFiniteSet(DOMAIN m.keyring) /\ IsPool(m.pending)
      BY <2>2, Zenon DEF IsMemory
    <3>2. held \subseteq m.pending /\ \A a \in held : a.message.update.update_id = id
      BY Zenon DEF ForUpdate
    <3>3. \A a \in held, b \in m.pending : b.message.update = a.message.update => b \in held
      BY Zenon DEF ForUpdate
    <3> HIDE DEF held
    <3>4. IsFiniteSet(held) /\ \A a \in held : a.signer \in Nat /\ IsFiniteSet(DOMAIN a.message.update.add)
      BY <3>1, <3>2, FS_Subset, Zenon DEF IsPool
    <3> QED BY <3>1, <3>2, <3>3, <3>4, QuorumType, Zenon
  <2>4. /\ DOMAIN m1 = MemFields /\ m1.network = m.network
        /\ m1.keyring = NextKeyring(m.keyring, update)
        /\ m1.applied = m.applied \cup {update.update_id} /\ m1.pending = m.pending
        /\ m1.height = m.height /\ m1.max_imports = m.max_imports /\ m1.up = m.up
    <3> HIDE DEF update
    <3> QED BY <2>2, AppliedMemory, Zenon
  <2>5. /\ FirstOf(held) \in held /\ IsFiniteSet(DOMAIN m1.keyring)
        /\ FromUpdate(m, m.pending, Quorum(m.keyring), m1)
    <3> HIDE DEF held, m1
    <3> QED BY <1>2, <2>3, <2>4, AppliedIsSigned, Zenon
  <2>6. update.update_id = id
    BY <2>5, Zenon DEF ForUpdate
  <2> HIDE DEF update, held, m1
  <2>7. /\ Sound(d1, m1) /\ d1.imports = d.imports
        /\ d1.network = m1.network /\ d1.keyring = m1.keyring /\ d1.applied = m1.applied
        /\ RootsExplained(d, S) => RootsExplained(d1, S)
    BY <2>4, <2>5, StoredMetadata
  <2> HIDE DEF d1
  <2>8. Lawful(d, m, d1, S)
    <3>1. FromUpdate(m, m.pending, Quorum(m.keyring), d1)
      BY <2>5, <2>7, Zenon DEF FromUpdate
    <3> QED BY <2>7, <3>1, Zenon DEF Lawful, Authorised, Genuine
  <2>9. Sound(d1, m2) /\ m2.pending = part /\ m2.applied = m1.applied
    BY <2>7, PrunedMemory
  <2>10. NoneApplied(m) => NoneApplied(m2)
    BY <2>4, <2>6, <2>9, Zenon DEF NoneApplied, ForUpdate
  <2> HIDE DEF m2, part
  <2>11. PICK logged, rooted :
            /\ audit = <<Step(logged, m1), Step(rooted, m2)>>
            /\ AuditedFrom(logged, d1) /\ AuditedFrom(rooted, d1)
            /\ \A T : RootsExplained(d1, T) => RootsExplained(rooted, T)
    BY <2>7, RecordAuditSteps DEF Sound
  <2> HIDE DEF audit
  <2>12. w = <<Step(d1, m1), Step(logged, m1), Step(rooted, m2), Step(PersistPending(rooted, m2), m2)>>
    BY <2>1, <2>11, Zenon DEF Step
  <2> HIDE DEF w
  <2>13. Sound(logged, m1) /\ Sound(rooted, m2)
    BY <2>7, <2>9, <2>11, AuditedKeeps, Zenon DEF Sound
  <2>14. Lawful(d1, m1, logged, S) /\ Lawful(logged, m1, rooted, S)
    <3>1. /\ logged.network = d1.network /\ logged.keyring = d1.keyring /\ logged.applied = d1.applied /\ logged.imports = d1.imports
          /\ rooted.network = d1.network /\ rooted.keyring = d1.keyring /\ rooted.applied = d1.applied /\ rooted.imports = d1.imports
      BY <2>7, <2>11, AuditedKeeps, Zenon DEF Sound
    <3> QED BY <3>1, QuietIsLawful, Zenon
  <2> DEFINE last == PersistPending(rooted, m2)
  <2>15. /\ Sound(last, m2) /\ Lawful(rooted, m2, last, S)
         /\ RootsExplained(rooted, S) => RootsExplained(last, S)
    BY <2>13, PersistPendingKeeps, QuietIsLawful, Zenon
  <2> HIDE DEF last
  <2>16. Path(d, m, w, S) /\ (EndsSettled(d, m, w, S) <=> Settled(last, m2, S))
    BY <2>7, <2>8, <2>12, <2>13, <2>14, <2>15, FourSteps DEF last
  <2>17. Settled(d, m, S) => EndsSettled(d, m, w, S)
    BY <2>7, <2>10, <2>11, <2>15, <2>16, Zenon DEF Settled
  <2>18. w # <<>>
    BY <2>12, Zenon
  <2> QED BY <2>16, <2>17, <2>18, Zenon DEF w
<1> QED BY <1>1, <1>2, Zenon

\* insert_pending_validator_set_metadata_authorization keeps one content per
\* update id, and takes in no update that has been applied.
LEMMA InsertedMemory ==
    ASSUME NEW d, NEW m, Sound(d, m), NEW a, IsSigned(a), InsertOutcome(m, a) = "ok"
    PROVE  LET k == Inserted(m, a)
           IN  /\ Sound(d, k) /\ a \in k.pending
               /\ NoneApplied(m) => NoneApplied(k)
<1> DEFINE id == a.message.update.update_id
           same == ForUpdate(m.pending, id)
           kept == {b \in m.pending : ~(b.signer = a.signer /\ b.message.update.update_id = id)}
           k == Inserted(m, a)
<1>1. /\ Verified(m, a)
      /\ id \notin m.applied
      /\ same # {} => FirstOf(same).message.update = a.message.update
  BY Zenon DEF InsertOutcome
<1>2. a.signer \in Nat /\ IsFiniteSet(DOMAIN a.message.update.add)
  BY <1>1, Zenon DEF Verified, IsSigned
<1>3. AreFiles(d) /\ IsMemory(m) /\ Together(d, m) /\ m.up
  BY Zenon DEF Sound
<1>4. IsPool(m.pending) /\ DOMAIN m = MemFields
  BY <1>3, Zenon DEF IsMemory
<1>5. /\ DOMAIN k = MemFields /\ k.pending = kept \cup {a} /\ k.applied = m.applied
      /\ k.network = m.network /\ k.keyring = m.keyring /\ k.height = m.height /\ k.max_imports = m.max_imports
      /\ k.up = m.up
  BY <1>4, Zenon DEF Inserted, MemFields
<1>6. \A b \in m.pending : b.message.update.update_id = id => b.message.update = a.message.update
  <2> SUFFICES ASSUME NEW b \in m.pending, b.message.update.update_id = id
               PROVE  b.message.update = a.message.update
    BY Zenon
  <2>1. b \in same /\ same \subseteq m.pending
    BY Zenon DEF ForUpdate
  <2>2. FirstOf(same) \in same
    BY <1>4, <2>1, FirstIsHeld, Zenon
  <2>3. FirstOf(same) \in m.pending /\ FirstOf(same).message.update.update_id = id
    BY <2>2, Zenon DEF ForUpdate
  <2> HIDE DEF same
  <2>4. FirstOf(same).message.update = b.message.update
    BY <1>4, <2>3, Zenon DEF IsPool
  <2> QED BY <1>1, <2>1, <2>4, Zenon
<1> HIDE DEF k, same
<1>7. IsPool(kept)
  BY <1>4, PartOfPool, Zenon
<1>8. IsPool(kept \cup {a})
  <2>1. IsFiniteSet(kept \cup {a})
    BY <1>7, FS_AddElement, Zenon DEF IsPool
  <2>2. \A b \in kept : /\ b.message.update.update_id = id => b.message.update = a.message.update
                        /\ ~(b.message.update.update_id = id /\ b.signer = a.signer)
    BY <1>6, Zenon
  <2> HIDE DEF kept
  <2> QED BY <1>2, <1>7, <2>1, <2>2, Zenon DEF IsPool
<1>9. IsMemory(k)
  BY <1>3, <1>5, <1>8, Zenon DEF IsMemory
<1>10. Together(d, k)
  BY <1>3, <1>5, TogetherSame, Zenon
<1>11. NoneApplied(m) => NoneApplied(k)
  BY <1>1, <1>5, Zenon DEF NoneApplied
<1> QED BY <1>3, <1>5, <1>9, <1>10, <1>11, Zenon DEF Sound, k

\* What an authorization does to a node, whoever sent it.
LEMMA AuthorizePath ==
    ASSUME NEW d, NEW m, Sound(d, m), NEW a, IsSigned(a), NEW S
    PROVE  LET result == Authorize(d, m, a)
           IN  /\ Sound(d, result.mem)
               /\ Path(d, result.mem, result.steps, S)
               /\ Settled(d, m, S) => EndsSettled(d, result.mem, result.steps, S)
<1> DEFINE result == Authorize(d, m, a)
           id == a.message.update.update_id
<1>1. CASE ~Verified(m, a)
  <2>1. result.mem = m /\ result.steps = <<>>
    BY <1>1, Zenon DEF Authorize
  <2> QED BY <2>1, EmptyPath, Zenon
<1>2. CASE Verified(m, a) /\ InsertOutcome(m, a) # "ok"
  <2>1. result.mem = m /\ result.steps = RecordAudit(d, m, m, id, "rejected")
    BY <1>2, Zenon DEF Authorize
  <2> QED BY <2>1, RecordAuditPath, Zenon DEF Settled
<1>3. CASE Verified(m, a) /\ InsertOutcome(m, a) = "ok"
  <2> DEFINE next == Inserted(m, a)
             saved == PersistPending(d, next)
             enough == Cardinality(ForUpdate(next.pending, id)) >= Quorum(m.keyring)
             rest == IF enough THEN ApplySteps(saved, next, id) ELSE <<>>
  <2>1. result.mem = next /\ result.steps = <<Step(saved, next)>> \o rest
    BY <1>3, Zenon DEF Authorize
  <2>2. Sound(d, next) /\ a \in next.pending /\ (NoneApplied(m) => NoneApplied(next))
    BY <1>3, InsertedMemory, Zenon
  <2> HIDE DEF next
  <2>3. /\ Sound(saved, next)
        /\ saved.network = d.network /\ saved.keyring = d.keyring /\ saved.applied = d.applied /\ saved.imports = d.imports
        /\ RootsExplained(d, S) => RootsExplained(saved, S)
    BY <2>2, PersistPendingKeeps, Zenon
  <2> HIDE DEF saved
  <2>4. Lawful(d, next, saved, S)
    BY <2>3, QuietIsLawful, Zenon
  <2>5. id \in UpdateIds(next.pending)
    BY <2>2, Zenon DEF UpdateIds
  <2>6. Path(saved, next, rest, S) /\ (Settled(saved, next, S) => EndsSettled(saved, next, rest, S))
    <3>1. CASE enough
      BY <2>3, <2>5, <3>1, ApplyPath, Zenon
    <3>2. CASE ~enough
      BY <3>2, EmptyPath, Zenon
    <3> QED BY <3>1, <3>2, Zenon
  <2> HIDE DEF rest
  <2>7. /\ Path(d, next, <<Step(saved, next)>> \o rest, S)
        /\ EndsSettled(d, next, <<Step(saved, next)>> \o rest, S) <=> EndsSettled(saved, next, rest, S)
    BY <2>3, <2>4, <2>6, StepThenPath, Zenon
  <2>8. Settled(d, m, S) => Settled(saved, next, S)
    BY <2>2, <2>3, Zenon DEF Settled
  <2> HIDE DEF result
  <2>9. /\ Sound(d, result.mem) /\ Path(d, result.mem, result.steps, S)
        /\ Settled(d, m, S) => EndsSettled(d, result.mem, result.steps, S)
    BY <2>1, <2>2, <2>6, <2>7, <2>8, Zenon
  <2> QED BY <2>9, Zenon DEF result
<1> QED BY <1>1, <1>2, <1>3, Zenon

\* Steps none of which touches the keyring, the applied updates or the import
\* records are a path, also followed by one more.
LEMMA QuietPath ==
    ASSUME NEW d, NEW m, NEW S, NEW n \in Nat, NEW w, DOMAIN w = 1..n, w = [i \in 1..n |-> w[i]],
           \A i \in 1..n : /\ Sound(w[i].disk, w[i].mem)
                           /\ w[i].disk.network = d.network /\ w[i].disk.keyring = d.keyring
                           /\ w[i].disk.applied = d.applied
                           /\ w[i].disk.imports = d.imports,
           NEW e, NEW k, Sound(e, k),
           e.network = d.network /\ e.keyring = d.keyring, e.applied = d.applied, e.imports = d.imports
    PROVE  /\ Path(d, m, w \o <<Step(e, k)>>, S)
           /\ EndsSettled(d, m, w \o <<Step(e, k)>>, S) <=> Settled(e, k, S)
<1> DEFINE v == w \o <<Step(e, k)>>
           R == {w[i] : i \in 1..n} \cup {Step(e, k)}
<1>1. w \in Seq(R) /\ Len(w) = n
  <2>1. w \in [1..n -> R]
    BY Zenon
  <2> HIDE DEF R
  <2>2. w \in Seq(R)
    BY <2>1, SeqDef, Zenon
  <2> QED BY <2>1, <2>2, LenProperties
<1>2. <<Step(e, k)>> \in Seq(R) /\ Len(<<Step(e, k)>>) = 1 /\ <<Step(e, k)>>[1] = Step(e, k)
  OBVIOUS
<1>3. Step(e, k).disk = e /\ Step(e, k).mem = k
  BY Zenon DEF Step
<1> HIDE DEF R
<1>4. /\ v \in Seq(R) /\ Len(v) = n + 1
      /\ \A i \in 1..Len(v) : v[i] = IF i <= n THEN w[i] ELSE <<Step(e, k)>>[i - n]
  BY <1>1, <1>2, ConcatProperties
<1> HIDE DEF v
<1>5. v[n + 1] = Step(e, k) /\ \A i \in 1..n : v[i] = w[i]
  <2>1. n + 1 \in 1..Len(v) /\ ~(n + 1 <= n) /\ (n + 1) - n = 1
    BY <1>4
  <2>2. \A i \in 1..n : i \in 1..Len(v) /\ i <= n
    BY <1>4
  <2> QED BY <1>2, <1>4, <2>1, <2>2, Zenon
<1>6. \A i \in 1..(n + 1) : /\ Sound(v[i].disk, v[i].mem)
                            /\ v[i].disk.network = d.network /\ v[i].disk.keyring = d.keyring
                            /\ v[i].disk.applied = d.applied
                            /\ v[i].disk.imports = d.imports
  <2> TAKE i \in 1..(n + 1)
  <2>1. CASE i \in 1..n
    BY <1>5, <2>1, Zenon
  <2>2. CASE i = n + 1
    BY <1>3, <1>5, <2>2, Zenon
  <2> QED BY <2>1, <2>2
<1>7. \A i \in 1..(n + 1) : /\ FilesAt(d, v, i).network = d.network /\ FilesAt(d, v, i).keyring = d.keyring
                            /\ FilesAt(d, v, i).applied = d.applied
                            /\ FilesAt(d, v, i).imports = d.imports
  <2> TAKE i \in 1..(n + 1)
  <2>1. CASE i = 1
    BY <2>1, Zenon DEF FilesAt
  <2>2. CASE i # 1
    <3>1. i - 1 \in 1..(n + 1)
      BY <2>2
    <3> QED BY <1>6, <2>2, <3>1, Zenon DEF FilesAt
  <2> QED BY <2>1, <2>2, Zenon
<1>8. \A i \in 1..(n + 1) : Lawful(FilesAt(d, v, i), MemoryAt(m, v, i), v[i].disk, S)
  BY <1>6, <1>7, QuietIsLawful, Zenon
<1>9. Path(d, m, v, S)
  <2>1. IsList(v)
    BY <1>4, SequenceIsList, Zenon
  <2> QED BY <1>4, <1>6, <1>8, <2>1, Zenon DEF Path
<1>10. EndsSettled(d, m, v, S) <=> Settled(e, k, S)
  <2>1. (n + 1) + 1 # 1 /\ ((n + 1) + 1) - 1 = n + 1
    OBVIOUS
  <2> QED BY <1>3, <1>4, <1>5, <2>1, Zenon DEF EndsSettled, FilesAt, MemoryAt
<1> QED BY <1>9, <1>10, Zenon DEF v

\* prune_validator_set_metadata_authorizations; afterwards nothing pending has
\* been applied.
LEMMA PrunePath ==
    ASSUME NEW d, NEW m, Sound(d, m), NEW m0, NEW S
    PROVE  LET w == PruneSteps(d, m, Prunable(m))
           IN  Path(d, m0, w, S) /\ (RootsExplained(d, S) => EndsSettled(d, m0, w, S))
<1> DEFINE ids == Prunable(m)
           count == Cardinality(ids)
           end == PrunedOf(m, ids)
           w == [i \in 1..(2 * count) |->
                    IF i % 2 = 1 THEN PruneStep(d, m, ids, (i + 1) \div 2)[1]
                    ELSE PruneStep(d, m, ids, i \div 2)[2]]
           last == PersistPending(PrunedFiles(d, m, ids, count), end)
<1>1. PruneSteps(d, m, ids) = w \o <<Step(last, end)>>
  BY Zenon DEF PruneSteps
<1>2. count \in Nat
  <2>1. ids \subseteq UpdateIds(m.pending)
    BY Zenon DEF Prunable
  <2>2. IsFiniteSet(m.pending)
    BY Zenon DEF Sound, IsMemory, IsPool
  <2> QED BY <2>1, <2>2, FinitelyManyUpdates, FS_Subset, FS_CardinalityType, Zenon
<1>3. \A j : Sound(d, PrunedOf(m, j))
  <2> TAKE j
  <2> DEFINE part == {a \in m.pending : a.message.update.update_id \notin j}
  <2>1. PrunedOf(m, j) = [m EXCEPT !.pending = part]
    BY Zenon DEF PrunedOf
  <2>2. part \subseteq m.pending
    BY Zenon
  <2> HIDE DEF part
  <2>3. Sound(d, [m EXCEPT !.pending = part])
    BY <2>2, PrunedMemory, Zenon
  <2> QED BY <2>1, <2>3, Zenon
<1>4. NoneApplied(end)
  <2>1. IsMemory(m)
    BY Zenon DEF Sound
  <2>2. end.pending = {a \in m.pending : a.message.update.update_id \notin ids} /\ end.applied = m.applied
    BY <2>1, Zenon DEF PrunedOf, IsMemory, MemFields
  <2>3. \A a \in m.pending : a.message.update.update_id \in m.applied => a.message.update.update_id \in ids
    BY Zenon DEF Prunable, UpdateIds
  <2> HIDE DEF ids, end
  <2> QED BY <2>2, <2>3, Zenon DEF NoneApplied
<1>5. AreFiles(d)
  BY Zenon DEF Sound
<1>6. ASSUME NEW i \in Nat
      PROVE  /\ AuditedFrom(PrunedFiles(d, m, ids, i), d)
             /\ RootsExplained(d, S) => RootsExplained(PrunedFiles(d, m, ids, i), S)
  <2> HIDE DEF ids
  <2>1. CASE i = 0
    BY <2>1, Zenon DEF PrunedFiles, AuditedFrom
  <2>2. CASE i # 0
    <3> DEFINE records == [j \in 1..i |-> [update_id |-> NthOf(ids, j), outcome |-> "pruned"]]
               audit == Retained(d.audit \o records, m.max_audit)
               e == [d EXCEPT !.audit = audit]
    <3>1. PrunedFiles(d, m, ids, i) = PersistCurrentRoots(e)
      BY <2>2, Zenon DEF PrunedFiles
    <3> HIDE DEF audit
    <3>2. AuditedFrom(e, d) /\ e.roots = d.roots
      BY <1>5, Zenon DEF AuditedFrom, AreFiles, DiskFields
    <3> HIDE DEF e
    <3> QED BY <1>5, <3>1, <3>2, CurrentRootsKeep, Zenon
  <2> QED BY <2>1, <2>2, Zenon
<1> HIDE DEF ids, end
<1>7. ASSUME NEW i \in Nat, i # 0, NEW j \in {1, 2}
      PROVE  LET s == PruneStep(d, m, ids, i)[j]
             IN  /\ Sound(s.disk, s.mem)
                 /\ s.disk.network = d.network /\ s.disk.keyring = d.keyring /\ s.disk.applied = d.applied
                 /\ s.disk.imports = d.imports
  <2> DEFINE e == PrunedFiles(d, m, ids, i - 1)
             k1 == PrunedOf(m, FirstIds(ids, i))
             k2 == PrunedOf(m, FirstIds(ids, i + 1))
  <2>1. AuditedFrom(e, d)
    BY <1>6, <1>7
  <2>2. PruneStep(d, m, ids, i) = RecordAudit(e, k1, k2, NthOf(ids, i), "pruned")
    BY Zenon DEF PruneStep
  <2>3. Sound(d, k1) /\ Sound(d, k2)
    BY <1>3, Zenon
  <2> HIDE DEF e, k1, k2
  <2>4. /\ AreFiles(e) /\ Sound(e, k1) /\ Sound(e, k2)
        /\ e.network = d.network /\ e.keyring = d.keyring /\ e.applied = d.applied /\ e.imports = d.imports
    BY <1>5, <2>1, <2>3, AuditedKeeps, Zenon
  <2>5. PICK logged, rooted :
           /\ PruneStep(d, m, ids, i) = <<Step(logged, k1), Step(rooted, k2)>>
           /\ AuditedFrom(logged, e) /\ AuditedFrom(rooted, e)
    BY <2>2, <2>4, RecordAuditSteps
  <2>6. /\ Sound(logged, k1) /\ Sound(rooted, k2)
        /\ logged.network = e.network /\ logged.keyring = e.keyring /\ logged.applied = e.applied /\ logged.imports = e.imports
        /\ rooted.network = e.network /\ rooted.keyring = e.keyring /\ rooted.applied = e.applied /\ rooted.imports = e.imports
    BY <2>4, <2>5, AuditedKeeps, Zenon
  <2>7. CASE j = 1
    <3>1. PruneStep(d, m, ids, i)[j].disk = logged /\ PruneStep(d, m, ids, i)[j].mem = k1
      BY <2>5, <2>7 DEF Step
    <3> QED BY <2>4, <2>6, <3>1, Zenon
  <2>8. CASE j = 2
    <3>1. PruneStep(d, m, ids, i)[j].disk = rooted /\ PruneStep(d, m, ids, i)[j].mem = k2
      BY <2>5, <2>8 DEF Step
    <3> QED BY <2>4, <2>6, <3>1, Zenon
  <2> QED BY <1>7, <2>7, <2>8, Zenon
<1>8. DOMAIN w = 1..(2 * count) /\ w = [i \in 1..(2 * count) |-> w[i]] /\ 2 * count \in Nat
  BY <1>2
<1>9. \A i \in 1..(2 * count) : /\ Sound(w[i].disk, w[i].mem)
                                /\ w[i].disk.network = d.network /\ w[i].disk.keyring = d.keyring
                                /\ w[i].disk.applied = d.applied
                                /\ w[i].disk.imports = d.imports
  <2> SUFFICES ASSUME NEW i \in 1..(2 * count)
               PROVE  /\ Sound(w[i].disk, w[i].mem)
                      /\ w[i].disk.network = d.network /\ w[i].disk.keyring = d.keyring
                      /\ w[i].disk.applied = d.applied
                      /\ w[i].disk.imports = d.imports
    BY Zenon
  <2>1. i \in Nat /\ i # 0
    BY <1>2
  <2>2. CASE i % 2 = 1
    <3>1. w[i] = PruneStep(d, m, ids, (i + 1) \div 2)[1]
      BY <2>2, Zenon
    <3>2. (i + 1) \div 2 \in Nat /\ (i + 1) \div 2 # 0
      BY <2>1
    <3> QED BY <1>7, <3>1, <3>2, Zenon
  <2>3. CASE i % 2 # 1
    <3>1. w[i] = PruneStep(d, m, ids, i \div 2)[2]
      BY <2>3, Zenon
    <3>2. i \div 2 \in Nat /\ i \div 2 # 0
      BY <2>1, <2>3
    <3> QED BY <1>7, <3>1, <3>2, Zenon
  <2> QED BY <2>2, <2>3, Zenon
<1>10. /\ Sound(last, end)
       /\ last.network = d.network /\ last.keyring = d.keyring /\ last.applied = d.applied /\ last.imports = d.imports
       /\ RootsExplained(d, S) => RootsExplained(last, S)
  <2> DEFINE e == PrunedFiles(d, m, ids, count)
  <2>1. AuditedFrom(e, d) /\ (RootsExplained(d, S) => RootsExplained(e, S))
    BY <1>2, <1>6, Zenon
  <2>2. Sound(d, end)
    BY <1>3, Zenon DEF end
  <2> HIDE DEF e
  <2>3. Sound(e, end) /\ e.network = d.network /\ e.keyring = d.keyring /\ e.applied = d.applied /\ e.imports = d.imports
    BY <1>5, <2>1, <2>2, AuditedKeeps, Zenon
  <2> QED BY <2>1, <2>3, PersistPendingKeeps, Zenon DEF e
<1> HIDE DEF w, last, count
<1>11. /\ Path(d, m0, w \o <<Step(last, end)>>, S)
       /\ EndsSettled(d, m0, w \o <<Step(last, end)>>, S) <=> Settled(last, end, S)
  BY <1>8, <1>9, <1>10, QuietPath, Zenon
<1> QED BY <1>1, <1>4, <1>10, <1>11, Zenon DEF Settled, ids

\* A file other than those of the keyring, the pool and the import records is
\* written.
LEMMA OtherFile ==
    ASSUME NEW d, NEW m, Sound(d, m), NEW e, DOMAIN e = DiskFields,
           e.network = d.network /\ e.keyring = d.keyring, e.applied = d.applied, e.imports = d.imports,
           e.pending = d.pending, e.snapshot \in Nat, e.import_config \subseteq Nat
    PROVE  Sound(e, m) /\ \A k, S : Lawful(d, k, e, S)
<1>1. AreFiles(e)
  BY Zenon DEF Sound, AreFiles
<1>2. Sound(e, m)
  BY <1>1, TogetherSame, Zenon DEF Sound
<1> QED BY <1>2, QuietIsLawful, Zenon

LEMMA OneOtherFile ==
    ASSUME NEW d, NEW m, Sound(d, m), NEW e, DOMAIN e = DiskFields,
           e.network = d.network /\ e.keyring = d.keyring, e.applied = d.applied, e.imports = d.imports,
           e.pending = d.pending, e.snapshot \in Nat, e.import_config \subseteq Nat,
           e.roots = d.roots, e.audit = d.audit, NEW m0, NEW S
    PROVE  /\ Path(d, m0, <<Step(e, m)>>, S)
           /\ Settled(d, m, S) => EndsSettled(d, m0, <<Step(e, m)>>, S)
<1>1. Sound(e, m) /\ Lawful(d, m0, e, S)
  BY OtherFile, Zenon
<1>2. Settled(d, m, S) => Settled(e, m, S)
  BY Zenon DEF Settled, RootsExplained
<1> QED BY <1>1, <1>2, OneStep, Zenon

\* persist_committed_block: the block file, the snapshot file and the mempool.
LEMMA BlockPath ==
    ASSUME NEW d, NEW m, Sound(d, m), NEW block, NEW S
    PROVE  LET w == BlockSteps(d, m, block)
           IN  Path(d, m, w, S) /\ (Settled(d, m, S) => EndsSettled(d, m, w, S))
<1> DEFINE blocks == (m.height :> block) @@ d.blocks
           e1 == [d EXCEPT !.blocks = blocks]
           e2 == [e1 EXCEPT !.snapshot = m.height]
           e3 == [e2 EXCEPT !.mempool = m.mempool]
<1>1. BlockSteps(d, m, block) = <<Step(e1, m), Step(e2, m), Step(e3, m)>>
  BY Zenon DEF BlockSteps
<1>2. AreFiles(d) /\ m.height \in Nat
  BY Zenon DEF Sound, IsMemory
<1> HIDE DEF blocks
<1>3. /\ DOMAIN e1 = DiskFields /\ e1.network = d.network /\ e1.keyring = d.keyring /\ e1.applied = d.applied
      /\ e1.imports = d.imports /\ e1.pending = d.pending /\ e1.snapshot = d.snapshot
      /\ e1.import_config = d.import_config /\ e1.roots = d.roots /\ e1.audit = d.audit
  BY <1>2, Zenon DEF AreFiles, DiskFields
<1>4. /\ DOMAIN e2 = DiskFields /\ e2.network = e1.network /\ e2.keyring = e1.keyring /\ e2.applied = e1.applied
      /\ e2.imports = e1.imports /\ e2.pending = e1.pending /\ e2.snapshot = m.height
      /\ e2.import_config = e1.import_config /\ e2.roots = e1.roots /\ e2.audit = e1.audit
  BY <1>3, Zenon DEF DiskFields
<1> HIDE DEF e1
<1>0. /\ DOMAIN e3 = DiskFields /\ e3.network = e2.network /\ e3.keyring = e2.keyring /\ e3.applied = e2.applied
      /\ e3.imports = e2.imports /\ e3.pending = e2.pending /\ e3.snapshot = e2.snapshot
      /\ e3.import_config = e2.import_config /\ e3.roots = e2.roots /\ e3.audit = e2.audit
  <2> HIDE DEF e2
  <2> QED BY <1>4, Zenon DEF DiskFields
<1> HIDE DEF e2, e3
<1>5. d.snapshot \in Nat /\ d.import_config \subseteq Nat
  BY <1>2, Zenon DEF AreFiles
<1>6. Sound(e1, m) /\ Lawful(d, m, e1, S)
  BY <1>3, <1>5, OtherFile, Zenon
<1>7. Sound(e2, m) /\ Lawful(e1, m, e2, S)
  BY <1>2, <1>3, <1>4, <1>5, <1>6, OtherFile, Zenon
<1>8. Sound(e3, m) /\ Lawful(e2, m, e3, S)
  BY <1>0, <1>2, <1>3, <1>4, <1>5, <1>7, OtherFile, Zenon
<1>9. Settled(d, m, S) => Settled(e3, m, S)
  BY <1>0, <1>3, <1>4, Zenon DEF Settled, RootsExplained
<1> QED BY <1>1, <1>6, <1>7, <1>8, <1>9, ThreeSteps, Zenon

\* persist_equivocation_evidence.
LEMMA EvidencePath ==
    ASSUME NEW d, NEW m, Sound(d, m), NEW evidence, NEW S
    PROVE  LET w == EvidenceSteps(d, m, evidence)
           IN  Path(d, m, w, S) /\ (Settled(d, m, S) => EndsSettled(d, m, w, S))
<1> DEFINE slashings == {r \in d.slashings : r.validator_id # evidence.validator_id} \cup {evidence}
           e == [d EXCEPT !.slashings = slashings]
<1>1. EvidenceSteps(d, m, evidence) = <<Step(e, m)>>
  BY Zenon DEF EvidenceSteps
<1> HIDE DEF slashings
<1>2. AreFiles(d)
  BY Zenon DEF Sound
<1>3. /\ DOMAIN e = DiskFields /\ e.network = d.network /\ e.keyring = d.keyring /\ e.applied = d.applied
      /\ e.imports = d.imports /\ e.pending = d.pending /\ e.snapshot = d.snapshot
      /\ e.import_config = d.import_config /\ e.roots = d.roots /\ e.audit = d.audit
      /\ d.snapshot \in Nat /\ d.import_config \subseteq Nat
  BY <1>2, Zenon DEF AreFiles, DiskFields
<1> HIDE DEF e
<1> QED BY <1>1, <1>3, OneOtherFile, Zenon

\* import_snapshot_chunk_set: the record comes when the other three files are
\* those of the manifest.
LEMMA ImportPath ==
    ASSUME NEW d, NEW m, Sound(d, m), NEW S, NEW manifest \in S, manifest.root \in Nat,
           NEW required, RootsMatch(manifest, required)
    PROVE  LET w == ImportSteps(d, m, manifest, required)
           IN  Path(d, m, w, S) /\ (Settled(d, m, S) => EndsSettled(d, m, w, S))
<1> DEFINE e1 == [d EXCEPT !.snapshot = manifest.root]
           e2 == [e1 EXCEPT !.roots = manifest.metadata_roots]
           e3 == [e2 EXCEPT !.required = required]
           record == [root |-> manifest.root, manifest |-> manifest, required |-> required]
           kept == AppendWithRetention(e3.imports, record, m.max_imports)
           e4 == [e3 EXCEPT !.imports = kept]
<1>1. ImportSteps(d, m, manifest, required)
        = <<Step(e1, m), Step(e2, m), Step(e3, m), Step(e4, m)>>
  BY Zenon DEF ImportSteps
<1> DEFINE Kept(e) == /\ DOMAIN e = DiskFields /\ e.network = d.network /\ e.keyring = d.keyring /\ e.applied = d.applied
                      /\ e.pending = d.pending /\ e.snapshot = manifest.root
                      /\ e.import_config = d.import_config
<1>2. AreFiles(d) /\ IsMemory(m)
  BY Zenon DEF Sound
<1>3. DOMAIN d = DiskFields /\ d.import_config \subseteq Nat /\ IsList(d.imports) /\ m.max_imports \in Nat
  BY <1>2, Zenon DEF AreFiles, IsMemory
<1>4. Kept(e1) /\ e1.imports = d.imports
  BY <1>3, Zenon DEF DiskFields
<1> HIDE DEF e1
<1>5. Kept(e2) /\ e2.imports = d.imports /\ e2.roots = manifest.metadata_roots
  BY <1>4, Zenon DEF DiskFields
<1> HIDE DEF e2
<1>6. Kept(e3) /\ e3.imports = d.imports /\ e3.roots = manifest.metadata_roots /\ e3.required = required
  BY <1>5, Zenon DEF DiskFields
<1> HIDE DEF e3
<1>7. IsList(kept) /\ (kept = <<>> \/ kept[Len(kept)] = record)
  BY <1>3, <1>6, RetentionKeepsNewest, Zenon
<1> HIDE DEF kept
<1>8. Kept(e4) /\ e4.imports = kept /\ e4.roots = manifest.metadata_roots
  BY <1>6, Zenon DEF DiskFields
<1> HIDE DEF e4
<1>9. Sound(e1, m) /\ Lawful(d, m, e1, S)
  BY <1>3, <1>4, OtherFile, Zenon
<1>10. Sound(e2, m) /\ Lawful(e1, m, e2, S)
  BY <1>3, <1>4, <1>5, <1>9, OtherFile, Zenon
<1>11. Sound(e3, m) /\ Lawful(e2, m, e3, S)
  BY <1>3, <1>5, <1>6, <1>10, OtherFile, Zenon
<1>12. Sound(e4, m)
  <2>1. AreFiles(e4)
    BY <1>2, <1>7, <1>8, Zenon DEF AreFiles
  <2> QED BY <1>8, <2>1, TogetherSame, Zenon DEF Sound
<1>13. Lawful(e3, m, e4, S)
  <2>1. Authorised(e3, m, e4)
    BY <1>6, <1>8, Zenon DEF Authorised
  <2>2. Genuine(e3, e4, S)
    <3>1. e4.imports \notin {e3.imports, <<>>} => e4.imports[Len(e4.imports)] = record
      BY <1>7, <1>8, Zenon
    <3>2. record.manifest = manifest /\ record.root = manifest.root /\ record.required = required
      BY Zenon
    <3> HIDE DEF record
    <3> QED BY <1>6, <3>1, <3>2, Zenon DEF Genuine
  <2> QED BY <2>1, <2>2, Zenon DEF Lawful
<1>14. Settled(d, m, S) => Settled(e4, m, S)
  BY <1>8, Zenon DEF Settled, RootsExplained
<1> QED BY <1>1, <1>9, <1>10, <1>11, <1>12, <1>13, <1>14, FourSteps, Zenon

\* restart: the memory it builds is sound with the files it reads and the
\* pool it writes back, and holds nothing that was applied.
LEMMA FromDiskFields ==
    ASSUME NEW d, AreFiles(d)
    PROVE  LET m == FromDisk(d)
           IN  /\ DOMAIN m = MemFields /\ m.up
               /\ m.height = d.snapshot /\ m.network = d.network /\ m.keyring = d.keyring /\ m.applied = d.applied
               /\ m.pending = {} /\ m.max_imports \in Nat
               /\ m.max_updates = DefaultMaxUpdates
               /\ m.max_per_validator = DefaultMaxPerValidator
<1> DEFINE max == IF d.import_config = {} THEN DefaultMaxImports
                  ELSE CHOOSE c \in d.import_config : TRUE
<1>1. max \in Nat
  <2>1. d.import_config \subseteq Nat
    BY Zenon DEF AreFiles
  <2> QED BY <2>1, NodeAssumption, Zenon
<1>2. FromDisk(d).max_imports = max
  BY Zenon DEF FromDisk
<1> HIDE DEF max
<1> QED BY <1>1, <1>2, Zenon DEF FromDisk, MemFields

LEMMA LoadedMemory ==
    ASSUME NEW d, AreFiles(d), NEW m \in Loaded(d), NEW m0, NEW S
    PROVE  LET w == <<Step(PersistPending(d, m), m)>>
           IN  Path(d, m0, w, S) /\ (RootsExplained(d, S) => EndsSettled(d, m0, w, S))
<1> DEFINE live == LiveStored(d)
           from == FromDisk(d)
           e == PersistPending(d, m)
<1>1. m = [from EXCEPT !.pending = live]
  BY Zenon DEF Loaded, Inserts
<1>2. live \subseteq d.pending /\ \A a \in live : a.message.update.update_id \notin d.applied
  BY Zenon DEF LiveStored
<1>3. /\ DOMAIN from = MemFields /\ from.up
      /\ from.height = d.snapshot /\ from.network = d.network /\ from.keyring = d.keyring /\ from.applied = d.applied
      /\ from.max_imports \in Nat
  BY FromDiskFields, Zenon
<1> HIDE DEF from, live
<1>4. /\ DOMAIN m = MemFields /\ m.up /\ m.pending = live
      /\ m.height = d.snapshot /\ m.network = d.network /\ m.keyring = d.keyring /\ m.applied = d.applied
      /\ m.max_imports \in Nat
  BY <1>1, <1>3, Zenon DEF MemFields
<1>5. IsPool(live)
  BY <1>2, PartOfPool, Zenon DEF AreFiles
<1>6. Sound(d, m)
  <2>1. IsMemory(m)
    BY <1>4, <1>5, Zenon DEF IsMemory, AreFiles
  <2> QED BY <1>4, <2>1, TogetherEqual, Zenon DEF Sound
<1>7. NoneApplied(m)
  BY <1>2, <1>4, Zenon DEF NoneApplied
<1>8. /\ Sound(e, m)
      /\ e.network = d.network /\ e.keyring = d.keyring /\ e.applied = d.applied /\ e.imports = d.imports
      /\ RootsExplained(d, S) => RootsExplained(e, S)
  BY <1>6, PersistPendingKeeps, Zenon
<1> HIDE DEF e
<1>9. Lawful(d, m0, e, S)
  BY <1>8, QuietIsLawful, Zenon
<1>10. /\ Path(d, m0, <<Step(e, m)>>, S)
       /\ EndsSettled(d, m0, <<Step(e, m)>>, S) <=> Settled(e, m, S)
  BY <1>8, <1>9, OneStep, Zenon
<1> QED BY <1>7, <1>8, <1>10, Zenon DEF Settled, e

--------------------------------------------------------------------------------
(***************************************************************************)
(* The composed system: the invariant, the actions, and the theorems.      *)
(***************************************************************************)
NodeInv(n) ==
    /\ AreFiles(disk[n]) /\ IsMemory(mem[n])
    /\ mem[n].up => Together(disk[n], mem[n])
    /\ Path(disk[n], mem[n], work[n], served)
    /\ faults = 0 => EndsSettled(disk[n], mem[n], work[n], served)

FetchFields == {"phase", "server", "root", "required", "attempt", "manifest", "chunks"}

FetchInv(c) ==
    fetch[c].phase # "none" =>
        /\ DOMAIN fetch[c] = FetchFields
        /\ fetch[c].server \in Node
        /\ fetch[c].manifest \subseteq served

NodesInv ==
    /\ scope \in Scope /\ faults \in Nat
    /\ DOMAIN disk = Node /\ DOMAIN mem = Node /\ DOMAIN work = Node
    /\ \A n \in Node : NodeInv(n)

SyncInv ==
    /\ DOMAIN fetch = Node
    /\ \A manifest \in served : manifest.root \in Nat
    /\ \A c \in Node : FetchInv(c)

IInv == NodesInv /\ SyncInv

--------------------------------------------------------------------------------
(***************************************************************************)
(* Steps of the nodes.                                                     *)
(***************************************************************************)

\* A node that is idle is sound and, if nothing has failed, settled.
LEMMA IdleIsSound ==
    ASSUME NodesInv, NEW n \in Node, Idle(n)
    PROVE  /\ Sound(disk[n], mem[n])
           /\ faults = 0 => Settled(disk[n], mem[n], served)
<1>1. NodeInv(n) /\ mem[n].up /\ work[n] = <<>>
  BY Zenon DEF NodesInv, Idle
<1>2. Sound(disk[n], mem[n])
  BY <1>1, Zenon DEF NodeInv, Sound
<1>3. faults = 0 => EndsSettled(disk[n], mem[n], <<>>, served)
  BY <1>1, Zenon DEF NodeInv
<1> QED BY <1>2, <1>3, EmptyPath, Zenon

\* A step of one node leaves the others as they are.
LEMMA OneNodeMoves ==
    ASSUME NodesInv, NEW n \in Node,
           UNCHANGED <<scope, served>>, faults' \in Nat, faults' = 0 => faults = 0,
           DOMAIN disk' = Node, DOMAIN mem' = Node, DOMAIN work' = Node,
           \A x \in Node \ {n} :
              disk'[x] = disk[x] /\ mem'[x] = mem[x] /\ work'[x] = work[x],
           NodeInv(n)'
    PROVE  NodesInv'
<1>1. ASSUME NEW x \in Node PROVE NodeInv(x)'
  <2>1. CASE x = n
    BY <2>1, Zenon
  <2>2. CASE x # n
    <3>1. NodeInv(x) /\ disk'[x] = disk[x] /\ mem'[x] = mem[x] /\ work'[x] = work[x]
      BY <2>2, Zenon DEF NodesInv
    <3> QED BY <3>1, Zenon DEF NodeInv
  <2> QED BY <2>1, <2>2, Zenon
<1>2. scope' \in Scope
  BY Zenon DEF NodesInv
<1> QED BY <1>1, <1>2, Zenon DEF NodesInv

\* An operation begins: memory k, commits w.
LEMMA BeginKeeps ==
    ASSUME NodesInv, NEW n \in Node, NEW k, NEW w, Begin(n, k, w),
           UNCHANGED <<scope, disk, faults, served>>,
           IsMemory(k), k.up => Together(disk[n], k), Path(disk[n], k, w, served),
           faults = 0 => EndsSettled(disk[n], k, w, served)
    PROVE  NodesInv'
<1>1. /\ faults \in Nat /\ DOMAIN disk = Node /\ DOMAIN mem = Node /\ DOMAIN work = Node
      /\ AreFiles(disk[n])
  BY Zenon DEF NodesInv, NodeInv
<1>2. /\ DOMAIN mem' = Node /\ DOMAIN work' = Node
      /\ mem'[n] = k /\ work'[n] = w
      /\ \A x \in Node \ {n} : mem'[x] = mem[x] /\ work'[x] = work[x]
  BY <1>1, Zenon DEF Begin
<1>3. NodeInv(n)'
  BY <1>1, <1>2, Zenon DEF NodeInv
<1> QED BY <1>1, <1>2, <1>3, OneNodeMoves, Zenon

\* The same from a sound memory.
LEMMA BeginSound ==
    ASSUME NodesInv, NEW n \in Node, NEW k, NEW w, Begin(n, k, w),
           UNCHANGED <<scope, disk, faults, served>>,
           Sound(disk[n], k), Path(disk[n], k, w, served),
           faults = 0 => EndsSettled(disk[n], k, w, served)
    PROVE  NodesInv'
BY BeginKeeps, Zenon DEF Sound

\* An operation that only changes limits, peers or errors in memory.
LEMMA BeginNothing ==
    ASSUME NodesInv, NEW n \in Node, Idle(n), NEW k, AsGoodAs(k, mem[n]), Begin(n, k, <<>>),
           UNCHANGED <<scope, disk, faults, served>>
    PROVE  NodesInv'
<1>1. Sound(disk[n], mem[n]) /\ (faults = 0 => Settled(disk[n], mem[n], served))
  BY IdleIsSound, Zenon
<1>2. IsMemory(mem[n])
  BY <1>1, Zenon DEF Sound
<1>3. Sound(disk[n], k) /\ (NoneApplied(mem[n]) => NoneApplied(k))
  BY <1>1, <1>2, AsGoodAsKeeps, Zenon
<1>4. faults = 0 => Settled(disk[n], k, served)
  BY <1>1, <1>3, Zenon DEF Settled
<1>5. Path(disk[n], k, <<>>, served) /\ (faults = 0 => EndsSettled(disk[n], k, <<>>, served))
  BY <1>4, EmptyPath, Zenon
<1> QED BY <1>3, <1>5, BeginSound, Zenon

\* Commit: the node is where the first step of its path leads.
LEMMA CommitKeeps ==
    ASSUME NodesInv, NEW n \in Node, Commit(n), served' = served
    PROVE  NodesInv' /\ Lawful(disk[n], mem[n], disk'[n], served)
<1> DEFINE d == disk[n]  m == mem[n]  w == work[n]
<1>1. NodeInv(n) /\ w # <<>> /\ faults \in Nat
  BY Zenon DEF NodesInv, Commit
<1>2. /\ DOMAIN disk' = Node /\ DOMAIN mem' = Node /\ DOMAIN work' = Node
      /\ disk'[n] = Head(w).disk /\ mem'[n] = Head(w).mem /\ work'[n] = Tail(w)
      /\ \A x \in Node \ {n} :
            disk'[x] = disk[x] /\ mem'[x] = mem[x] /\ work'[x] = work[x]
      /\ UNCHANGED <<scope, faults>>
  BY Zenon DEF NodesInv, Commit
<1>3. Path(d, m, w, served) /\ (faults = 0 => EndsSettled(d, m, w, served))
  BY <1>1, Zenon DEF NodeInv
<1> HIDE DEF d, m, w
<1>4. /\ Sound(Head(w).disk, Head(w).mem)
      /\ Lawful(d, m, Head(w).disk, served)
      /\ Path(Head(w).disk, Head(w).mem, Tail(w), served)
      /\ faults = 0 => EndsSettled(Head(w).disk, Head(w).mem, Tail(w), served)
  BY <1>1, <1>3, PathAfterCommit, Zenon
<1>5. NodeInv(n)'
  BY <1>2, <1>4, Zenon DEF NodeInv, Sound
<1>6. NodesInv'
  BY <1>1, <1>2, <1>5, OneNodeMoves, Zenon
<1> QED BY <1>2, <1>4, <1>6, Zenon DEF d, m

\* A failed write or a crash ends the operation where it stands.
LEMMA FaultKeeps ==
    ASSUME NodesInv, NEW n \in Node, NEW k, IsMemory(k), k.up => Together(disk[n], k),
           mem' = [mem EXCEPT ![n] = k], work' = [work EXCEPT ![n] = <<>>],
           faults' = faults + 1, UNCHANGED <<scope, disk, served>>
    PROVE  NodesInv'
<1>1. /\ faults \in Nat /\ DOMAIN disk = Node /\ DOMAIN mem = Node /\ DOMAIN work = Node
      /\ AreFiles(disk[n])
  BY Zenon DEF NodesInv, NodeInv
<1>2. /\ DOMAIN mem' = Node /\ DOMAIN work' = Node
      /\ mem'[n] = k /\ work'[n] = <<>>
      /\ \A x \in Node \ {n} : mem'[x] = mem[x] /\ work'[x] = work[x]
  BY <1>1, Zenon
<1>3. faults' \in Nat /\ faults' # 0
  BY <1>1
<1>4. Path(disk[n], k, <<>>, served)
  BY EmptyPath, Zenon
<1>5. NodeInv(n)'
  BY <1>1, <1>2, <1>3, <1>4, Zenon DEF NodeInv
<1> QED BY <1>1, <1>2, <1>3, <1>5, OneNodeMoves, Zenon

LEMMA WriteFailsKeeps ==
    ASSUME NodesInv, NEW n \in Node, WriteFails(n), served' = served
    PROVE  NodesInv'
<1> DEFINE k == IF mem[n].calling THEN Answered(mem[n], TRUE) ELSE mem[n]
<1>1. NodeInv(n) /\ DOMAIN mem = Node
  BY Zenon DEF NodesInv
<1>2. IsMemory(mem[n]) /\ (mem[n].up => Together(disk[n], mem[n]))
  BY <1>1, Zenon DEF NodeInv
<1>3. AsGoodAs(k, mem[n])
  BY <1>2, AnsweredIsAsGood, Zenon DEF AsGoodAs, IsMemory
<1>4. /\ mem' = [mem EXCEPT ![n] = k] /\ work' = [work EXCEPT ![n] = <<>>]
      /\ faults' = faults + 1 /\ UNCHANGED <<scope, disk>>
  BY <1>1, Zenon DEF WriteFails
<1> HIDE DEF k
<1>5. IsMemory(k) /\ (k.up => Together(disk[n], k))
  BY <1>2, <1>3, AsGoodAsKeeps, Zenon DEF AsGoodAs
<1> QED BY <1>4, <1>5, FaultKeeps, Zenon

\* The files of bootstrap_with_validator_set, and the memory with them.
LEMMA BootIsSound == Sound(BootDisk, FromDisk(BootDisk)) /\ \A S : Settled(BootDisk, FromDisk(BootDisk), S)
<1>1. AreFiles(BootDisk)
  <2>1. IsList(<<>>)
    <3>1. <<>> \in Seq({})
      BY EmptySeq, Zenon
    <3> QED BY <3>1, SequenceIsList, Zenon
  <2>2. IsPool({})
    BY FS_EmptySet, Zenon DEF IsPool
  <2>3. /\ DOMAIN BootDisk = DiskFields /\ BootDisk.snapshot = 0 /\ BootDisk.import_config = {}
        /\ BootDisk.imports = <<>> /\ BootDisk.pending = {} /\ BootDisk.keyring = InitialKeyring
    BY Zenon DEF BootDisk, DiskFields
  <2> QED BY <2>1, <2>2, <2>3, NodeAssumption DEF AreFiles
<1> DEFINE m == FromDisk(BootDisk)
<1>2. /\ DOMAIN m = MemFields /\ m.up
      /\ m.height = BootDisk.snapshot /\ m.network = BootDisk.network /\ m.keyring = BootDisk.keyring /\ m.applied = BootDisk.applied
      /\ m.pending = {} /\ m.max_imports \in Nat
  BY <1>1, FromDiskFields, Zenon
<1> HIDE DEF m
<1>3. IsMemory(m)
  BY <1>1, <1>2, FS_EmptySet, Zenon DEF AreFiles, IsMemory, IsPool
<1>4. \A S : Settled(BootDisk, m, S)
  <2>1. DOMAIN BootDisk.roots = {}
    BY Zenon DEF BootDisk, NoRoots
  <2> QED BY <1>2, <2>1, Zenon DEF Settled, RootsExplained, NoneApplied
<1> QED BY <1>1, <1>2, <1>3, <1>4, TogetherEqual, Zenon DEF Sound, m

LEMMA CrashKeeps ==
    ASSUME NodesInv, NEW n \in Node, Crash(n), served' = served
    PROVE  NodesInv'
<1> DEFINE m == FromDisk(BootDisk)
           k == [m EXCEPT !.up = FALSE]
<1>1. IsMemory(m)
  BY BootIsSound, Zenon DEF Sound
<1>2. /\ mem' = [mem EXCEPT ![n] = k] /\ work' = [work EXCEPT ![n] = <<>>]
      /\ faults' = faults + 1 /\ UNCHANGED <<scope, disk>>
  BY Zenon DEF Crash
<1> HIDE DEF m
<1>3. IsMemory(k) /\ ~k.up
  BY <1>1, Zenon DEF IsMemory, MemFields
<1> HIDE DEF k
<1> QED BY <1>2, <1>3, FaultKeeps, Zenon

LEMMA RestartKeeps ==
    ASSUME NodesInv, NEW n \in Node, Restart(n), served' = served
    PROVE  NodesInv'
<1>1. PICK m \in Loaded(disk[n]) :
         Begin(n, mem[n], <<Step(PersistPending(disk[n], m), m)>>)
  BY Zenon DEF Restart
<1>2. work[n] = <<>> /\ UNCHANGED <<scope, disk, faults>> /\ NodeInv(n)
  BY Zenon DEF Restart, NodesInv
<1>3. /\ AreFiles(disk[n]) /\ IsMemory(mem[n]) /\ (mem[n].up => Together(disk[n], mem[n]))
      /\ faults = 0 => EndsSettled(disk[n], mem[n], <<>>, served)
  BY <1>2, Zenon DEF NodeInv
<1>4. faults = 0 => RootsExplained(disk[n], served)
  BY <1>3, EmptyPath, Zenon DEF Settled
<1> DEFINE w == <<Step(PersistPending(disk[n], m), m)>>
<1>5. Path(disk[n], mem[n], w, served) /\ (faults = 0 => EndsSettled(disk[n], mem[n], w, served))
  BY <1>3, <1>4, LoadedMemory, Zenon
<1> HIDE DEF w
<1> QED BY <1>1, <1>2, <1>3, <1>5, BeginKeeps, Zenon DEF w

\* produce_block.
LEMMA NextHeight ==
    ASSUME NEW d, NEW m, Sound(d, m)
    PROVE  LET k == NextBlock(m)
           IN  Sound(d, k) /\ \A S : Settled(d, m, S) => Settled(d, k, S)
<1> DEFINE k == NextBlock(m)
<1>1. AreFiles(d) /\ IsMemory(m) /\ Together(d, m) /\ m.up
  BY Zenon DEF Sound
<1>2. /\ DOMAIN k = MemFields /\ k.height = m.height + 1 /\ k.network = m.network /\ k.keyring = m.keyring
      /\ k.applied = m.applied /\ k.pending = m.pending /\ k.max_imports = m.max_imports
      /\ k.up = m.up /\ m.height \in Nat
  BY <1>1, Zenon DEF IsMemory, MemFields, NextBlock
<1> HIDE DEF k
<1>3. IsMemory(k)
  BY <1>1, <1>2 DEF IsMemory
<1>4. Sound(d, k)
  BY <1>1, <1>2, <1>3, TogetherSame, Zenon DEF Sound
<1>5. \A S : Settled(d, m, S) => Settled(d, k, S)
  BY <1>2, Zenon DEF Settled, NoneApplied
<1> QED BY <1>4, <1>5, Zenon DEF k

LEMMA CommitBlockKeeps ==
    ASSUME NodesInv, NEW n \in Node, NEW block, CommitBlock(n, block), served' = served
    PROVE  NodesInv'
<1> DEFINE k == NextBlock(mem[n])
           w == BlockSteps(disk[n], k, block)
<1>1. Idle(n) /\ Begin(n, k, w) /\ UNCHANGED <<scope, disk, faults>>
  BY Zenon DEF CommitBlock
<1>2. Sound(disk[n], mem[n]) /\ (faults = 0 => Settled(disk[n], mem[n], served))
  BY <1>1, IdleIsSound, Zenon
<1>3. Sound(disk[n], k) /\ (faults = 0 => Settled(disk[n], k, served))
  BY <1>2, NextHeight, Zenon
<1> HIDE DEF k
<1>4. Path(disk[n], k, w, served) /\ (faults = 0 => EndsSettled(disk[n], k, w, served))
  BY <1>3, BlockPath, Zenon
<1> HIDE DEF w
<1> QED BY <1>1, <1>3, <1>4, BeginSound, Zenon

\* The operator changes limits.
LEMMA LimitsKeep ==
    ASSUME NodesInv, NEW n \in Node, Idle(n), NEW k, AsGoodAs(k, mem[n]),
           mem' = [mem EXCEPT ![n] = k], UNCHANGED <<scope, disk, work, faults, served>>
    PROVE  NodesInv'
<1>1. Sound(disk[n], mem[n]) /\ (faults = 0 => Settled(disk[n], mem[n], served))
  BY IdleIsSound, Zenon
<1>2. IsMemory(mem[n])
  BY <1>1, Zenon DEF Sound
<1>3. Sound(disk[n], k) /\ (NoneApplied(mem[n]) => NoneApplied(k))
  BY <1>1, <1>2, AsGoodAsKeeps, Zenon
<1>4. faults = 0 => Settled(disk[n], k, served)
  BY <1>1, <1>3, Zenon DEF Settled
<1>5. Path(disk[n], k, <<>>, served) /\ (faults = 0 => EndsSettled(disk[n], k, <<>>, served))
  BY <1>4, EmptyPath, Zenon
<1>6. /\ faults \in Nat /\ DOMAIN disk = Node /\ DOMAIN mem = Node /\ DOMAIN work = Node
      /\ work[n] = <<>>
  BY Zenon DEF NodesInv, Idle
<1>7. DOMAIN mem' = Node /\ mem'[n] = k /\ \A x \in Node \ {n} : mem'[x] = mem[x]
  BY <1>6, Zenon
<1>8. NodeInv(n)'
  BY <1>3, <1>5, <1>6, <1>7, Zenon DEF NodeInv, Sound
<1> QED BY <1>6, <1>7, <1>8, OneNodeMoves, Zenon

LEMMA OperateKeeps ==
    ASSUME NodesInv, NEW n \in Node, Operate(n)
    PROVE  NodesInv'
<1>0. served' = served
  BY Zenon DEF Operate, syncVars
<1>1. ASSUME NEW l1, NEW l2, SetAuthorizationLimits(n, l1, l2) PROVE NodesInv'
  <2> DEFINE k == [mem[n] EXCEPT !.max_updates = l1, !.max_per_validator = l2]
  <2>1. Idle(n) /\ UNCHANGED <<scope, disk, work, faults>> /\ DOMAIN mem = Node
    BY <1>1, Zenon DEF SetAuthorizationLimits, NodesInv
  <2>2. mem' = [mem EXCEPT ![n] = k]
    BY <1>1, <2>1, Zenon DEF SetAuthorizationLimits
  <2>3. IsMemory(mem[n])
    BY <2>1, IdleIsSound, Zenon DEF Sound
  <2>4. AsGoodAs(k, mem[n])
    BY <2>3, Zenon DEF AsGoodAs, IsMemory, MemFields
  <2> HIDE DEF k
  <2> QED BY <1>0, <2>1, <2>2, <2>4, LimitsKeep, Zenon
<1>2. ASSUME NEW l, SetAuditLimit(n, l) PROVE NodesInv'
  <2> DEFINE k == [mem[n] EXCEPT !.max_audit = l]
  <2>1. Idle(n) /\ UNCHANGED <<scope, disk, work, faults>> /\ DOMAIN mem = Node
    BY <1>2, Zenon DEF SetAuditLimit, NodesInv
  <2>2. mem' = [mem EXCEPT ![n] = k]
    BY <1>2, <2>1, Zenon DEF SetAuditLimit
  <2>3. IsMemory(mem[n])
    BY <2>1, IdleIsSound, Zenon DEF Sound
  <2>4. AsGoodAs(k, mem[n])
    BY <2>3, Zenon DEF AsGoodAs, IsMemory, MemFields
  <2> HIDE DEF k
  <2> QED BY <1>0, <2>1, <2>2, <2>4, LimitsKeep, Zenon
<1>3. ASSUME NEW l \in scope.import_limits, SetImportAuditLimit(n, l) PROVE NodesInv'
  <2> DEFINE d == disk[n]
             k == [mem[n] EXCEPT !.max_imports = l]
             e == [d EXCEPT !.import_config = {l}]
  <2>1. Idle(n) /\ UNCHANGED <<scope, disk, faults>> /\ Begin(n, k, <<Step(e, k)>>)
    BY <1>3, Zenon DEF SetImportAuditLimit
  <2>2. Sound(d, mem[n]) /\ (faults = 0 => Settled(d, mem[n], served))
    BY <2>1, IdleIsSound, Zenon
  <2>3. l \in Nat
    BY NodeAssumption, Zenon DEF NodesInv
  <2>4. IsMemory(mem[n]) /\ AreFiles(d)
    BY <2>2, Zenon DEF Sound
  <2>5. AsGoodAs(k, mem[n])
    BY <2>3, <2>4, Zenon DEF AsGoodAs, IsMemory, MemFields
  <2> HIDE DEF k, d
  <2>6. Sound(d, k) /\ (faults = 0 => Settled(d, k, served))
    BY <2>2, <2>4, <2>5, AsGoodAsKeeps, Zenon DEF Settled
  <2>7. /\ DOMAIN e = DiskFields /\ e.network = d.network /\ e.keyring = d.keyring /\ e.applied = d.applied
        /\ e.imports = d.imports /\ e.pending = d.pending /\ e.snapshot = d.snapshot
        /\ e.import_config = {l} /\ e.roots = d.roots /\ e.audit = d.audit
        /\ d.snapshot \in Nat
    BY <2>4, Zenon DEF AreFiles, DiskFields
  <2> HIDE DEF e
  <2>8. Path(d, k, <<Step(e, k)>>, served) /\ (faults = 0 => EndsSettled(d, k, <<Step(e, k)>>, served))
    BY <2>3, <2>6, <2>7, OneOtherFile, Zenon
  <2> QED BY <1>0, <2>1, <2>6, <2>8, BeginSound, Zenon DEF d
<1> QED BY <1>1, <1>2, <1>3, Zenon DEF Operate

\* What is done by hand to memory only leaves the pool and the files alone.
LEMMA MemoryByHand ==
    ASSUME NodesInv, NEW n \in Node, Idle(n), NEW k, DOMAIN k = MemFields,
           k.up = mem[n].up, k.height = mem[n].height, k.applied = mem[n].applied,
           k.pending = mem[n].pending, k.max_imports = mem[n].max_imports,
           IsFiniteSet(DOMAIN k.keyring), Together(disk[n], k),
           mem' = [mem EXCEPT ![n] = k], UNCHANGED <<scope, disk, work, faults, served>>
    PROVE  NodesInv'
<1>1. Sound(disk[n], mem[n]) /\ (faults = 0 => Settled(disk[n], mem[n], served))
  BY IdleIsSound, Zenon
<1>2. IsMemory(k) /\ AreFiles(disk[n])
  BY <1>1, Zenon DEF Sound, IsMemory
<1>3. faults = 0 => Settled(disk[n], k, served)
  BY <1>1, Zenon DEF Settled, NoneApplied
<1>4. Path(disk[n], k, <<>>, served) /\ (faults = 0 => EndsSettled(disk[n], k, <<>>, served))
  BY <1>3, EmptyPath, Zenon
<1>5. /\ faults \in Nat /\ DOMAIN disk = Node /\ DOMAIN mem = Node /\ DOMAIN work = Node
      /\ work[n] = <<>>
  BY Zenon DEF NodesInv, Idle
<1>6. DOMAIN mem' = Node /\ mem'[n] = k /\ \A x \in Node \ {n} : mem'[x] = mem[x]
  BY <1>5, Zenon
<1>7. NodeInv(n)'
  BY <1>2, <1>4, <1>5, <1>6, Zenon DEF NodeInv
<1> QED BY <1>5, <1>6, <1>7, OneNodeMoves, Zenon

\* A validator set stored by hand: memory k goes with the file.
LEMMA MetadataByHand ==
    ASSUME NodesInv, NEW n \in Node, Idle(n), NEW k, DOMAIN k = MemFields,
           k.up = mem[n].up, k.height = mem[n].height,
           k.pending = mem[n].pending, k.max_imports = mem[n].max_imports,
           IsFiniteSet(DOMAIN k.keyring), NoneApplied(mem[n]) => NoneApplied(k),
           Begin(n, mem[n], <<Step(StoreMetadata(disk[n], k), k)>>),
           Authorised(disk[n], mem[n], StoreMetadata(disk[n], k)),
           UNCHANGED <<scope, disk, faults, served>>
    PROVE  NodesInv'
<1> DEFINE d == disk[n]  m == mem[n]  e == StoreMetadata(d, k)
<1>1. Sound(d, m) /\ (faults = 0 => Settled(d, m, served))
  BY IdleIsSound, Zenon
<1>2. Sound(e, k) /\ e.imports = d.imports /\ (RootsExplained(d, served) => RootsExplained(e, served))
  BY <1>1, StoredMetadata
<1>3. Lawful(d, m, e, served)
  BY <1>2, Zenon DEF Lawful, Genuine
<1>4. faults = 0 => Settled(e, k, served)
  BY <1>1, <1>2, Zenon DEF Settled
<1>5. Begin(n, m, <<Step(e, k)>>)
  BY Zenon
<1> HIDE DEF e
<1>6. Path(d, m, <<Step(e, k)>>, served) /\ (faults = 0 => EndsSettled(d, m, <<Step(e, k)>>, served))
  BY <1>2, <1>3, <1>4, OneStep, Zenon
<1> QED BY <1>1, <1>5, <1>6, BeginSound, Zenon DEF d, m

\* apply_quorum_authorized_validator_set_metadata_update_with_quorum, with
\* messages and a quorum of the caller's.
LEMMA ApplyMessagesKeeps ==
    ASSUME NodesInv, NEW n \in Node, NEW messages \in scope.batches,
           NEW quorum \in scope.quorums \cup {Quorum(mem[n].keyring)},
           ApplyMessages(n, messages, quorum), served' = served
    PROVE  NodesInv'
<1> DEFINE d == disk[n]
           m == mem[n]
           update == FirstOf(messages).message.update
           k == Applied(m, update)
           e == StoreMetadata(d, k)
<1>1. /\ Idle(n) /\ ApplyOutcome(m, messages, quorum) = "ok"
      /\ Begin(n, m, <<Step(e, k)>>) /\ UNCHANGED <<scope, disk, faults>>
  BY Zenon DEF ApplyMessages
<1>2. scope \in Scope
  BY Zenon DEF NodesInv
<1>3. Sound(d, m)
  BY <1>1, IdleIsSound, Zenon
<1>4. IsMemory(m) /\ IsFiniteSet(DOMAIN m.keyring)
  BY <1>3, Zenon DEF Sound, IsMemory
<1>5. quorum \in Nat /\ quorum \in Quorums \cup {Quorum(m.keyring)} /\ messages \in Batches
  <2>1. scope.quorums \subseteq Nat /\ scope.quorums \subseteq Quorums /\ messages \in Batches
    BY <1>2, ReportsAssumption, Zenon DEF Quorums, Batches
  <2>2. Quorum(m.keyring) \in Nat
    BY <1>4, QuorumType, Zenon
  <2> QED BY <2>1, <2>2, Zenon
<1>6. /\ IsFiniteSet(messages)
      /\ \A a \in messages : a.signer \in Nat /\ IsFiniteSet(DOMAIN a.message.update.add)
  BY <1>2, ReportsAssumption, Zenon DEF IsSigned
<1>7. /\ DOMAIN k = MemFields /\ k.network = m.network
      /\ k.keyring = NextKeyring(m.keyring, update)
      /\ k.applied = m.applied \cup {update.update_id} /\ k.pending = m.pending
      /\ k.height = m.height /\ k.max_imports = m.max_imports /\ k.up = m.up
  <2> HIDE DEF update, m
  <2> QED BY <1>4, AppliedMemory, Zenon
<1> HIDE DEF k, d, m
<1>8. /\ FirstOf(messages) \in messages /\ IsFiniteSet(DOMAIN k.keyring)
      /\ FromUpdate(m, messages, quorum, k)
  BY <1>1, <1>4, <1>5, <1>6, <1>7, AppliedIsSigned, Zenon
<1>9. NoneApplied(m) => NoneApplied(k)
  <2>1. update.update_id \in ByHand
    BY <1>5, <1>8 DEF ByHand, UpdateIds
  <2> HIDE DEF update
  <2> QED BY <1>7, <2>1, Zenon DEF NoneApplied
<1>10. Authorised(d, m, e)
  <2>1. e.network = k.network /\ e.keyring = k.keyring /\ e.applied = k.applied
    BY <1>3, <1>7, <1>8, StoredMetadata
  <2> HIDE DEF e
  <2>2. FromUpdate(m, messages, quorum, e)
    BY <1>8, <2>1, Zenon DEF FromUpdate
  <2> QED BY <1>5, <2>2, Zenon DEF Authorised
<1> QED BY <1>1, <1>7, <1>8, <1>9, <1>10, MetadataByHand, Zenon DEF d, m

\* persist_validator_set_metadata.
LEMMA PersistMetadataKeeps ==
    ASSUME NodesInv, NEW n \in Node, NEW v \in scope.validator_sets,
           PersistValidatorSetMetadata(n, v.network, v.keyring), served' = served
    PROVE  NodesInv'
<1> DEFINE d == disk[n]
           m == mem[n]
           k == [m EXCEPT !.network = v.network, !.keyring = v.keyring, !.applied = {}]
           e == StoreMetadata(d, k)
<1>1. Idle(n) /\ Begin(n, m, <<Step(e, k)>>) /\ UNCHANGED <<scope, disk, faults>>
  BY Zenon DEF PersistValidatorSetMetadata
<1>2. IsFiniteSet(DOMAIN v.keyring) /\ v \in ValidatorSets
  BY ReportsAssumption, Zenon DEF NodesInv, ValidatorSets
<1>3. Sound(d, m)
  BY <1>1, IdleIsSound, Zenon
<1>4. DOMAIN m = MemFields
  BY <1>3, Zenon DEF Sound, IsMemory
<1>5. /\ DOMAIN k = MemFields /\ k.network = v.network /\ k.keyring = v.keyring /\ k.applied = {}
      /\ k.pending = m.pending /\ k.height = m.height /\ k.max_imports = m.max_imports /\ k.up = m.up
  <2> HIDE DEF m
  <2> QED BY <1>4, Zenon DEF MemFields
<1> HIDE DEF k, d, m
<1>6. NoneApplied(m) => NoneApplied(k)
  BY <1>5, Zenon DEF NoneApplied
<1>7. Authorised(d, m, e)
  <2>1. e.network = k.network /\ e.keyring = k.keyring /\ e.applied = k.applied
    BY <1>2, <1>3, <1>5, StoredMetadata
  <2> HIDE DEF e
  <2> QED BY <1>2, <1>5, <2>1, Zenon DEF Authorised
<1> QED BY <1>1, <1>2, <1>5, <1>6, <1>7, MetadataByHand, Zenon DEF d, m

\* trust_validator_key.
LEMMA TrustKeeps ==
    ASSUME NodesInv, NEW n \in Node, NEW p \in scope.trusted,
           TrustValidatorKey(n, p[1], p[2]), served' = served
    PROVE  NodesInv'
<1> DEFINE m == mem[n]
           keyring == [v \in DOMAIN m.keyring \cup {p[1]} |-> IF v = p[1] THEN p[2] ELSE m.keyring[v]]
           k == [m EXCEPT !.keyring = keyring]
<1>1. /\ Idle(n) /\ mem' = [mem EXCEPT ![n] = k] /\ UNCHANGED <<scope, disk, work, faults>>
  BY Zenon DEF TrustValidatorKey, NodesInv
<1>2. <<p[1], p[2]>> \in TrustedKeys
  BY ReportsAssumption, Zenon DEF NodesInv, TrustedKeys
<1>3. Together(disk[n], m) /\ DOMAIN m = MemFields /\ IsFiniteSet(DOMAIN m.keyring)
  BY <1>1, IdleIsSound, Zenon DEF Sound, IsMemory
<1>4. IsFiniteSet(DOMAIN keyring)
  BY <1>3, FS_AddElement, Zenon
<1>5. /\ DOMAIN keyring = DOMAIN m.keyring \cup {p[1]} /\ keyring[p[1]] = p[2]
      /\ \A v \in DOMAIN m.keyring : v # p[1] => keyring[v] = m.keyring[v]
  BY Zenon
<1> HIDE DEF keyring
<1>6. /\ DOMAIN k = MemFields /\ k.keyring = keyring /\ k.network = m.network /\ k.applied = m.applied
      /\ k.pending = m.pending /\ k.height = m.height /\ k.max_imports = m.max_imports /\ k.up = m.up
  <2> HIDE DEF m
  <2> QED BY <1>3, Zenon DEF MemFields
<1> HIDE DEF k
<1>7. Together(disk[n], k)
  BY <1>2, <1>3, <1>5, <1>6, Zenon DEF Together, Follows
<1> QED BY <1>1, <1>4, <1>6, <1>7, MemoryByHand, Zenon

\* set_network_id.
LEMMA NetworkIdKeeps ==
    ASSUME NodesInv, NEW n \in Node, NEW network \in scope.networks,
           SetNetworkId(n, network), served' = served
    PROVE  NodesInv'
<1> DEFINE m == mem[n]
           k == [m EXCEPT !.network = network]
<1>1. /\ Idle(n) /\ mem' = [mem EXCEPT ![n] = k] /\ UNCHANGED <<scope, disk, work, faults>>
  BY Zenon DEF SetNetworkId, NodesInv
<1>2. network \in NetworkIds
  BY Zenon DEF NodesInv, NetworkIds
<1>3. Together(disk[n], m) /\ DOMAIN m = MemFields /\ IsFiniteSet(DOMAIN m.keyring)
  BY <1>1, IdleIsSound, Zenon DEF Sound, IsMemory
<1>4. /\ DOMAIN k = MemFields /\ k.keyring = m.keyring /\ k.network = network /\ k.applied = m.applied
      /\ k.pending = m.pending /\ k.height = m.height /\ k.max_imports = m.max_imports /\ k.up = m.up
  <2> HIDE DEF m
  <2> QED BY <1>3, Zenon DEF MemFields
<1> HIDE DEF k
<1>5. Together(disk[n], k)
  BY <1>2, <1>3, <1>4, Zenon DEF Together, Follows
<1> QED BY <1>1, <1>3, <1>4, <1>5, MemoryByHand, Zenon

LEMMA AdministerKeeps ==
    ASSUME NodesInv, NEW n \in Node, Administer(n)
    PROVE  NodesInv'
<1>1. served' = served
  BY Zenon DEF Administer, syncVars
<1> QED BY <1>1, ApplyMessagesKeeps, PersistMetadataKeeps, TrustKeeps, NetworkIdKeeps, Zenon DEF Administer

\* ingest_network_envelope, for what is inside the envelope.
LEMMA IngestUnsignedKeeps ==
    ASSUME NodesInv, NEW n \in Node, Idle(n), NEW m, AsGoodAs(m, mem[n]), NEW message,
           IngestUnsigned(n, m, message), UNCHANGED <<scope, disk, faults, served>>
    PROVE  NodesInv'
<1>1. Sound(disk[n], mem[n]) /\ (faults = 0 => Settled(disk[n], mem[n], served))
  BY IdleIsSound, Zenon
<1>2. IsMemory(mem[n])
  BY <1>1, Zenon DEF Sound
<1>3. Sound(disk[n], m) /\ (faults = 0 => Settled(disk[n], m, served))
  BY <1>1, <1>2, AsGoodAsKeeps, Zenon DEF Settled
<1>4. CASE message.kind = "evidence"
  <2> DEFINE w == EvidenceSteps(disk[n], m, message.evidence)
  <2>1. Begin(n, m, w)
    BY <1>4, Zenon DEF IngestUnsigned
  <2>2. Path(disk[n], m, w, served) /\ (faults = 0 => EndsSettled(disk[n], m, w, served))
    BY <1>3, EvidencePath, Zenon
  <2> HIDE DEF w
  <2> QED BY <1>3, <2>1, <2>2, BeginSound, Zenon
<1>5. CASE message.kind = "block" /\ message.height = m.height + 1
  <2> DEFINE k == NextBlock(m)
             w == BlockSteps(disk[n], k, message.block)
  <2>1. Begin(n, k, w)
    BY <1>5, Zenon DEF IngestUnsigned
  <2>2. Sound(disk[n], k) /\ (faults = 0 => Settled(disk[n], k, served))
    BY <1>3, NextHeight, Zenon
  <2> HIDE DEF k
  <2>3. Path(disk[n], k, w, served) /\ (faults = 0 => EndsSettled(disk[n], k, w, served))
    BY <2>2, BlockPath, Zenon
  <2> HIDE DEF w
  <2> QED BY <2>1, <2>2, <2>3, BeginSound, Zenon
<1>6. CASE message.kind = "transaction" /\ Submits(m, message.tx)
  <2> DEFINE d == disk[n]
             pool == m.mempool \cup {message.tx}
             k == [m EXCEPT !.mempool = pool]
             e == [d EXCEPT !.mempool = k.mempool]
  <2>1. Begin(n, k, <<Step(e, k)>>)
    BY <1>6, Zenon DEF IngestUnsigned, Submit
  <2>2. AreFiles(d) /\ IsMemory(m)
    BY <1>3, Zenon DEF Sound
  <2> HIDE DEF pool
  <2>3. AsGoodAs(k, m)
    BY <2>2, Zenon DEF AsGoodAs, IsMemory, MemFields
  <2> HIDE DEF k
  <2>4. /\ DOMAIN e = DiskFields /\ e.network = d.network /\ e.keyring = d.keyring /\ e.applied = d.applied
        /\ e.imports = d.imports /\ e.pending = d.pending /\ e.snapshot = d.snapshot
        /\ e.import_config = d.import_config /\ e.roots = d.roots /\ e.audit = d.audit
        /\ d.snapshot \in Nat /\ d.import_config \subseteq Nat
    <3> HIDE DEF d
    <3> QED BY <2>2, Zenon DEF AreFiles, DiskFields
  <2>5. Sound(d, k) /\ (faults = 0 => Settled(d, k, served))
    BY <1>3, <2>2, <2>3, AsGoodAsKeeps, Zenon DEF Settled
  <2> HIDE DEF e
  <2>6. Path(d, k, <<Step(e, k)>>, served) /\ (faults = 0 => EndsSettled(d, k, <<Step(e, k)>>, served))
    <3> HIDE DEF d
    <3> QED BY <2>4, <2>5, OneOtherFile, Zenon
  <2> QED BY <2>1, <2>5, <2>6, BeginSound, Zenon DEF d
<1>7. CASE /\ message.kind # "evidence"
           /\ ~(message.kind = "block" /\ message.height = m.height + 1)
           /\ ~(message.kind = "transaction" /\ Submits(m, message.tx))
  <2>1. Begin(n, m, <<>>)
    BY <1>7, Zenon DEF IngestUnsigned, Submit
  <2> QED BY <2>1, BeginNothing, Zenon
<1> QED BY <1>4, <1>5, <1>6, <1>7, Zenon

\* An authorization, from a peer or from a client.
LEMMA AuthorizeKeeps ==
    ASSUME NodesInv, NEW n \in Node, Idle(n), NEW m, AsGoodAs(m, mem[n]), NEW a, IsSigned(a)
    PROVE  LET result == Authorize(disk[n], m, a)
           IN  /\ Sound(disk[n], result.mem)
               /\ Path(disk[n], result.mem, result.steps, served)
               /\ faults = 0 => EndsSettled(disk[n], result.mem, result.steps, served)
<1>1. Sound(disk[n], mem[n]) /\ (faults = 0 => Settled(disk[n], mem[n], served))
  BY IdleIsSound, Zenon
<1>2. IsMemory(mem[n])
  BY <1>1, Zenon DEF Sound
<1>3. Sound(disk[n], m) /\ (faults = 0 => Settled(disk[n], m, served))
  BY <1>1, <1>2, AsGoodAsKeeps, Zenon DEF Settled
<1> QED BY <1>3, AuthorizePath, Zenon

LEMMA IngestKeeps ==
    ASSUME NodesInv, NEW n \in Node, NEW e \in scope.envelopes, IngestNetworkEnvelope(n, e),
           served' = served
    PROVE  NodesInv'
<1> DEFINE m == Observed(n, mem[n], e.from)
           signed == e.message.signed
           result == Authorize(disk[n], m, signed)
<1>1. Idle(n) /\ UNCHANGED <<scope, disk, faults>>
  BY Zenon DEF IngestNetworkEnvelope
<1>2. IsMemory(mem[n])
  BY <1>1, IdleIsSound, Zenon DEF Sound
<1>3. AsGoodAs(m, mem[n])
  BY <1>2, Zenon DEF Observed, AsGoodAs, IsMemory, MemFields
<1>4. \/ e.message.kind # "signed" /\ IngestUnsigned(n, m, e.message)
      \/ Begin(n, m, <<>>)
      \/ e.message.kind = "signed" /\ Begin(n, result.mem, result.steps)
      \/ IngestUnsigned(n, m, signed.message)
  BY Zenon DEF IngestNetworkEnvelope
<1> HIDE DEF m
<1>5. CASE e.message.kind = "signed" /\ Begin(n, result.mem, result.steps)
  <2>1. IsSigned(signed)
    BY <1>5, ReportsAssumption, Zenon DEF NodesInv
  <2> HIDE DEF signed
  <2>2. /\ Sound(disk[n], result.mem)
        /\ Path(disk[n], result.mem, result.steps, served)
        /\ faults = 0 => EndsSettled(disk[n], result.mem, result.steps, served)
    BY <1>1, <1>3, <2>1, AuthorizeKeeps, Zenon
  <2> HIDE DEF result
  <2> QED BY <1>1, <1>5, <2>2, BeginSound, Zenon
<1> QED BY <1>1, <1>3, <1>4, <1>5, IngestUnsignedKeeps, BeginNothing, Zenon

\* handle_rpc_request.
LEMMA RpcKeeps ==
    ASSUME NodesInv, NEW n \in Node, NEW r \in scope.requests, HandleRpcRequest(n, r),
           served' = served
    PROVE  NodesInv'
<1>1. Idle(n) /\ UNCHANGED <<scope, disk, faults>>
  BY Zenon DEF HandleRpcRequest
<1>2. IsMemory(mem[n])
  BY <1>1, IdleIsSound, Zenon DEF Sound
<1>3. CASE r.call = "ProposeValidatorSetMetadataUpdate"
  <2> DEFINE m == [mem[n] EXCEPT !.calling = TRUE]
             result == Authorize(disk[n], m, r.authorization)
             w == AnsweredAtEnd(result.steps, result.error)
  <2>1. IsSigned(r.authorization)
    BY <1>3, ReportsAssumption, Zenon DEF NodesInv
  <2>2. AsGoodAs(m, mem[n])
    BY <1>2, Zenon DEF AsGoodAs, IsMemory, MemFields
  <2>3. \/ Begin(n, Answered(mem[n], TRUE), <<>>)
        \/ result.steps # <<>> /\ Begin(n, result.mem, w)
    BY <1>3, Zenon DEF HandleRpcRequest, Propose
  <2> HIDE DEF m
  <2>4. CASE Begin(n, Answered(mem[n], TRUE), <<>>)
    BY <1>1, <1>2, <2>4, AnsweredIsAsGood, BeginNothing, Zenon
  <2>5. CASE result.steps # <<>> /\ Begin(n, result.mem, w)
    <3>1. /\ Sound(disk[n], result.mem)
          /\ Path(disk[n], result.mem, result.steps, served)
          /\ faults = 0 => EndsSettled(disk[n], result.mem, result.steps, served)
      BY <1>1, <2>1, <2>2, AuthorizeKeeps, Zenon
    <3> HIDE DEF result
    <3>2. Path(disk[n], result.mem, w, served) /\ (faults = 0 => EndsSettled(disk[n], result.mem, w, served))
      BY <2>5, <3>1, AnsweredPath, Zenon
    <3> HIDE DEF w
    <3> QED BY <1>1, <2>5, <3>1, <3>2, BeginSound, Zenon
  <2> QED BY <2>3, <2>4, <2>5, Zenon
<1>4. CASE r.call # "ProposeValidatorSetMetadataUpdate"
  <2> DEFINE error == ~ReadFound(disk[n], r)
  <2>1. Begin(n, Answered(mem[n], error), <<>>)
    BY <1>4, Zenon DEF HandleRpcRequest
  <2> HIDE DEF error
  <2> QED BY <1>1, <1>2, <2>1, AnsweredIsAsGood, BeginNothing, Zenon
<1> QED BY <1>3, <1>4, Zenon

LEMMA CertificateKeeps ==
    ASSUME NodesInv, NEW n \in Node, NEW height, PersistFinalityCertificate(n, height),
           served' = served
    PROVE  NodesInv'
<1> DEFINE d == disk[n]
           e == [d EXCEPT !.certificates = @ \cup {height}]
<1>1. Idle(n) /\ UNCHANGED <<scope, disk, faults>> /\ Begin(n, mem[n], <<Step(e, mem[n])>>)
  BY Zenon DEF PersistFinalityCertificate
<1>2. Sound(d, mem[n]) /\ (faults = 0 => Settled(d, mem[n], served))
  BY <1>1, IdleIsSound, Zenon
<1>3. AreFiles(d)
  BY <1>2, Zenon DEF Sound
<1> HIDE DEF d
<1>4. /\ DOMAIN e = DiskFields /\ e.network = d.network /\ e.keyring = d.keyring /\ e.applied = d.applied
      /\ e.imports = d.imports /\ e.pending = d.pending /\ e.snapshot = d.snapshot
      /\ e.import_config = d.import_config /\ e.roots = d.roots /\ e.audit = d.audit
      /\ d.snapshot \in Nat /\ d.import_config \subseteq Nat
  BY <1>3, Zenon DEF AreFiles, DiskFields
<1> HIDE DEF e
<1> DEFINE m == mem[n]
<1> HIDE DEF m
<1>5. Path(d, m, <<Step(e, m)>>, served) /\ (faults = 0 => EndsSettled(d, m, <<Step(e, m)>>, served))
  BY <1>2, <1>4, OneOtherFile, Zenon DEF m
<1> QED BY <1>1, <1>2, <1>5, BeginSound, Zenon DEF d, m

LEMMA ApplyPendingKeeps ==
    ASSUME NodesInv, NEW n \in Node, NEW id, ApplyPending(n, id), served' = served
    PROVE  NodesInv'
<1> DEFINE w == ApplySteps(disk[n], mem[n], id)
<1>1. /\ Idle(n) /\ id \in UpdateIds(mem[n].pending)
      /\ Begin(n, mem[n], w) /\ UNCHANGED <<scope, disk, faults>>
  BY Zenon DEF ApplyPending
<1>2. Sound(disk[n], mem[n]) /\ (faults = 0 => Settled(disk[n], mem[n], served))
  BY <1>1, IdleIsSound, Zenon
<1>3. Path(disk[n], mem[n], w, served) /\ (faults = 0 => EndsSettled(disk[n], mem[n], w, served))
  BY <1>1, <1>2, ApplyPath, Zenon
<1> HIDE DEF w
<1> QED BY <1>1, <1>2, <1>3, BeginSound, Zenon

LEMMA PruneKeeps ==
    ASSUME NodesInv, NEW n \in Node, Prune(n), served' = served
    PROVE  NodesInv'
<1> DEFINE first == FirstIds(Prunable(mem[n]), 1)
           part == {a \in mem[n].pending : a.message.update.update_id \notin first}
           k == [mem[n] EXCEPT !.pending = part]
           w == PruneSteps(disk[n], mem[n], Prunable(mem[n]))
<1>1. Idle(n) /\ Begin(n, k, w) /\ UNCHANGED <<scope, disk, faults>>
  BY Zenon DEF Prune, PrunedOf
<1>2. Sound(disk[n], mem[n]) /\ (faults = 0 => Settled(disk[n], mem[n], served))
  BY <1>1, IdleIsSound, Zenon
<1>3. part \subseteq mem[n].pending
  BY Zenon
<1> HIDE DEF part
<1>4. Sound(disk[n], k)
  BY <1>2, <1>3, PrunedMemory, Zenon
<1> HIDE DEF k
<1>5. Path(disk[n], k, w, served) /\ (faults = 0 => EndsSettled(disk[n], k, w, served))
  BY <1>2, PrunePath, Zenon DEF Settled
<1> HIDE DEF w
<1> QED BY <1>1, <1>4, <1>5, BeginSound, Zenon

LEMMA UpdateKeeps ==
    ASSUME NodesInv, NEW n \in Node, UpdateValidatorSet(n)
    PROVE  NodesInv'
<1>1. served' = served
  BY Zenon DEF UpdateValidatorSet, syncVars
<1> QED BY <1>1, IngestKeeps, RpcKeeps, CertificateKeeps, ApplyPendingKeeps, PruneKeeps, Zenon
        DEF UpdateValidatorSet

\* import_snapshot_chunk_set of a set that was fetched.
LEMMA ImportKeeps ==
    ASSUME NodesInv, SyncInv, NEW c \in Node, Import(c)
    PROVE  NodesInv'
<1>1. PICK manifest \in fetch[c].manifest :
         /\ RootsMatch(manifest, fetch[c].required)
         /\ Begin(c, mem[c], ImportSteps(disk[c], mem[c], manifest, fetch[c].required))
  BY Zenon DEF Import
<1>2. fetch[c].phase = "fetched" /\ Idle(c) /\ UNCHANGED <<scope, disk, faults, served>>
  BY Zenon DEF Import
<1>3. manifest \in served /\ manifest.root \in Nat
  BY <1>1, <1>2, Zenon DEF SyncInv, FetchInv
<1>4. Sound(disk[c], mem[c]) /\ (faults = 0 => Settled(disk[c], mem[c], served))
  BY <1>2, IdleIsSound, Zenon
<1> DEFINE w == ImportSteps(disk[c], mem[c], manifest, fetch[c].required)
<1>5. Path(disk[c], mem[c], w, served) /\ (faults = 0 => EndsSettled(disk[c], mem[c], w, served))
  BY <1>1, <1>3, <1>4, ImportPath, Zenon
<1>6. Begin(c, mem[c], w)
  BY <1>1, Zenon
<1> HIDE DEF w
<1> QED BY <1>2, <1>4, <1>5, <1>6, BeginSound, Zenon

LEMMA MetricsKeep ==
    ASSUME NodesInv, NEW c \in Node, PersistMetrics(c)
    PROVE  NodesInv'
<1> DEFINE d == disk[c]
           m == mem[c]
           metrics == {fetch[c].attempt}
           e == [d EXCEPT !.metrics = metrics]
<1>1. Idle(c) /\ UNCHANGED <<scope, disk, faults, served>> /\ Begin(c, m, <<Step(e, m)>>)
  BY Zenon DEF PersistMetrics
<1>2. Sound(d, m) /\ (faults = 0 => Settled(d, m, served))
  BY <1>1, IdleIsSound, Zenon
<1>3. AreFiles(d)
  BY <1>2, Zenon DEF Sound
<1> HIDE DEF d, m, metrics
<1>4. /\ DOMAIN e = DiskFields /\ e.network = d.network /\ e.keyring = d.keyring /\ e.applied = d.applied
      /\ e.imports = d.imports /\ e.pending = d.pending /\ e.snapshot = d.snapshot
      /\ e.import_config = d.import_config /\ e.roots = d.roots /\ e.audit = d.audit
      /\ d.snapshot \in Nat /\ d.import_config \subseteq Nat
  BY <1>3, Zenon DEF AreFiles, DiskFields
<1> HIDE DEF e
<1>5. Path(d, m, <<Step(e, m)>>, served) /\ (faults = 0 => EndsSettled(d, m, <<Step(e, m)>>, served))
  BY <1>2, <1>4, OneOtherFile, Zenon
<1> QED BY <1>1, <1>2, <1>5, BeginSound, Zenon DEF d

--------------------------------------------------------------------------------
(***************************************************************************)
(* Steps of a fetch.                                                       *)
(***************************************************************************)

\* A step of one fetch leaves the others as they are, also when it adds to
\* the manifests that were served.
LEMMA OneFetchMoves ==
    ASSUME SyncInv, NEW c \in Node, NEW f, fetch' = [fetch EXCEPT ![c] = f],
           served \subseteq served', \A manifest \in served' : manifest.root \in Nat,
           f.phase # "none" => /\ DOMAIN f = FetchFields
                               /\ f.server \in Node
                               /\ f.manifest \subseteq served'
    PROVE  SyncInv'
<1>1. DOMAIN fetch' = Node /\ fetch'[c] = f /\ \A x \in Node \ {c} : fetch'[x] = fetch[x]
  BY Zenon DEF SyncInv
<1>2. ASSUME NEW x \in Node PROVE FetchInv(x)'
  <2>1. CASE x = c
    BY <1>1, <2>1, Zenon DEF FetchInv
  <2>2. CASE x # c
    BY <1>1, <2>2, Zenon DEF FetchInv, SyncInv
  <2> QED BY <2>1, <2>2, Zenon
<1> QED BY <1>1, <1>2, Zenon DEF SyncInv

\* A fetch forgets what it received or keeps it.
LEMMA FetchGoesOn ==
    ASSUME SyncInv, NEW c \in Node, fetch[c].phase # "none", NEW f, served' = served,
           fetch' = [fetch EXCEPT ![c] = f],
           DOMAIN f = DOMAIN fetch[c], f.server = fetch[c].server,
           f.manifest \in {{}, fetch[c].manifest}
    PROVE  SyncInv'
<1>1. /\ DOMAIN f = FetchFields /\ f.server \in Node /\ f.manifest \subseteq served'
      /\ \A manifest \in served' : manifest.root \in Nat
  BY Zenon DEF SyncInv, FetchInv
<1> QED BY <1>1, OneFetchMoves, Zenon

LEMMA NoFetchKeeps ==
    ASSUME SyncInv, NEW c \in Node, fetch' = [fetch EXCEPT ![c] = NoFetch], served' = served
    PROVE  SyncInv'
<1>1. NoFetch.phase = "none" /\ \A manifest \in served' : manifest.root \in Nat
  BY Zenon DEF NoFetch, SyncInv
<1> QED BY <1>1, OneFetchMoves, Zenon

\* One request and its response: the manifest is the first one received or
\* the one served now, and the server's files name a height.
LEMMA ExchangeKeeps ==
    ASSUME IInv, NEW c \in Node, Exchange(c)
    PROVE  IInv'
<1> DEFINE f == fetch[c]
           d == disk[f.server]
           response == Response(d, Len(f.chunks), MaxChunksPerRequest)
           g == Received(f, response)
<1>1. /\ f.phase = "request" /\ UNCHANGED nodeVars
      /\ fetch' = [fetch EXCEPT ![c] = g]
      /\ served' = served \cup {response.manifest}
  BY Zenon DEF Exchange
<1>2. DOMAIN f = FetchFields /\ f.server \in Node /\ f.manifest \subseteq served
  BY <1>1, Zenon DEF IInv, SyncInv, FetchInv
<1>3. AreFiles(d)
  BY <1>2, Zenon DEF IInv, NodesInv, NodeInv
<1>4. response.manifest.root \in Nat
  BY <1>3, Zenon DEF Response, ManifestOf, AreFiles
<1> HIDE DEF response, f
<1>5. \A manifest \in served' : manifest.root \in Nat
  BY <1>1, <1>4, Zenon DEF IInv, SyncInv
<1>6. DOMAIN g = FetchFields /\ g.server = f.server /\ g.manifest \subseteq served'
  <2> DEFINE manifest == IF f.manifest = {} THEN response.manifest ELSE CHOOSE m \in f.manifest : TRUE
             chunks == f.chunks \o response.chunks
  <2>1. manifest \in served'
    BY <1>1, <1>2
  <2>2. \/ g = [f EXCEPT !.phase = "failed"]
        \/ g = [f EXCEPT !.manifest = {manifest}, !.chunks = chunks]
        \/ g = [f EXCEPT !.phase = "fetched", !.manifest = {manifest}, !.chunks = chunks]
    BY DEF Received
  <2> HIDE DEF manifest, chunks, g
  <2>3. DOMAIN g = FetchFields /\ g.server = f.server /\ g.manifest \in {f.manifest, {manifest}}
    BY <1>2, <2>2, Zenon DEF FetchFields
  <2>4. f.manifest \subseteq served'
    BY <1>1, <1>2, Zenon
  <2> QED BY <2>1, <2>3, <2>4, Zenon
<1> HIDE DEF g
<1>7. SyncInv'
  BY <1>1, <1>2, <1>5, <1>6, OneFetchMoves, Zenon DEF IInv
<1>8. NodesInv'
  <2>1. ASSUME NEW n \in Node PROVE NodeInv(n)'
    <3>1. NodeInv(n) /\ served \subseteq served'
      BY <1>1, Zenon DEF IInv, NodesInv
    <3>2. /\ AreFiles(disk[n]) /\ IsMemory(mem[n])
          /\ mem[n].up => Together(disk[n], mem[n])
          /\ Path(disk[n], mem[n], work[n], served)
          /\ faults = 0 => EndsSettled(disk[n], mem[n], work[n], served)
      BY <3>1, Zenon DEF NodeInv
    <3>3. /\ Path(disk[n], mem[n], work[n], served')
          /\ faults = 0 => EndsSettled(disk[n], mem[n], work[n], served')
      BY <3>1, <3>2, ServedGrows, Zenon
    <3> QED BY <1>1, <3>2, <3>3, Zenon DEF NodeInv, nodeVars
  <2>2. /\ scope' \in Scope /\ faults' \in Nat
        /\ DOMAIN disk' = Node /\ DOMAIN mem' = Node /\ DOMAIN work' = Node
    BY <1>1, Zenon DEF IInv, NodesInv, nodeVars
  <2> QED BY <2>1, <2>2, Zenon DEF NodesInv
<1> QED BY <1>7, <1>8, Zenon DEF IInv

\* Nothing changes on the nodes.
LEMMA NodesStay ==
    ASSUME NodesInv, UNCHANGED <<nodeVars, served>>
    PROVE  NodesInv'
<1>1. \A n \in Node : NodeInv(n)'
  BY Zenon DEF NodesInv, NodeInv, nodeVars
<1> QED BY <1>1, Zenon DEF NodesInv, nodeVars

LEMMA SyncStays ==
    ASSUME SyncInv, UNCHANGED <<fetch, served>>
    PROVE  SyncInv'
<1>1. \A c \in Node : FetchInv(c)'
  BY Zenon DEF SyncInv, FetchInv
<1> QED BY <1>1, Zenon DEF SyncInv

LEMMA FetchStepKeeps ==
    ASSUME IInv, NEW c \in Node, FetchStep(c)
    PROVE  IInv'
<1> DEFINE f == fetch[c]
<1>1. CASE Exchange(c)
  BY <1>1, ExchangeKeeps, Zenon
<1>2. CASE ~Exchange(c)
  <2>1. PICK g :
           /\ f.phase # "none" /\ UNCHANGED <<nodeVars, served>>
           /\ fetch' = [fetch EXCEPT ![c] = g]
           /\ \/ g = [f EXCEPT !.phase = "request", !.manifest = {}, !.chunks = <<>>]
              \/ g = [f EXCEPT !.phase = "connect", !.attempt = @ + 1]
              \/ g = [f EXCEPT !.phase = "failed", !.manifest = {}, !.chunks = <<>>]
    BY <1>2, Zenon DEF FetchStep, Dial, Connect, ConnectFails, StreamFails, NextAttempt
  <2>2. DOMAIN f = FetchFields
    BY <2>1, Zenon DEF IInv, SyncInv, FetchInv
  <2>3. DOMAIN g = DOMAIN f /\ g.server = f.server /\ g.manifest \in {{}, f.manifest}
    BY <2>1, <2>2, Zenon DEF FetchFields
  <2>4. SyncInv'
    BY <2>1, <2>3, FetchGoesOn, Zenon DEF IInv
  <2>5. NodesInv'
    BY <2>1, NodesStay, Zenon DEF IInv
  <2> QED BY <2>4, <2>5, Zenon DEF IInv
<1> QED BY <1>1, <1>2, Zenon

LEMMA SyncKeeps ==
    ASSUME IInv, NEW c \in Node, Sync(c)
    PROVE  IInv'
<1>0. NodesInv /\ SyncInv
  BY Zenon DEF IInv
<1>1. ASSUME NEW s \in Node, NEW required, StartFetch(c, s, required) PROVE IInv'
  <2> DEFINE f == [phase |-> "connect", server |-> s, root |-> disk[s].snapshot,
                   required |-> required, attempt |-> 1, manifest |-> {}, chunks |-> <<>>]
  <2>1. UNCHANGED <<nodeVars, served>> /\ fetch' = [fetch EXCEPT ![c] = f]
    BY <1>1, Zenon DEF StartFetch
  <2>2. DOMAIN f = FetchFields /\ f.server = s /\ f.manifest = {}
    BY Zenon DEF FetchFields
  <2> HIDE DEF f
  <2>3. \A manifest \in served' : manifest.root \in Nat
    BY <1>0, <2>1, Zenon DEF SyncInv
  <2>4. SyncInv'
    BY <1>0, <2>1, <2>2, <2>3, OneFetchMoves, Zenon
  <2> QED BY <1>0, <2>1, <2>4, NodesStay, Zenon DEF IInv
<1>2. CASE FetchStep(c)
  BY <1>2, FetchStepKeeps, Zenon
<1>3. CASE Import(c)
  <2> DEFINE f == [fetch[c] EXCEPT !.phase = "imported"]
  <2>1. fetch[c].phase = "fetched" /\ fetch' = [fetch EXCEPT ![c] = f] /\ served' = served
    BY <1>0, <1>3, Zenon DEF Import, SyncInv
  <2>2. DOMAIN fetch[c] = FetchFields
    BY <1>0, <2>1, Zenon DEF SyncInv, FetchInv
  <2>3. DOMAIN f = DOMAIN fetch[c] /\ f.server = fetch[c].server /\ f.manifest = fetch[c].manifest
    BY <2>2, Zenon DEF FetchFields
  <2> HIDE DEF f
  <2>4. SyncInv'
    BY <1>0, <2>1, <2>3, FetchGoesOn, Zenon
  <2> QED BY <1>0, <1>3, <2>4, ImportKeeps, Zenon DEF IInv
<1>4. CASE PersistMetrics(c)
  <2>1. fetch' = [fetch EXCEPT ![c] = NoFetch] /\ served' = served
    BY <1>4, Zenon DEF PersistMetrics
  <2> QED BY <1>0, <1>4, <2>1, NoFetchKeeps, MetricsKeep, Zenon DEF IInv
<1>5. CASE GiveUp(c)
  <2>1. fetch' = [fetch EXCEPT ![c] = NoFetch] /\ UNCHANGED <<nodeVars, served>>
    BY <1>5, Zenon DEF GiveUp
  <2> QED BY <1>0, <2>1, NoFetchKeeps, NodesStay, Zenon DEF IInv
<1> QED BY <1>1, <1>2, <1>3, <1>4, <1>5, Zenon DEF Sync

--------------------------------------------------------------------------------
(***************************************************************************)
(* The inductive invariant.                                                *)
(***************************************************************************)
LEMMA InitHolds == Init => IInv
<1> SUFFICES ASSUME Init PROVE IInv
  BY Zenon
<1>1. ASSUME NEW n \in Node PROVE NodeInv(n)
  <2>1. disk[n] = BootDisk /\ mem[n] = FromDisk(BootDisk) /\ work[n] = <<>>
    BY Zenon DEF Init, NodeInit
  <2>2. Sound(disk[n], mem[n]) /\ Settled(disk[n], mem[n], served)
    BY <2>1, BootIsSound, Zenon
  <2>3. Path(disk[n], mem[n], work[n], served) /\ EndsSettled(disk[n], mem[n], work[n], served)
    BY <2>1, <2>2, EmptyPath, Zenon
  <2> QED BY <2>2, <2>3, Zenon DEF NodeInv, Sound
<1>2. NodesInv
  BY <1>1, Zenon DEF Init, NodeInit, NodesInv
<1>3. SyncInv
  BY Zenon DEF Init, SyncInit, SyncInv, FetchInv, NoFetch
<1> QED BY <1>2, <1>3, Zenon DEF IInv

LEMMA StepKeeps == IInv /\ [Next]_vars => IInv'
<1> SUFFICES ASSUME IInv, [Next]_vars PROVE IInv'
  BY Zenon
<1>0. NodesInv /\ SyncInv /\ scope.collecting \subseteq Node /\ scope.fetching \subseteq Node
  BY NodeAssumption, Zenon DEF IInv, NodesInv
<1>1. ASSUME NEW n \in Node, Operate(n) \/ Administer(n) \/ UpdateValidatorSet(n) PROVE IInv'
  <2>1. UNCHANGED <<fetch, served>>
    BY <1>1, Zenon DEF Operate, Administer, UpdateValidatorSet, syncVars
  <2> QED BY <1>0, <1>1, <2>1, OperateKeeps, AdministerKeeps, UpdateKeeps, SyncStays, Zenon DEF IInv
<1>2. ASSUME NEW n \in Node, Run(n) PROVE IInv'
  <2>1. UNCHANGED <<fetch, served>>
    BY <1>2, Zenon DEF Run, syncVars
  <2>2. NodesInv'
    BY <1>0, <1>2, <2>1, CommitKeeps, WriteFailsKeeps, RestartKeeps, CommitBlockKeeps, Zenon DEF Run
  <2> QED BY <1>0, <2>1, <2>2, SyncStays, Zenon DEF IInv
<1>3. ASSUME NEW n \in Node, CrashAll(n) PROVE IInv'
  <2>1. Crash(n) /\ fetch' = [fetch EXCEPT ![n] = NoFetch] /\ served' = served
    BY <1>3, Zenon DEF CrashAll
  <2> QED BY <1>0, <2>1, CrashKeeps, NoFetchKeeps, Zenon DEF IInv
<1>4. CASE UNCHANGED vars
  <2>1. UNCHANGED <<nodeVars, served>> /\ UNCHANGED <<fetch, served>>
    BY <1>4, Zenon DEF vars, syncVars
  <2> QED BY <1>0, <2>1, NodesStay, SyncStays, Zenon DEF IInv
<1> QED BY <1>0, <1>1, <1>2, <1>3, <1>4, SyncKeeps, Zenon DEF Next

\* What holds of every node in every state, also between two commits: the
\* operation it is in lists only commits the properties below allow.
THEOREM Invariance == Spec => []IInv
<1>1. Init => IInv
  BY InitHolds, Zenon
<1>2. IInv /\ [Next]_vars => IInv'
  BY StepKeeps, Zenon
<1> QED BY <1>1, <1>2, PTL DEF Spec

--------------------------------------------------------------------------------
(***************************************************************************)
(* The properties.                                                         *)
(***************************************************************************)

\* The files of a node change only by a commit, and a commit is lawful.
LEMMA FilesChangeLawfully ==
    ASSUME IInv, [Next]_vars, NEW n \in Node
    PROVE  disk'[n] = disk[n] \/ Lawful(disk[n], mem[n], disk'[n], served)
<1>1. CASE \E x \in Node : Commit(x) /\ UNCHANGED syncVars
  <2>1. PICK x \in Node : Commit(x) /\ UNCHANGED syncVars
    BY <1>1, Zenon
  <2>2. served' = served /\ NodesInv
    BY <2>1, Zenon DEF syncVars, IInv
  <2>3. CASE x = n
    BY <2>1, <2>2, <2>3, CommitKeeps, Zenon
  <2>4. CASE x # n
    BY <2>1, <2>4, Zenon DEF Commit, IInv, NodesInv
  <2> QED BY <2>3, <2>4, Zenon
<1>2. CASE ~ \E x \in Node : Commit(x) /\ UNCHANGED syncVars
  <2>1. ASSUME NEW x, Operate(x) PROVE disk' = disk
    BY <2>1, Zenon DEF Operate, SetAuthorizationLimits, SetAuditLimit, SetImportAuditLimit
  <2>2. ASSUME NEW x, UpdateValidatorSet(x) PROVE disk' = disk
    BY <2>2, Zenon DEF UpdateValidatorSet, IngestNetworkEnvelope, HandleRpcRequest,
                PersistFinalityCertificate, ApplyPending, Prune
  <2>3. ASSUME NEW x \in Node, Run(x) PROVE disk' = disk
    BY <1>2, <2>3, Zenon DEF Run, WriteFails, Restart, CommitBlock
  <2>4. ASSUME NEW x, CrashAll(x) PROVE disk' = disk
    BY <2>4, Zenon DEF CrashAll, Crash
  <2>5. ASSUME NEW x, Sync(x) PROVE disk' = disk
    BY <2>5, Zenon DEF Sync, StartFetch, FetchStep, Dial, Connect, ConnectFails, Exchange,
                StreamFails, Import, PersistMetrics, GiveUp, nodeVars
  <2>6. CASE UNCHANGED vars
    BY <2>6, Zenon DEF vars, nodeVars
  <2>7. ASSUME NEW x, Administer(x) PROVE disk' = disk
    BY <2>7, Zenon DEF Administer, ApplyMessages, PersistValidatorSetMetadata, TrustValidatorKey,
                SetNetworkId
  <2> QED BY <2>1, <2>2, <2>3, <2>4, <2>5, <2>6, <2>7, Zenon DEF Next
<1> QED BY <1>1, <1>2, Zenon

\* A stored validator set changes only by an update that a quorum of the
\* validators in memory signed with the keys they have there, once per update,
\* or by hand; and memory follows the file, but for what was put there by hand
\* (apply_pending_validator_set_metadata_update, restart, trust_validator_key,
\* persist_validator_set_metadata).
THEOREM KeyringSafety == Spec => UpdatesAreAuthorised
<1>1. IInv /\ IInv' /\ [Next]_vars =>
        [\A n \in Node :
          /\ \/ disk'[n].network = disk[n].network /\ disk'[n].keyring = disk[n].keyring
                /\ disk'[n].applied = disk[n].applied
             \/ FromUpdate(mem[n], mem[n].pending, Quorum(mem[n].keyring), disk'[n])
             \/ \E messages \in Batches : \E quorum \in Quorums \cup {Quorum(mem[n].keyring)} :
                   FromUpdate(mem[n], messages, quorum, disk'[n])
             \/ \E v \in ValidatorSets : /\ disk'[n].network = v.network
                                         /\ disk'[n].keyring = v.keyring
                                         /\ disk'[n].applied = {}
          /\ mem'[n].up => Follows(mem'[n], disk'[n])]_vars
  <2> SUFFICES ASSUME IInv, IInv', [Next]_vars, NEW n \in Node
               PROVE  /\ Authorised(disk[n], mem[n], disk'[n])
                      /\ mem'[n].up => Follows(mem'[n], disk'[n])
    BY Zenon DEF Authorised
  <2>1. disk'[n] = disk[n] \/ Lawful(disk[n], mem[n], disk'[n], served)
    BY FilesChangeLawfully, Zenon
  <2>2. Authorised(disk[n], mem[n], disk'[n])
    BY <2>1, Zenon DEF Lawful, Authorised
  <2>3. NodeInv(n)'
    BY Zenon DEF IInv, NodesInv
  <2> QED BY <2>2, <2>3, Zenon DEF NodeInv, Together
<1> QED BY <1>1, Invariance, PTL DEF Spec, UpdatesAreAuthorised

\* An import is recorded when the snapshot, the roots and the required roots
\* on disk are those of one manifest that was served, with the roots the
\* operator required (import_snapshot_chunk_set).
THEOREM ImportSafety == Spec => ImportsAreGenuine
<1>1. IInv /\ [Next]_vars =>
        [\A n \in Node : disk'[n].imports \notin {disk[n].imports, <<>>} =>
          LET r == disk'[n].imports[Len(disk'[n].imports)] IN
          /\ r.manifest \in served
          /\ disk[n].snapshot = r.root /\ r.root = r.manifest.root
          /\ disk[n].roots = r.manifest.metadata_roots
          /\ disk[n].required = r.required
          /\ \A k \in DOMAIN r.required :
                k \in DOMAIN r.manifest.metadata_roots /\ r.manifest.metadata_roots[k] = r.required[k]]_vars
  <2> SUFFICES ASSUME IInv, [Next]_vars, NEW n \in Node
               PROVE  Genuine(disk[n], disk'[n], served)
    BY Zenon DEF Genuine, RootsMatch
  <2>1. disk'[n] = disk[n] \/ Lawful(disk[n], mem[n], disk'[n], served)
    BY FilesChangeLawfully, Zenon
  <2> QED BY <2>1, Zenon DEF Lawful, Genuine
<1> QED BY <1>1, Invariance, PTL DEF Spec, ImportsAreGenuine

\* operator_alerts_for_state: what each of the three codes needs.
LEMMA AlertCodes ==
    ASSUME NEW metrics, NEW mismatch, NEW slashings, NEW latest
    PROVE  LET alerts == AlertsForState(metrics, mismatch, slashings, latest)
           IN  /\ "root_mismatch" \in alerts => mismatch
               /\ "stalled_consensus" \in alerts =>
                     \A lag \in metrics.finality_lag : lag > MaxFinalityLag
               /\ "excessive_reverts" \in alerts => latest.receipts > 0
BY Zenon DEF AlertsForState

\* A root mismatch is about a stored root that differs from the node's own.
LEMMA MismatchIsStored ==
    ASSUME NEW d, SnapshotRootMismatch(d)
    PROVE  \E name \in RootNames \cap DOMAIN d.roots :
              /\ PersistedRoot(d, name) = {d.roots[name]}
              /\ PersistedRoot(d, name) # LocalRoot(d, name)
<1>1. PICK name \in RootNames :
         LET status == SnapshotMetadataRootStatus(d)[name]
         IN  status.persisted # {} /\ ~status.persisted_matches_local
  BY Zenon DEF SnapshotRootMismatch
<1>2. SnapshotMetadataRootStatus(d)[name] = RootStatus(d, name)
  BY Zenon DEF SnapshotMetadataRootStatus
<1>3. PersistedRoot(d, name) # {} /\ PersistedRoot(d, name) # LocalRoot(d, name)
  <2> DEFINE local == LocalRoot(d, name)
             persisted == PersistedRoot(d, name)
             status == RootStatus(d, name)
             matches == persisted # {} /\ persisted = local
  <2>1. status.persisted = persisted /\ status.persisted_matches_local = matches
    BY Zenon DEF RootStatus
  <2>2. status.persisted # {} /\ ~status.persisted_matches_local
    BY <1>1, <1>2, Zenon
  <2> HIDE DEF local, persisted, status
  <2> QED BY <2>1, <2>2, Zenon DEF local, persisted
<1>4. name \in DOMAIN d.roots
  BY <1>3, Zenon DEF PersistedRoot
<1>5. PersistedRoot(d, name) = {d.roots[name]}
  BY <1>4, Zenon DEF PersistedRoot
<1> QED BY <1>3, <1>4, <1>5, Zenon

\* highest_finalized_height finds the highest certificate up to the height.
LEMMA LagOfHighest ==
    ASSUME NEW d, NEW m, m.height \in Nat, NEW h \in d.certificates \cap 1..m.height
    PROVE  \E lag \in OperatorMetrics(d, m).finality_lag : lag <= m.height - h /\ lag \in Nat
<1> DEFINE found == {x \in 1..m.height : MaybeLoadFinalityCertificate(d, x) # {}}
<1>1. h \in found
  BY Zenon DEF MaybeLoadFinalityCertificate
<1>2. HighestFinalizedHeight(d, m) = {x \in found : \A y \in found : y <= x}
  BY Zenon DEF HighestFinalizedHeight
<1>3. found \subseteq 1..m.height
  BY Zenon
<1> HIDE DEF found
<1>4. PICK x \in found : \A y \in found : y <= x
  BY <1>1, <1>3, GreatestHeight, Zenon
<1>5. m.height - x \in OperatorMetrics(d, m).finality_lag
  BY <1>2, <1>4, Zenon DEF OperatorMetrics
<1>6. m.height - x <= m.height - h /\ m.height - x \in Nat
  BY <1>1, <1>3, <1>4
<1> QED BY <1>5, <1>6, Zenon

\* An idle node reports a root mismatch, stalled consensus or reverts only
\* with a cause, and an applied update has nothing pending unless something
\* failed or it was applied by hand (operator_alerts, validator_set_metadata_update_status).
THEOREM AlertSafety == Spec => []AlertsHaveACause
<1>1. IInv => AlertsHaveACause
  <2> SUFFICES ASSUME IInv, NEW n \in Node, Idle(n)
               PROVE  LET alerts == OperatorAlerts(disk[n], mem[n])
                      IN  /\ "root_mismatch" \in alerts =>
                                \/ faults > 0
                                \/ \E m \in served : \E k \in DOMAIN m.metadata_roots \cap RootNames :
                                      /\ PersistedRoot(disk[n], k) = {m.metadata_roots[k]}
                                      /\ PersistedRoot(disk[n], k) # LocalRoot(disk[n], k)
                          /\ "stalled_consensus" \in alerts =>
                                \A h \in disk[n].certificates \cap 1..mem[n].height :
                                    h + MaxFinalityLag < mem[n].height
                          /\ "excessive_reverts" \in alerts => mem[n].height \in DOMAIN disk[n].blocks
                          /\ \A id \in mem[n].applied \ UNION {UpdateIds(messages) : messages \in Batches} :
                                faults = 0 => UpdateStatus(mem[n], id).pending_authorizations = 0
    BY Zenon DEF AlertsHaveACause
  <2> DEFINE d == disk[n]
             m == mem[n]
             alerts == OperatorAlerts(d, m)
  <2>1. Sound(d, m) /\ (faults = 0 => Settled(d, m, served)) /\ faults \in Nat
    BY IdleIsSound, Zenon DEF IInv, NodesInv
  <2>2. m.height \in Nat
    BY <2>1, Zenon DEF Sound, IsMemory
  <2> HIDE DEF d, m
  <2>3. /\ "root_mismatch" \in alerts => SnapshotRootMismatch(d)
        /\ "stalled_consensus" \in alerts =>
              \A lag \in OperatorMetrics(d, m).finality_lag : lag > MaxFinalityLag
        /\ "excessive_reverts" \in alerts => LatestBlockFailureCounts(d, m).receipts > 0
    BY AlertCodes, Zenon DEF OperatorAlerts
  <2> HIDE DEF alerts
  <2>4. ASSUME "root_mismatch" \in alerts, ~(faults > 0)
        PROVE  \E s \in served : \E k \in DOMAIN s.metadata_roots \cap RootNames :
                  /\ PersistedRoot(d, k) = {s.metadata_roots[k]}
                  /\ PersistedRoot(d, k) # LocalRoot(d, k)
    <3>1. PICK name \in RootNames \cap DOMAIN d.roots :
             /\ PersistedRoot(d, name) = {d.roots[name]}
             /\ PersistedRoot(d, name) # LocalRoot(d, name)
      BY <2>3, <2>4, MismatchIsStored, Zenon
    <3>2. RootsExplained(d, served)
      BY <2>1, <2>4 DEF Settled
    <3>3. ~(name = "validator_set_audit" /\ d.roots[name] = d.audit)
      BY <3>1, Zenon DEF LocalRoot
    <3> QED BY <3>1, <3>2, <3>3, Zenon DEF RootsExplained
  <2>5. ASSUME "stalled_consensus" \in alerts, NEW h \in d.certificates \cap 1..m.height
        PROVE  h + MaxFinalityLag < m.height
    <3>1. PICK lag \in OperatorMetrics(d, m).finality_lag : lag <= m.height - h /\ lag \in Nat
      BY <2>2, LagOfHighest, Zenon
    <3>2. lag > MaxFinalityLag /\ MaxFinalityLag \in Nat
      BY <2>3, <2>5, ReportsAssumption, Zenon
    <3> QED BY <2>2, <3>1, <3>2
  <2>6. "excessive_reverts" \in alerts => m.height \in DOMAIN d.blocks
    <3>1. m.height \notin DOMAIN d.blocks => LatestBlockFailureCounts(d, m).receipts = 0
      BY Zenon DEF LatestBlockFailureCounts, MaybeLoadBlock
    <3> QED BY <2>3, <3>1
  <2>7. ASSUME NEW id \in m.applied \ ByHand, faults = 0
        PROVE  UpdateStatus(m, id).pending_authorizations = 0
    <3>1. ForUpdate(m.pending, id) = {}
      BY <2>1, <2>7, Zenon DEF Settled, NoneApplied, ForUpdate
    <3> QED BY <3>1, FS_EmptySet, Zenon DEF UpdateStatus
  <2> QED BY <2>4, <2>5, <2>6, <2>7, Zenon DEF d, m, alerts, ByHand
<1> QED BY <1>1, Invariance, PTL

\* A node that is down can be restarted unless its stored mempool has a
\* transaction the stored snapshot has left behind, or its stored pool has an
\* authorization the stored keyring does not verify or more than the default
\* limits allow (load_mempool, with_pending_transactions,
\* load_pending_validator_set_metadata_authorizations).
THEOREM RestartSafety == Spec => []RestartBlockedOnlyByPools
<1>1. IInv => RestartBlockedOnlyByPools
  <2> SUFFICES ASSUME IInv, NEW n \in Node, Loaded(disk[n]) = {},
                      \A tx \in disk[n].mempool : tx > disk[n].snapshot,
                      \A a \in disk[n].pending : Verified(disk[n], a)
               PROVE  \/ Cardinality(UpdateIds(LiveStored(disk[n]))) > DefaultMaxUpdates
                      \/ \E a \in LiveStored(disk[n]) :
                            Cardinality({b \in LiveStored(disk[n]) : b.signer = a.signer})
                                > DefaultMaxPerValidator
    BY Zenon DEF RestartBlockedOnlyByPools
  <2> DEFINE d == disk[n]
             live == LiveStored(d)
             Before(a) == [FromDisk(d) EXCEPT !.pending = {b \in live : Precedes(b, a)}]
  <2>1. AreFiles(d)
    BY Zenon DEF IInv, NodesInv, NodeInv
  <2>2. PICK a \in live : InsertOutcome(Before(a), a) # "ok"
    BY Zenon DEF Loaded, Inserts, Readmits
  <2> DEFINE part == {b \in live : Precedes(b, a)}
             from == FromDisk(d)
             m == [from EXCEPT !.pending = part]
  <2>3. /\ DOMAIN from = MemFields
        /\ from.height = d.snapshot /\ from.network = d.network /\ from.keyring = d.keyring /\ from.applied = d.applied
        /\ from.max_updates = DefaultMaxUpdates
        /\ from.max_per_validator = DefaultMaxPerValidator
    BY <2>1, FromDiskFields, Zenon
  <2>4. InsertOutcome(m, a) # "ok"
    BY <2>2, Zenon
  <2> HIDE DEF from, part, d
  <2>5. /\ m.pending = part
        /\ m.height = d.snapshot /\ m.network = d.network /\ m.keyring = d.keyring /\ m.applied = d.applied
        /\ m.max_updates = DefaultMaxUpdates
        /\ m.max_per_validator = DefaultMaxPerValidator
    BY <2>3, Zenon DEF MemFields
  <2> HIDE DEF m
  <2>6. \A b \in d.pending : Verified(d, b)
    BY Zenon DEF d
  <2>7. \/ Cardinality(UpdateIds(live)) > DefaultMaxUpdates
        \/ Cardinality({b \in live : b.signer = a.signer}) > DefaultMaxPerValidator
    BY <2>1, <2>4, <2>5, <2>6, RefusedByLimit DEF part
  <2> QED BY <2>7, Zenon DEF d
<1> QED BY <1>1, Invariance, PTL
================================================================================
