--------------------------- MODULE Finality_proofs ---------------------------
(***************************************************************************)
(* Proofs about SigningRecords and Finality, for any number of validators, *)
(* processes, heights and hashes, with less than a third of the validators *)
(* Byzantine.                                                              *)
(*                                                                         *)
(* The inductive invariant: a process about to sign finds its hash in the  *)
(* record, the one process about to write a record finds it torn, and      *)
(* every vote sent by an honest validator is in its record.  Agreement     *)
(* follows as two quorums share an honest validator.                       *)
(***************************************************************************)
EXTENDS Finality, FiniteSetTheorems, TLAPS

RecordInv ==
    /\ \A p \in Processes :
          /\ pc[p] = "Sign" => Record(p) = message[p].hash
          /\ pc[p] = "Write" => Record(p) = Torn
    /\ \A p, q \in Processes :
          /\ pc[p] = "Write" /\ pc[q] = "Write"
          /\ Owner[p] = Owner[q] /\ message[p].slot = message[q].slot
          => p = q

SignedInv ==
    \A v \in Validators \ Byzantine, slot \in Slots, x \in Hashes :
        <<v, slot, x>> \in signed => record[v][slot] = x

CertificateInv ==
    \A c \in certificates :
        /\ Cardinality(c.signers) >= Quorum
        /\ \A v \in c.signers : Vote(v, c.height, c.block_hash) \in signed

IInv == TypeOK /\ RecordInv /\ SignedInv /\ CertificateInv

-----------------------------------------------------------------------------
(* Quorums.                                                                *)

(* Two sets of more than two thirds of the validators share one that is    *)
(* not among fewer than a third of them.                                   *)
LEMMA QuorumIntersection ==
    ASSUME NEW S \in SUBSET Validators, NEW T \in SUBSET Validators,
           Cardinality(S) >= Quorum, Cardinality(T) >= Quorum
    PROVE  \E v \in S \cap T : v \notin Byzantine
<1> SUFFICES ASSUME S \cap T \subseteq Byzantine
             PROVE  FALSE
    BY Zenon
<1>1. /\ IsFiniteSet(Validators) /\ IsFiniteSet(S) /\ IsFiniteSet(T)
      /\ IsFiniteSet(Byzantine) /\ IsFiniteSet(S \cap T) /\ IsFiniteSet(S \cup T)
    BY FinalityAssumption, FS_Subset, Zenon
<1> DEFINE n == Cardinality(Validators)
           b == Cardinality(Byzantine)
           s == Cardinality(S)
           t == Cardinality(T)
           i == Cardinality(S \cap T)
           u == Cardinality(S \cup T)
<1>2. n \in Nat /\ b \in Nat /\ s \in Nat /\ t \in Nat /\ i \in Nat /\ u \in Nat
    BY <1>1, FS_CardinalityType, Zenon
<1>3. i <= b /\ u <= n
    BY <1>1, FS_Subset, Zenon
<1>4. u = s + t - i
    BY <1>1, FS_Union, Zenon
<1>5. 3 * b < n
    BY FinalityAssumption, Zenon
<1> HIDE DEF n, b, s, t, i, u
<1>6. Quorum = ((n * 2) \div 3) + 1
    BY <1>2, <1>5 DEF Quorum, QuorumFor, n
<1>7. 3 * ((n * 2) \div 3) >= n * 2 - 2 /\ (n * 2) \div 3 \in Nat
    BY <1>2
<1>8. s >= Quorum /\ t >= Quorum
    BY Zenon DEF s, t
<1> QED  BY <1>2, <1>3, <1>4, <1>5, <1>6, <1>7, <1>8

(* Signing records and certificates give agreement.                        *)
LEMMA CertificatesAgree ==
    IInv => NoDoubleSign /\ Agreement
<1> SUFFICES ASSUME IInv PROVE NoDoubleSign /\ Agreement
    BY Zenon
<1>1. NoDoubleSign
    BY Zenon DEF IInv, SignedInv, NoDoubleSign
<1>2. ASSUME NEW c \in certificates, NEW d \in certificates, c.height = d.height
      PROVE  c.block_hash = d.block_hash
    <2>1. c \in Certificate /\ d \in Certificate
        BY Zenon DEF IInv, TypeOK
    <2>2. PICK v \in c.signers \cap d.signers : v \notin Byzantine
        BY <2>1, QuorumIntersection, Zenon DEF IInv, CertificateInv, Certificate
    <2>3. /\ <<v, <<"Vote", c.height>>, c.block_hash>> \in signed
          /\ <<v, <<"Vote", c.height>>, d.block_hash>> \in signed
        BY <1>2, <2>2, Zenon DEF IInv, CertificateInv, Vote
    <2>4. v \in Validators \ Byzantine /\ <<"Vote", c.height>> \in Slots
          /\ c.block_hash \in Hashes /\ d.block_hash \in Hashes
        BY <2>1, <2>2, FinalityAssumption, Zenon DEF Certificate, Slots
    <2> QED  BY <1>1, <2>3, <2>4, Zenon DEF NoDoubleSign
<1> QED  BY <1>1, <1>2, Zenon DEF Agreement

-----------------------------------------------------------------------------
(* The inductive invariant.                                                *)

LEMMA InitIInv ==
    Init => IInv
BY SigningAssumption
   DEF Init, SigningInit, IInv, TypeOK, SigningTypeOK, RecordInv, SignedInv, CertificateInv

(* A process's step on its record keeps the invariant.                     *)
LEMMA SigningIInv ==
    ASSUME IInv, SigningNext, UNCHANGED certificates
    PROVE  IInv'
<1> PICK p \in Processes :
        \/ \E m \in Messages : Reserve(p, m)
        \/ Create(p) \/ CreateLost(p) \/ Write(p) \/ Sign(p) \/ Crash(p)
    BY Zenon DEF SigningNext
<1> DEFINE v == Owner[p]
<1>0. /\ v \in Validators \ Byzantine
      /\ message[p] \in Messages /\ message[p].slot \in Slots /\ message[p].hash \in Hashes
    BY SigningAssumption, FinalityAssumption, Zenon DEF IInv, TypeOK, SigningTypeOK, Messages
<1>1. ASSUME NEW m \in Messages, Reserve(p, m)
      PROVE  IInv'
    <2>1. /\ m.slot \in Slots /\ m.hash \in Hashes
          /\ record[v][m.slot] \in {Absent, m.hash}
          /\ message' = [message EXCEPT ![p] = m]
          /\ pc' = [pc EXCEPT ![p] =
                       IF record[v][m.slot] = Absent THEN "Create" ELSE "Sign"]
          /\ UNCHANGED <<record, signed>>
        BY <1>1, Zenon DEF Reserve, Messages
    <2>2. TypeOK'
        BY <2>1, Zenon DEF IInv, TypeOK, SigningTypeOK
    <2>3. RecordInv'
        BY <2>1, Zenon DEF IInv, TypeOK, SigningTypeOK, RecordInv, Record
    <2> QED  BY <2>1, <2>2, <2>3, Zenon DEF IInv, SignedInv, CertificateInv
<1>2. CASE Create(p)
    <2>1. /\ pc[p] = "Create" /\ record[v][message[p].slot] = Absent
          /\ record' = [record EXCEPT ![v] = [@ EXCEPT ![message[p].slot] = Torn]]
          /\ pc' = [pc EXCEPT ![p] = "Write"]
          /\ UNCHANGED <<message, signed>>
        BY <1>2, Zenon DEF Create, Record
    <2>2. TypeOK'
        BY <1>0, <2>1, Zenon DEF IInv, TypeOK, SigningTypeOK
    <2>3. RecordInv'
        BY <1>0, <2>1, SigningAssumption DEF IInv, TypeOK, SigningTypeOK, RecordInv, Record, Messages
    <2>4. SignedInv'
        BY <1>0, <2>1, SigningAssumption, Zenon DEF IInv, TypeOK, SigningTypeOK, SignedInv
    <2> QED  BY <2>1, <2>2, <2>3, <2>4, Zenon DEF IInv, CertificateInv
<1>3. CASE CreateLost(p)
    <2>1. /\ pc' = [pc EXCEPT ![p] = IF Record(p) = message[p].hash THEN "Sign" ELSE "Idle"]
          /\ UNCHANGED <<record, message, signed>>
        BY <1>3, Zenon DEF CreateLost
    <2>2. TypeOK'
        BY <2>1, Zenon DEF IInv, TypeOK, SigningTypeOK
    <2>3. RecordInv'
        BY <2>1, Zenon DEF IInv, TypeOK, SigningTypeOK, RecordInv, Record
    <2> QED  BY <2>1, <2>2, <2>3, Zenon DEF IInv, SignedInv, CertificateInv
<1>4. CASE Write(p)
    <2>1. /\ pc[p] = "Write" /\ record[v][message[p].slot] = Torn
          /\ record' = [record EXCEPT ![v] = [@ EXCEPT ![message[p].slot] = message[p].hash]]
          /\ pc' = [pc EXCEPT ![p] = "Sign"]
          /\ UNCHANGED <<message, signed>>
        BY <1>4, Zenon DEF Write, IInv, RecordInv, Record
    <2>2. TypeOK'
        BY <1>0, <2>1, Zenon DEF IInv, TypeOK, SigningTypeOK
    <2>3. RecordInv'
        BY <1>0, <2>1, SigningAssumption DEF IInv, TypeOK, SigningTypeOK, RecordInv, Record, Messages
    <2>4. SignedInv'
        BY <1>0, <2>1, SigningAssumption, Zenon DEF IInv, TypeOK, SigningTypeOK, SignedInv
    <2> QED  BY <2>1, <2>2, <2>3, <2>4, Zenon DEF IInv, CertificateInv
<1>5. CASE Sign(p)
    <2>1. /\ pc[p] = "Sign" /\ record[v][message[p].slot] = message[p].hash
          /\ signed' = signed \cup {<<v, message[p].slot, message[p].hash>>}
          /\ pc' = [pc EXCEPT ![p] = "Idle"]
          /\ UNCHANGED <<record, message>>
        BY <1>5, Zenon DEF Sign, IInv, RecordInv, Record
    <2>2. TypeOK'
        BY <1>0, <2>1 DEF IInv, TypeOK, SigningTypeOK
    <2>3. RecordInv'
        BY <2>1, Zenon DEF IInv, TypeOK, SigningTypeOK, RecordInv, Record
    <2>4. SignedInv'
        BY <2>1, Zenon DEF IInv, SignedInv
    <2>5. CertificateInv'
        BY <2>1, Zenon DEF IInv, CertificateInv
    <2> QED  BY <2>2, <2>3, <2>4, <2>5, Zenon DEF IInv
<1>6. CASE Crash(p)
    <2>1. /\ pc' = [pc EXCEPT ![p] = "Idle"]
          /\ UNCHANGED <<record, message, signed>>
        BY <1>6, Zenon DEF Crash
    <2>2. TypeOK'
        BY <2>1, Zenon DEF IInv, TypeOK, SigningTypeOK
    <2>3. RecordInv'
        BY <2>1, Zenon DEF IInv, TypeOK, SigningTypeOK, RecordInv, Record
    <2> QED  BY <2>1, <2>2, <2>3, Zenon DEF IInv, SignedInv, CertificateInv
<1> QED  BY <1>1, <1>2, <1>3, <1>4, <1>5, <1>6, Zenon

LEMMA NextIInv ==
    IInv /\ [Next]_vars => IInv'
<1> SUFFICES ASSUME IInv, [Next]_vars PROVE IInv'
    BY Zenon
<1>1. CASE SigningNext /\ UNCHANGED certificates
    BY <1>1, SigningIInv, Zenon
<1>2. ASSUME NEW v \in Byzantine, NEW slot \in Slots, NEW x \in Hashes,
             ByzantineSign(v, slot, x)
      PROVE  IInv'
    <2>1. /\ signed' = signed \cup {<<v, slot, x>>}
          /\ UNCHANGED <<record, pc, message, certificates>>
        BY <1>2, Zenon DEF ByzantineSign
    <2>2. TypeOK'
        BY <2>1, FinalityAssumption DEF IInv, TypeOK, SigningTypeOK
    <2>3. RecordInv'
        BY <2>1, Zenon DEF IInv, RecordInv, Record
    <2>4. SignedInv'
        BY <2>1, Zenon DEF IInv, SignedInv
    <2>5. CertificateInv'
        BY <2>1, Zenon DEF IInv, CertificateInv
    <2> QED  BY <2>2, <2>3, <2>4, <2>5, Zenon DEF IInv
<1>3. ASSUME NEW h \in Heights, NEW x \in Hashes, NEW votes \in SUBSET Votes,
             CollectFinalityCertificate(h, x, votes)
      PROVE  IInv'
    <2> DEFINE c == [height |-> h, block_hash |-> x, signers |-> Signers(votes, h, x)]
    <2>1. /\ Cardinality(Signers(votes, h, x)) >= Quorum
          /\ certificates' = certificates \cup {c}
          /\ UNCHANGED <<record, pc, message, signed>>
        BY <1>3, Zenon DEF CollectFinalityCertificate, signingVars
    <2>2. c \in Certificate
        BY Zenon DEF Certificate, Signers
    <2>3. \A v \in Signers(votes, h, x) : Vote(v, h, x) \in signed
        BY Zenon DEF Signers, Votes
    <2>4. TypeOK'
        BY <2>1, <2>2, Zenon DEF IInv, TypeOK, SigningTypeOK
    <2>5. CertificateInv'
        BY <2>1, <2>3 DEF IInv, CertificateInv
    <2> QED  BY <2>1, <2>4, <2>5, Zenon DEF IInv, RecordInv, Record, SignedInv
<1>4. CASE UNCHANGED vars
    BY <1>4, Zenon DEF vars, signingVars, IInv, TypeOK, SigningTypeOK, RecordInv, Record,
                SignedInv, CertificateInv
<1> QED  BY <1>1, <1>2, <1>3, <1>4, Zenon DEF Next

-----------------------------------------------------------------------------
(* Refinement.                                                             *)

FinalIsCertified ==
    /\ \A c \in certificates : Final(c.height) = c.block_hash
    /\ \A h \in Heights :
          \/ Final(h) = Absent /\ \A c \in certificates : c.height # h
          \/ \E c \in certificates : c.height = h /\ Final(h) = c.block_hash

(* When certificates agree, any certificate tells what is final.           *)
LEMMA FinalFromCertificate ==
    IInv => FinalIsCertified
<1> SUFFICES ASSUME IInv PROVE FinalIsCertified
    BY Zenon
<1>1. Agreement
    BY CertificatesAgree, Zenon
<1>2. ASSUME NEW c \in certificates
      PROVE  Final(c.height) = c.block_hash
    <2> DEFINE d == CHOOSE e \in certificates : e.height = c.height
    <2>1. d \in certificates /\ d.height = c.height
        BY Zenon
    <2> QED  BY <1>1, <2>1, Zenon DEF Agreement, Final
<1> QED  BY <1>2, Zenon DEF FinalIsCertified, Final

(* What was final stays final, and only collecting a certificate makes a   *)
(* block final at a height where none was.                                 *)
LEMMA StepRefines ==
    IInv /\ IInv' /\ [Next]_vars => [Abstract!Next]_Finalized
<1> SUFFICES ASSUME IInv, IInv', [Next]_vars
             PROVE  [Abstract!Next]_Finalized
    BY Zenon
<1>1. CASE UNCHANGED certificates
    BY <1>1, Zenon DEF Finalized, Final
<1>2. ASSUME NEW h \in Heights, NEW x \in Hashes, NEW votes \in SUBSET Votes,
             CollectFinalityCertificate(h, x, votes)
      PROVE  [Abstract!Next]_Finalized
    <2> DEFINE c == [height |-> h, block_hash |-> x, signers |-> Signers(votes, h, x)]
    <2>0. /\ certificates' = certificates \cup {c}
          /\ c.height = h /\ c.block_hash = x
        BY <1>2, Zenon DEF CollectFinalityCertificate
    <2> HIDE DEF c
    <2>1. FinalIsCertified
        BY FinalFromCertificate, Zenon
    <2>2. FinalIsCertified'
        BY FinalFromCertificate, PTL
    <2>3. \A k \in Heights : Final(k) # Absent => Final(k)' = Final(k)
        BY <2>0, <2>1, <2>2 DEF FinalIsCertified
    <2>4. \A k \in Heights \ {h} : Final(k)' = Final(k)
        BY <2>0, <2>1, <2>2 DEF FinalIsCertified
    <2>5. Final(h)' = x
        BY <2>0, <2>2, Zenon DEF FinalIsCertified
    <2>6. CASE Final(h) = Absent
        <3>1. Finalized' = [Finalized EXCEPT ![h] = x]
            BY <2>4, <2>5, Zenon DEF Finalized
        <3>2. Finalized[h] = Absent
            BY <2>6, Zenon DEF Finalized
        <3> QED  BY <3>1, <3>2, Zenon DEF Abstract!Next, Abstract!Finalize
    <2>7. CASE Final(h) # Absent
        BY <2>3, <2>4, <2>7, Zenon DEF Finalized
    <2> QED  BY <2>6, <2>7, Zenon
<1> QED  BY <1>1, <1>2, Zenon DEF Next, vars, ByzantineSign

-----------------------------------------------------------------------------
(* Theorems.                                                               *)

(* Every reachable state satisfies the inductive invariant.                *)
THEOREM Invariance ==
    Spec => []IInv
BY InitIInv, NextIInv, PTL DEF Spec

(* The variables keep their types.                                         *)
THEOREM TypeCorrectness ==
    Spec => []TypeOK
<1>1. IInv => TypeOK
    BY Zenon DEF IInv
<1> QED  BY <1>1, Invariance, PTL

(* An honest validator never signs two hashes for one domain and height,   *)
(* however many processes share its signing records and crash.             *)
THEOREM SigningSafety ==
    Spec => []NoDoubleSign
BY CertificatesAgree, Invariance, PTL

(* No two certificates finalize different blocks at one height.            *)
THEOREM FinalityAgreement ==
    Spec => []Agreement
BY CertificatesAgree, Invariance, PTL

(* Signing and certificate collection implement the abstract specification *)
(* of finality: one hash per height becomes final, and stays final.        *)
THEOREM Refinement ==
    Spec => ImplementsFinalizedBlocks
<1>1. Init => Abstract!Init
    BY Zenon DEF Init, Abstract!Init, Finalized, Final
<1> QED  BY <1>1, StepRefines, Invariance, PTL DEF Spec, ImplementsFinalizedBlocks, Abstract!Spec

=============================================================================
