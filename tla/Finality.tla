------------------------------ MODULE Finality ------------------------------
(***************************************************************************)
(* Finality certificates from signed votes: validators vote through their  *)
(* signing records (SigningRecords), and any node turns the votes it has   *)
(* received into a certificate with collect_finality_certificate.          *)
(*                                                                         *)
(* Messages sent are never removed from signed, and a collector uses any   *)
(* subset of them: loss, delay, duplication and reordering are all there.  *)
(* A Byzantine validator signs whatever it likes; its key is its own.      *)
(* Certificates carry the names of their signers, so the model collects    *)
(* them where the votes are verified.                                      *)
(***************************************************************************)
EXTENDS SigningRecords

CONSTANT Byzantine  \* validators that do not follow the signing protocol

ASSUME FinalityAssumption ==
    /\ IsFiniteSet(Validators)
    /\ Byzantine \subseteq Validators
    /\ 3 * Cardinality(Byzantine) < Cardinality(Validators)
    /\ \A p \in Processes : Owner[p] \notin Byzantine
    /\ "Vote" \in Domains

VARIABLE certificates

vars == <<signingVars, certificates>>

-----------------------------------------------------------------------------

(* Mutant: two thirds are enough.                                          *)
QuorumForTwoThirds(n) == (n * 2) \div 3

QuorumFor(n) == IF n = 0 THEN 0 ELSE ((n * 2) \div 3) + 1
Quorum == QuorumFor(Cardinality(Validators))

Certificate == [height: Heights, block_hash: Hashes, signers: SUBSET Validators]

Vote(v, h, x) == <<v, <<"Vote", h>>, x>>
Votes == {m \in signed : m[2][1] = "Vote"}

(* Two votes of one validator for different hashes at one height.          *)
DetectEquivocation(votes) ==
    \E m, n \in votes : m[1] = n[1] /\ m[2] = n[2] /\ m[3] # n[3]

Signers(votes, h, x) == {v \in Validators : Vote(v, h, x) \in votes}

CollectFinalityCertificate(h, x, votes) ==
    LET signers == Signers(votes, h, x)
    IN  /\ ~DetectEquivocation(votes)
        /\ Cardinality(signers) >= Quorum
        /\ certificates' = certificates \cup
               {[height |-> h, block_hash |-> x, signers |-> signers]}
        /\ UNCHANGED signingVars

ByzantineSign(v, slot, x) ==
    /\ v \in Byzantine
    /\ signed' = signed \cup {<<v, slot, x>>}
    /\ UNCHANGED <<record, pc, message, certificates>>

Init == SigningInit /\ certificates = {}

Next ==
    \/ SigningNext /\ UNCHANGED certificates
    \/ \E v \in Byzantine, slot \in Slots, x \in Hashes : ByzantineSign(v, slot, x)
    \/ \E h \in Heights, x \in Hashes, votes \in SUBSET Votes :
          CollectFinalityCertificate(h, x, votes)

Spec == Init /\ [][Next]_vars

-----------------------------------------------------------------------------
(* Properties.                                                             *)

(* Every variable holds a value of its declared type.                      *)
TypeOK == SigningTypeOK /\ certificates \subseteq Certificate

(* A validator that follows the protocol never signs two hashes for one    *)
(* domain and height, however its processes interleave on the signing      *)
(* record and wherever they crash.                                         *)
NoDoubleSign ==
    \A v \in Validators \ Byzantine, slot \in Slots, x, y \in Hashes :
        <<v, slot, x>> \in signed /\ <<v, slot, y>> \in signed => x = y

(* No two certificates finalize different blocks at one height, with less  *)
(* than a third of the validators Byzantine, although the collectors see   *)
(* different votes.                                                        *)
Agreement ==
    \A c, d \in certificates : c.height = d.height => c.block_hash = d.block_hash

(* What is final at each height according to the certificates.             *)
Final(h) ==
    IF \E c \in certificates : c.height = h
    THEN (CHOOSE c \in certificates : c.height = h).block_hash
    ELSE Absent

Finalized == [h \in Heights |-> Final(h)]

Abstract == INSTANCE FinalizedBlocks WITH finalized <- Finalized, NotFinal <- Absent

(* Signing and certificate collection implement FinalizedBlocks: one hash  *)
(* becomes final per height, for good.                                     *)
ImplementsFinalizedBlocks == Abstract!Spec

=============================================================================
