-------------------------- MODULE FinalizedBlocks --------------------------
(***************************************************************************)
(* What finality promises: at each height at most one block hash becomes   *)
(* final, and it stays final.                                              *)
(***************************************************************************)
CONSTANTS Heights, Hashes, NotFinal

VARIABLE finalized

Finalize(h, x) ==
    /\ finalized[h] = NotFinal
    /\ finalized' = [finalized EXCEPT ![h] = x]

Init == finalized = [h \in Heights |-> NotFinal]
Next == \E h \in Heights, x \in Hashes : Finalize(h, x)
Spec == Init /\ [][Next]_finalized

=============================================================================
