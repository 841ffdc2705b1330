----------------------------- MODULE MCFinality -----------------------------
(***************************************************************************)
(* An instance of Finality for TLC: four validators, one of them           *)
(* Byzantine, so a quorum is three; one honest validator runs two signing  *)
(* processes on its data directory.                                        *)
(***************************************************************************)
EXTENDS Finality, TLC

CONSTANTS v1, v2, v3, byz, p1, p2, p3, p4

MCValidators == {v1, v2, v3, byz}
MCProcesses == {p1, p2, p3, p4}
MCOwner == p1 :> v1 @@ p2 :> v1 @@ p3 :> v2 @@ p4 :> v3

=============================================================================
