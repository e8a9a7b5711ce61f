---------------------------- MODULE MCLaneQueue -----------------------------
(* Instances of LaneQueue for TLC: one user with more jobs than the queue   *)
(* holds and a second user beside them.  A third lane object is there for a *)
(* lane the map has forgotten.                                              *)
EXTENDS LaneQueue, TLC

CONSTANTS u1, u2, j1, j2, j3, j4, l1, l2, l3

Users == {u1, u2}
Jobs == {j1, j2, j3, j4}
Lanes3 == {l1, l2, l3}
Owners == (j1 :> u1) @@ (j2 :> u1) @@ (j3 :> u1) @@ (j4 :> u2)
=============================================================================
