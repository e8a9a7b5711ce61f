-------------------------- MODULE MCActionApproval --------------------------
(* Instances of ActionApproval for TLC. *)
EXTENDS ActionApproval, TLC

CONSTANTS a1, a2, r1, r2, h1, h2, h3

OneAction == {a1}
TwoActions == {a1, a2}
TwoReviewers == {r1, r2}
TwoHandlers == {h1, h2}
ThreeHandlers == {h1, h2, h3}
OneRetrier == {h1}
BothFaults == {"db", "crash"}
NoFaults == {}
=============================================================================
