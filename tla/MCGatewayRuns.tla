--------------------------- MODULE MCGatewayRuns ----------------------------
(* Instances of GatewayRuns for TLC.  alice has two chats, bob and carol    *)
(* one each; a schedule runs under a lane key of its own, cron.             *)
EXTENDS GatewayRuns, TLC

CONSTANTS alice, bob, carol, cron, j1, j2, j3, j4, s1, c1, l1, l2, l3, l4

Keys == {alice, bob, carol, cron}
FirstChat == {j1}
TwoChats == {j1, j2}
FourChats == {j1, j2, j3, j4}
OneScheduled == {s1}
NoJobs == {}
NoClients == {}
OneClient == {c1}
TwoLanes == {l1, l2}
FourLanes == {l1, l2, l3, l4}

KeyOf(j) ==
  CASE j \in {j1, j2} -> alice [] j = j3 -> bob [] j = j4 -> carol [] j = s1 -> cron

Keyed == [j \in Job |-> KeyOf(j)]

\* Lane objects are interchangeable (a safety run may say so).
AnyLane == Permutations(FourLanes)
=============================================================================
