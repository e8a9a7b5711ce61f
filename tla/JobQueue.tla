------------------------------ MODULE JobQueue ------------------------------
(***************************************************************************)
(* What the gateway's queue promises its callers: the abstract specification*)
(* that LaneQueue implements.  Every user has one first-in first-out queue  *)
(* of at most MaxDepth jobs; the job at its head is the one that runs, so a *)
(* user never has two running at once.                                      *)
(***************************************************************************)
EXTENDS Sequences, Naturals

CONSTANTS User, Job, Owner, MaxDepth

VARIABLES
  queue,      \* User -> the accepted jobs that have not ended, in order
  phase       \* Job -> "new", "accepted", "ended" or "refused"

Init ==
  /\ queue = [u \in User |-> <<>>]
  /\ phase = [j \in Job |-> "new"]

Accept(j) ==
  /\ phase[j] = "new"
  /\ Len(queue[Owner[j]]) < MaxDepth
  /\ queue' = [queue EXCEPT ![Owner[j]] = Append(@, j)]
  /\ phase' = [phase EXCEPT ![j] = "accepted"]

Refuse(j) ==
  /\ phase[j] = "new"
  /\ Len(queue[Owner[j]]) >= MaxDepth
  /\ phase' = [phase EXCEPT ![j] = "refused"]
  /\ UNCHANGED queue

End(j) ==
  /\ queue[Owner[j]] # <<>>
  /\ Head(queue[Owner[j]]) = j
  /\ queue' = [queue EXCEPT ![Owner[j]] = Tail(@)]
  /\ phase' = [phase EXCEPT ![j] = "ended"]

Next == \E j \in Job : Accept(j) \/ Refuse(j) \/ End(j)

Spec == Init /\ [][Next]_<<queue, phase>>
=============================================================================
