----------------------------- MODULE LaneQueue ------------------------------
(***************************************************************************)
(* The gateway's per-user job queue (gateway/src/queue/lane-queue.ts).      *)
(* A lane is an object of its own, reachable from the map `lanes` while it  *)
(* has work and captured by the callbacks of the jobs chained on it: the    *)
(* model keeps the object and the map entry apart.                          *)
(*                                                                          *)
(* One action is one turn of the event loop.  The callbacks a turn queues   *)
(* as microtasks run before the next turn, so a job put on an idle lane     *)
(* starts in the turn that enqueues it, and the next job of a lane starts   *)
(* in the turn in which the previous one ends.                              *)
(***************************************************************************)
EXTENDS Naturals, Sequences

CONSTANTS
  User,       \* lane keys
  Job,        \* jobs; each is enqueued at most once (its id is a fresh UUID)
  Owner,      \* Job -> the user it is enqueued for
  Lane,       \* lane objects
  None,       \* no lane, or no active job
  MaxDepth    \* maxDepthPerUser

ASSUME OwnerAssumption == Owner \in [Job -> User]
ASSUME NoneAssumption == None \notin Lane \cup Job
ASSUME DepthAssumption == MaxDepth \in Nat \ {0}

VARIABLES
  laneOf,     \* the map `lanes`: User -> its lane, or None
  depth,      \* Lane -> depth
  chain,      \* Lane -> jobs on its promise chain that have not ended
  active,     \* Lane -> activeJobId
  aborted,    \* jobs whose abort signal has been raised
  phase       \* Job -> "new", "accepted", "ended" or "refused"

vars == <<laneOf, depth, chain, active, aborted, phase>>

TypeOK ==
  /\ laneOf \in [User -> Lane \cup {None}]
  /\ depth \in [Lane -> 0 .. MaxDepth]
  /\ chain \in [Lane -> Seq(Job)]
  /\ active \in [Lane -> Job \cup {None}]
  /\ aborted \subseteq Job
  /\ phase \in [Job -> {"new", "accepted", "ended", "refused"}]

Init ==
  /\ laneOf = [u \in User |-> None]
  /\ depth = [l \in Lane |-> 0]
  /\ chain = [l \in Lane |-> <<>>]
  /\ active = [l \in Lane |-> None]
  /\ aborted = {}
  /\ phase = [j \in Job |-> "new"]

\* A lane object nothing refers to: the next `{ chain, depth: 0, ... }`.
Fresh(l) == (\A u \in User : laneOf[u] # l) /\ chain[l] = <<>>

\* The lane an enqueue for user u puts its job on.
LaneFor(u, l) == IF laneOf[u] # None THEN l = laneOf[u] ELSE Fresh(l)

\* The job the head of a chain starts: its callback sets activeJobId.
First(jobs) == IF jobs = <<>> THEN None ELSE Head(jobs)

-----------------------------------------------------------------------------
\* Mutant: an off-by-one in the depth check.
FullLate(l) == depth[l] > MaxDepth
Full(l) == depth[l] >= MaxDepth

EnqueueAccepts(j) ==
  /\ phase[j] = "new"
  /\ \E l \in Lane :
       /\ LaneFor(Owner[j], l)
       /\ ~ Full(l)
       /\ laneOf' = [laneOf EXCEPT ![Owner[j]] = l]
       /\ depth' = [depth EXCEPT ![l] = @ + 1]
       /\ chain' = [chain EXCEPT ![l] = Append(@, j)]
       /\ active' = [active EXCEPT ![l] = First(Append(chain[l], j))]
  /\ phase' = [phase EXCEPT ![j] = "accepted"]
  /\ UNCHANGED aborted

EnqueueRefuses(j) ==
  /\ phase[j] = "new"
  /\ laneOf[Owner[j]] # None
  /\ Full(laneOf[Owner[j]])
  /\ phase' = [phase EXCEPT ![j] = "refused"]
  /\ UNCHANGED <<laneOf, depth, chain, active, aborted>>

\* Mutants: the map entry goes with the first job that ends; or never.
EmptiedAlways(l) == TRUE
EmptiedNever(l) == FALSE
Emptied(l) == depth[l] = 1

\* Mutant: the chain stops after a job that failed.
NextHalts(l) == None
NextOn(l) == First(Tail(chain[l]))

\* The job's callback settles (by returning or by throwing) and its finally
\* block runs.
End(j) ==
  /\ \E l \in Lane :
       /\ active[l] = j
       /\ depth' = [depth EXCEPT ![l] = @ - 1]
       /\ laneOf' = [laneOf EXCEPT ![Owner[j]] =
                       IF Emptied(l) THEN None ELSE @]
       /\ chain' = [chain EXCEPT ![l] = Tail(@)]
       /\ active' = [active EXCEPT ![l] = NextOn(l)]
  /\ phase' = [phase EXCEPT ![j] = "ended"]
  /\ UNCHANGED aborted

Running(j) == \E l \in Lane : active[l] = j

\* The job's timer goes off; its finally block clears it.
Timeout(j) ==
  /\ Running(j)
  /\ j \notin aborted
  /\ aborted' = aborted \cup {j}
  /\ UNCHANGED <<laneOf, depth, chain, active, phase>>

\* cancel(userId, jobId)
Cancelled(u, j) == laneOf[u] # None /\ active[laneOf[u]] = j

Cancel(j) ==
  /\ Cancelled(Owner[j], j)
  /\ aborted' = aborted \cup {j}
  /\ UNCHANGED <<laneOf, depth, chain, active, phase>>

\* The tail of drain(): every lane the map still holds is aborted.
DrainAborts ==
  /\ aborted' = aborted \cup
       {j \in Job : \E u \in User : laneOf[u] # None /\ active[laneOf[u]] = j}
  /\ UNCHANGED <<laneOf, depth, chain, active, phase>>

Next ==
  \/ \E j \in Job : \/ EnqueueAccepts(j) \/ EnqueueRefuses(j)
                    \/ End(j) \/ Timeout(j) \/ Cancel(j)
  \/ DrainAborts

Spec == Init /\ [][Next]_vars

\* Timers fire; and a job whose signal has been raised ends: the message loop
\* checks the signal before every turn, and the API client and the tool
\* executor bound a turn with timeouts of their own.
Fairness ==
  \A j \in Job : WF_vars(Timeout(j)) /\ WF_vars(j \in aborted /\ End(j))

FairSpec == Spec /\ Fairness

-----------------------------------------------------------------------------
\* "Per-user job queue that prevents concurrent agent runs for the same
\* user": no two jobs of one lane key run at once, over all lane objects,
\* the forgotten ones included.
OneAtATime ==
  \A i, j \in Job : Running(i) /\ Running(j) /\ Owner[i] = Owner[j] => i = j

\* A running job can be cancelled and drained: the map leads to its lane.
Reachable == \A j \in Job : Running(j) => Cancelled(Owner[j], j)

\* The map keeps a lane exactly as long as it has work: no lane is leaked by
\* a user who went quiet, none is dropped with accepted jobs on it.
LanesReleased ==
  \A u \in User :
    laneOf[u] # None <=> \E j \in Job : Owner[j] = u /\ phase[j] = "accepted"

\* Every accepted job ends, however many are ahead of it and whatever they
\* do, given only that timers fire and aborted jobs stop.
AcceptedJobsEnd == \A j \in Job : phase[j] = "accepted" ~> phase[j] = "ended"

\* A user's queue: the chain of the lane the map holds for the user.
queueOf == [u \in User |-> IF laneOf[u] = None THEN <<>> ELSE chain[laneOf[u]]]

\* The lanes implement one bounded first-in first-out queue per user.
Promised == INSTANCE JobQueue WITH queue <- queueOf
ImplementsJobQueue == Promised!Spec

\* The inductive strengthening of OneAtATime and Reachable: a lane counts
\* the jobs on its chain and runs the first; the map leads from a job's owner
\* to the lane it is on; a lane in the map has work, of one user only.
LaneOK(l) ==
  /\ depth[l] = Len(chain[l])
  /\ active[l] = First(chain[l])
  /\ \A n \in 1 .. Len(chain[l]) :
       laneOf[Owner[chain[l][n]]] = l /\ phase[chain[l][n]] = "accepted"
  /\ \A m, n \in 1 .. Len(chain[l]) : chain[l][m] = chain[l][n] => m = n

UserOK(u) ==
  laneOf[u] # None =>
    /\ chain[laneOf[u]] # <<>>
    /\ \A n \in 1 .. Len(chain[laneOf[u]]) : Owner[chain[laneOf[u]][n]] = u

Lanes == (\A l \in Lane : LaneOK(l)) /\ (\A u \in User : UserOK(u))
=============================================================================
