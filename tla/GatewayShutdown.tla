--------------------------- MODULE GatewayShutdown --------------------------
(***************************************************************************)
(* The shutdown of the gateway (gateway/src/gateway.ts stop, main.ts): the  *)
(* scheduler's interval is cleared, the HTTP server closed, the lanes are   *)
(* drained, and the process exits.  A lane is the sequence of its jobs (see *)
(* JobQueue; one that is full does not matter here), the first of which     *)
(* runs.  Each signal starts a shutdown of its own.                         *)
(***************************************************************************)
EXTENDS Sequences, SequencesExt

CONSTANTS
  User, Job, Owner,     \* lane keys, jobs, and Job -> User
  Scheduled,            \* the jobs a tick of the scheduler enqueues
  Signal                \* the signals the process is sent

VARIABLES
  lane,         \* User -> the jobs on its chain that have not ended
  phase,        \* Job -> "new", "accepted" or "ended"
  aborted,      \* jobs whose abort signal has been raised
  ticking,      \* a tick of the scheduler is going on
  scheduling,   \* the scheduler's interval is set
  listening,    \* the HTTP server accepts requests
  streams,      \* jobs a client has an open event stream of
  stop,         \* Signal -> where its shutdown is
  awaited,      \* Signal -> the jobs its drain waits for
  timedOut,     \* (history) signals whose drain timer went off
  exited        \* the process is gone

jobs == <<lane, phase, aborted>>
server == <<ticking, scheduling, listening, streams>>
shutdown == <<stop, awaited, timedOut, exited>>
vars == <<jobs, server, shutdown>>

Accepted == {j \in Job : phase[j] = "accepted"}
Ended == {j \in Job : phase[j] = "ended"}

TypeOK ==
  /\ lane \in [User -> Seq(Job)]
  /\ phase \in [Job -> {"new", "accepted", "ended"}]
  /\ aborted \subseteq Job /\ streams \subseteq Accepted
  /\ ticking \in BOOLEAN /\ scheduling \in BOOLEAN /\ listening \in BOOLEAN
  /\ stop \in [Signal -> {"none", "closing", "draining", "disconnecting"}]
  /\ awaited \in [Signal -> SUBSET Job]
  /\ timedOut \subseteq Signal
  /\ exited \in BOOLEAN

Init ==
  /\ lane = [u \in User |-> <<>>]
  /\ phase = [j \in Job |-> "new"]
  /\ aborted = {} /\ streams = {}
  /\ ticking = TRUE /\ scheduling = TRUE /\ listening = TRUE
  /\ stop = [s \in Signal |-> "none"]
  /\ awaited = [s \in Signal |-> {}]
  /\ timedOut = {}
  /\ exited = FALSE

(***************************************************************************)
(* Jobs come from clients while the server listens, and from a tick, which  *)
(* goes on after the interval has been cleared.                             *)
(***************************************************************************)
MayEnqueue(j) == IF j \in Scheduled THEN ticking ELSE listening

Enqueue(j) ==
  /\ phase[j] = "new"
  /\ MayEnqueue(j)
  /\ phase' = [phase EXCEPT ![j] = "accepted"]
  /\ lane' = [lane EXCEPT ![Owner[j]] = Append(@, j)]
  /\ UNCHANGED <<aborted, server, shutdown>>

\* The job's callback settles, or its timer or a cancel makes it.
End(j) ==
  /\ lane[Owner[j]] # <<>> /\ Head(lane[Owner[j]]) = j
  /\ phase' = [phase EXCEPT ![j] = "ended"]
  /\ lane' = [lane EXCEPT ![Owner[j]] = Tail(@)]
  /\ streams' = streams \ {j}
  /\ UNCHANGED <<aborted, ticking, scheduling, listening, shutdown>>

Tick ==
  /\ ~ticking /\ scheduling
  /\ ticking' = TRUE
  /\ UNCHANGED <<jobs, scheduling, listening, streams, shutdown>>

TickEnds ==
  /\ ticking
  /\ ticking' = FALSE
  /\ UNCHANGED <<jobs, scheduling, listening, streams, shutdown>>

OpenStream(j) ==
  /\ listening
  /\ j \in Accepted \ (Scheduled \cup streams)
  /\ streams' = streams \cup {j}
  /\ UNCHANGED <<jobs, ticking, scheduling, listening, shutdown>>

CloseStream(j) ==
  /\ j \in streams
  /\ streams' = streams \ {j}
  /\ UNCHANGED <<jobs, ticking, scheduling, listening, shutdown>>

(***************************************************************************)
(* stop: server.close resolves when no connection is open any more; drain   *)
(* takes the chains there are, waits for them or for its timer, and aborts  *)
(* whatever runs then.                                                      *)
(***************************************************************************)
Stop(s) ==
  /\ stop[s] = "none"
  /\ scheduling' = FALSE
  /\ listening' = FALSE
  /\ stop' = [stop EXCEPT ![s] = "closing"]
  /\ UNCHANGED <<jobs, ticking, streams, awaited, timedOut, exited>>

\* Mutant: only the jobs that are running are waited for.
ChainedRunning == {Head(lane[u]) : u \in {v \in User : lane[v] # <<>>}}
Chained == Accepted

Running == {Head(lane[u]) : u \in {v \in User : lane[v] # <<>>}}

Drain(s) ==
  /\ stop[s] = "closing"
  /\ streams = {}
  /\ awaited' = [awaited EXCEPT ![s] = Chained]
  /\ stop' = [stop EXCEPT ![s] = IF Chained = {} THEN "disconnecting" ELSE "draining"]
  /\ UNCHANGED <<jobs, server, timedOut, exited>>

\* Mutant: what still runs is not aborted.
AbortsNothing == aborted
Aborts == aborted \cup Running

DrainEnds(s) ==
  /\ stop[s] = "draining"
  /\ \/ awaited[s] \subseteq Ended /\ UNCHANGED timedOut
     \/ timedOut' = timedOut \cup {s}
  /\ aborted' = Aborts
  /\ stop' = [stop EXCEPT ![s] = "disconnecting"]
  /\ UNCHANGED <<lane, phase, server, awaited, exited>>

Exit(s) ==
  /\ stop[s] = "disconnecting"
  /\ exited' = TRUE
  /\ UNCHANGED <<jobs, server, stop, awaited, timedOut>>

Next ==
  /\ ~exited
  /\ \/ \E j \in Job : Enqueue(j) \/ End(j) \/ OpenStream(j) \/ CloseStream(j)
     \/ Tick \/ TickEnds
     \/ \E s \in Signal : Stop(s) \/ Drain(s) \/ DrainEnds(s) \/ Exit(s)

Spec == Init /\ [][Next]_vars

-----------------------------------------------------------------------------
\* A client's job that has not ended when the process exits had been accepted before
\* every drain, the timer of a drain had gone off, and a job of its lane, itself or
\* one in front of it, had been aborted.
LeftBehind ==
  exited =>
    \A j \in Accepted \ Scheduled :
      /\ timedOut # {}
      /\ \E i \in aborted : Owner[i] = Owner[j]
      /\ \A s \in Signal : stop[s] \in {"draining", "disconnecting"} => j \in awaited[s]
=============================================================================
