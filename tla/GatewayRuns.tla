---------------------------- MODULE GatewayRuns -----------------------------
(***************************************************************************)
(* Chat runs of the AI gateway: gateway.ts and run/run-manager.ts over the  *)
(* job queue of LaneQueue, with the concurrency limit of                    *)
(* middleware/rate-limit.ts and the event protocol of agent-runner.ts.      *)
(*                                                                          *)
(* A run is a job and the buffer of events clients can replay and follow.   *)
(* The scheduler puts jobs without a run on lanes of its own.  As in        *)
(* LaneQueue an action is a turn of the event loop: the limit is checked,   *)
(* the run registered, the job enqueued and, on an idle lane, started with  *)
(* no other turn in between.                                                *)
(***************************************************************************)
EXTENDS Naturals, Sequences, FiniteSets, SequencesExt

CONSTANTS
  User,           \* lane keys: user ids, and scheduler-<schedule> keys
  Chat,           \* jobs that come from POST /dispatch
  Scheduled,      \* jobs that come from the scheduler
  Owner,          \* job -> lane key it is enqueued under
  Lane, None, MaxDepth,
  Client,         \* GET /stream/:runId requests
  MaxConcurrent,  \* maxConcurrent of the rate limit
  Councils,       \* chats for which a council is convened
  Unwanted,       \* chats their users may ask to cancel
  MaxEvents       \* bound: length of a run's event buffer

Job == Chat \cup Scheduled

ASSUME ClientAssumption == Chat \cap Scheduled = {} /\ Councils \cup Unwanted \subseteq Chat
ASSUME LimitAssumption == MaxConcurrent \in Nat \ {0} /\ MaxEvents \in Nat
\* What LaneQueue assumes; and the scheduler's lane keys are nobody's user id.
ASSUME QueueAssumption ==
  Owner \in [Job -> User] /\ None \notin Lane \cup Job /\ MaxDepth \in Nat \ {0}
ASSUME KeyAssumption == \A i \in Chat, j \in Scheduled : Owner[i] # Owner[j]

VARIABLES
  laneOf, depth, chain, active, aborted, phase,    \* the queue
  run,            \* Chat -> status of its RunState, "none" when not in `runs`
  events,         \* Chat -> RunState.events
  subscribers,    \* Chat -> clients in RunState.subscribers
  cancellable,    \* chats whose RunState.cancelFn is set
  concurrent,     \* concurrentCount
  stage,          \* Job -> how far agentRunner.execute has come
  stream,         \* Client -> the chat it streams, or None
  heard,          \* Client -> what has been written to its stream
  closed          \* clients that went away

Queue == INSTANCE LaneQueue

queueVars == <<laneOf, depth, chain, active, aborted, phase>>
runVars == <<run, events, subscribers, cancellable>>
clientVars == <<stream, heard, closed>>
vars == <<queueVars, runVars, clientVars, concurrent, stage>>

Event == {"text", "error", "done"}
Terminal == {"error", "done"}

TypeOK ==
  /\ run \in [Chat -> {"none", "active", "done", "error"}]
  /\ events \in [Chat -> Seq(Event)]
  /\ subscribers \in [Chat -> SUBSET Client]
  /\ cancellable \subseteq Chat
  /\ concurrent \in 0 .. MaxConcurrent
  /\ stage \in [Job -> {"preparing", "council", "loop", "answered"}]
  /\ stream \in [Client -> Chat \cup {None}]
  /\ heard \in [Client -> Seq(Event)]
  /\ closed \subseteq Client

Init ==
  /\ Queue!Init
  /\ run = [j \in Chat |-> "none"]
  /\ events = [j \in Chat |-> <<>>]
  /\ subscribers = [j \in Chat |-> {}]
  /\ cancellable = {}
  /\ concurrent = 0
  /\ stage = [j \in Job |-> "preparing"]
  /\ stream = [c \in Client |-> None]
  /\ heard = [c \in Client |-> <<>>]
  /\ closed = {}

Running(j) == Queue!Running(j)

-----------------------------------------------------------------------------
(***************************************************************************)
(* Streams.  The adapter ends the response with the first terminal event.   *)
(***************************************************************************)
\* Mutant: the first event of any type is taken for the last.
OverAtOnce(e) == TRUE
Over(e) == e \in Terminal

UntilOver(s) ==
  LET n == SelectInSeq(s, Over) IN IF n = 0 THEN s ELSE SubSeq(s, 1, n)

(***************************************************************************)
(* RunManager.emit: buffer, notify, and on a terminal event forget the      *)
(* subscribers and set the clean-up timer.                                  *)
(***************************************************************************)
Emit(j, e) ==
  IF run[j] = "none" THEN UNCHANGED <<run, events, subscribers, heard>>
  ELSE /\ events' = [events EXCEPT ![j] = Append(@, e)]
       /\ heard' = [c \in Client |->
                      IF c \in subscribers[j] THEN UntilOver(Append(heard[c], e))
                                              ELSE heard[c]]
       /\ run' = IF Over(e) THEN [run EXCEPT ![j] = e] ELSE run
       /\ subscribers' = IF Over(e) THEN [subscribers EXCEPT ![j] = {}]
                                    ELSE subscribers

(***************************************************************************)
(* The concurrency counter: executeJob increments it when a chat starts and *)
(* decrements it, not below zero, when it ends.                             *)
(***************************************************************************)
Began == {j \in Chat : Running(j)' /\ ~ Running(j)}

Ended(j) == IF j \in Chat /\ concurrent > 0 THEN 1 ELSE 0

\* Mutant: an off-by-one in the limit.
AdmitsLate == concurrent <= MaxConcurrent
Admits == concurrent < MaxConcurrent

(***************************************************************************)
(* POST /dispatch: preHandler, createRun, registerCancel, enqueue.          *)
(***************************************************************************)
Dispatch(j) ==
  /\ Admits
  /\ Queue!EnqueueAccepts(j)
  /\ run' = [run EXCEPT ![j] = "active"]
  /\ cancellable' = cancellable \cup {j}
  /\ concurrent' = concurrent + Cardinality(Began)
  /\ UNCHANGED <<events, subscribers, stage, clientVars>>

\* The queue is full: the promise rejects, its catch emits an error.
DispatchRefused(j) ==
  /\ Admits
  /\ Queue!EnqueueRefuses(j)
  /\ run' = [run EXCEPT ![j] = "error"]
  /\ events' = [events EXCEPT ![j] = <<"error">>]
  /\ cancellable' = cancellable \cup {j}
  /\ UNCHANGED <<subscribers, concurrent, stage, clientVars>>

\* The scheduler enqueues without a run, a subscriber or a count.
DispatchScheduled(j) ==
  /\ Queue!EnqueueAccepts(j)
  /\ UNCHANGED <<runVars, concurrent, stage, clientVars>>

(***************************************************************************)
(* agentRunner.execute.                                                     *)
(***************************************************************************)
Move(j, from, to) ==
  /\ Running(j)
  /\ stage[j] = from
  /\ stage' = [stage EXCEPT ![j] = to]
  /\ UNCHANGED <<queueVars, cancellable, concurrent, stream, closed>>

Prepared(j) ==
  /\ Move(j, "preparing", IF j \in Councils THEN "council" ELSE "loop")
  /\ UNCHANGED <<run, events, subscribers, heard>>

CouncilAnswers(j) == Move(j, "council", "loop") /\ Emit(j, "text")

CouncilFails(j) == Move(j, "council", "loop") /\ Emit(j, "error")

Text(j) ==
  /\ Len(events[j]) < MaxEvents
  /\ Move(j, "loop", "loop")
  /\ Emit(j, "text")

Answer(j) == Move(j, "loop", "answered") /\ Emit(j, "done")

\* The events a scheduled run emits go nowhere.
WorkScheduled(j) ==
  /\ \/ Move(j, "preparing", "loop") \/ Move(j, "loop", "answered")
  /\ UNCHANGED <<run, events, subscribers, heard>>

Finish(j) ==
  /\ Queue!End(j)
  /\ concurrent' = (concurrent - Ended(j)) + Cardinality(Began)
  /\ UNCHANGED <<cancellable, stage, stream, closed>>

Return(j) ==
  /\ stage[j] = "answered"
  /\ Finish(j)
  /\ UNCHANGED <<run, events, subscribers, heard>>

\* execute rejects: before its try, inside it, or in the query for the
\* distiller after the answer.  The catch of dispatch emits an error.
\* Mutant: a rejection is only logged.
ReportsNothing(j) == UNCHANGED <<run, events, subscribers, heard>>
Reports(j) == Emit(j, "error")

Throw(j) == Finish(j) /\ Reports(j)

ThrowScheduled(j) == Finish(j) /\ UNCHANGED <<run, events, subscribers, heard>>

(***************************************************************************)
(* POST /cancel/:runId, the job timer, the clean-up timer.                  *)
(***************************************************************************)
CancelRun(j) ==
  /\ j \in cancellable
  /\ aborted' = IF Queue!Cancelled(Owner[j], j) THEN aborted \cup {j} ELSE aborted
  /\ cancellable' = cancellable \ {j}
  /\ UNCHANGED <<laneOf, depth, chain, active, phase, run, events, subscribers,
                 clientVars, concurrent, stage>>

Timeout(j) ==
  /\ Queue!Timeout(j)
  /\ UNCHANGED <<runVars, clientVars, concurrent, stage>>

\* Mutant: the clean-up timer is set for answers only.
ExpiresAnswered(j) == run[j] = "done"
Expires(j) == run[j] \in Terminal

Cleanup(j) ==
  /\ Expires(j)
  /\ run' = [run EXCEPT ![j] = "none"]
  /\ events' = [events EXCEPT ![j] = <<>>]
  /\ cancellable' = cancellable \ {j}
  /\ UNCHANGED <<subscribers, queueVars, clientVars, concurrent, stage>>

(***************************************************************************)
(* GET /stream/:runId.                                                      *)
(***************************************************************************)
\* Mutant: a late subscriber is not given the events it missed.
ReplayNothing(j) == <<>>
Replay(j) == IF run[j] = "none" THEN <<"error">> ELSE UntilOver(events[j])

Subscribe(c, j) ==
  /\ stream[c] = None
  /\ phase[j] # "new"
  /\ stream' = [stream EXCEPT ![c] = j]
  /\ heard' = [heard EXCEPT ![c] = Replay(j)]
  /\ subscribers' = IF run[j] = "active"
                    THEN [subscribers EXCEPT ![j] = @ \cup {c}] ELSE subscribers
  /\ UNCHANGED <<run, events, cancellable, queueVars, closed, concurrent, stage>>

Close(c) ==
  /\ stream[c] # None /\ c \notin closed
  /\ closed' = closed \cup {c}
  /\ subscribers' = [subscribers EXCEPT ![stream[c]] = @ \ {c}]
  /\ UNCHANGED <<run, events, cancellable, queueVars, stream, heard, concurrent,
                 stage>>

-----------------------------------------------------------------------------
Work(j) ==
  \/ Prepared(j) \/ CouncilAnswers(j) \/ CouncilFails(j) \/ Answer(j)
  \/ Return(j) \/ Throw(j)

WorkForSchedule(j) == WorkScheduled(j) \/ Return(j) \/ ThrowScheduled(j)

Next ==
  \/ \E j \in Chat :
       \/ Dispatch(j) \/ DispatchRefused(j)
       \/ Work(j) \/ Text(j)
       \/ j \in Unwanted /\ CancelRun(j)
       \/ Cleanup(j)
  \/ \E j \in Scheduled : DispatchScheduled(j) \/ WorkForSchedule(j)
  \/ \E j \in Job : Timeout(j)
  \/ \E c \in Client, j \in Chat : Subscribe(c, j)
  \/ \E c \in Client : Close(c)

Spec == Init /\ [][Next]_vars

\* Timers fire, and an aborted run goes on to its end: it need not end of
\* its own accord.
Fairness ==
  /\ \A j \in Job : WF_vars(Timeout(j))
  /\ \A j \in Chat : WF_vars(j \in aborted /\ Work(j)) /\ WF_vars(Cleanup(j))
  /\ \A j \in Scheduled : WF_vars(j \in aborted /\ WorkForSchedule(j))

FairSpec == Spec /\ Fairness

-----------------------------------------------------------------------------
\* MAX_CONCURRENT: however chats queue up behind each other, the counter is
\* the number of chats running and never exceeds the limit.
ConcurrencyBound ==
  /\ concurrent = Cardinality({j \in Chat : Running(j)})
  /\ concurrent <= MaxConcurrent

\* A client that joins at any time and stays hears exactly what the run has
\* emitted, in order, up to its first terminal event: replay and following
\* lose nothing and repeat nothing.
StreamIsTheRun ==
  \A c \in Client, j \in Chat :
    stream[c] = j /\ c \notin closed /\ run[j] # "none"
      => heard[c] = UntilOver(events[j])

\* Every client that stays on a stream is told how it ended.
StreamsEnd ==
  \A c \in Client :
    stream[c] # None ~> c \in closed \/ \E n \in DOMAIN heard[c] : Over(heard[c][n])

\* No run stays in memory for ever.
RunsForgotten == \A j \in Chat : run[j] # "none" ~> run[j] = "none"

\* "Council deliberation failed, using single agent...": a client that stays
\* on the stream of a run that answers hears the answer.
AnswerDelivered ==
  \A c \in Client, j \in Chat :
    stream[c] = j /\ c \notin closed /\ run[j] = "done"
      => \E n \in DOMAIN heard[c] : heard[c][n] = "done"
=============================================================================
