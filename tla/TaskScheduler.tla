--------------------------- MODULE TaskScheduler ----------------------------
(***************************************************************************)
(* Autonomous work of the gateway: SchedulerService (scheduler/), the       *)
(* WorkflowExecutor (workflows/) and what AgentRunner.execute does to the   *)
(* AgentTask row it runs for.                                               *)
(*                                                                          *)
(* The scheduler is one process.  A tick serves due schedules, pending      *)
(* workflows and answered approvals, one row after the other, and waits for *)
(* each agent run to end; it works on the rows it read when the phase       *)
(* began.  An action is the code between two database calls, agent calls    *)
(* or returns.  The lanes the jobs go through (scheduler-...) are empty     *)
(* whenever the scheduler enqueues: enqueueing is starting.                 *)
(***************************************************************************)
EXTENDS Naturals, Sequences, FiniteSets, FiniteSetsExt

CONSTANTS
  Action,       \* the actions agents may propose
  Steps,        \* number of steps of the workflow
  Gates,        \* its steps with approvalGate
  Requests,     \* what users may ask for: "flow", "unknown", "schedule", "retry"
  Faults,       \* what may go wrong: "db" (a query), "agent" (a run), "crash"
  FlowBatch,    \* how many pending workflows a tick reads ("take")
  WaitingBatch, \* how many waiting tasks a tick reads
  MaxRequests,  \* bound: how often workflows and schedules are asked for
  MaxTasks      \* bound: rows of AgentTask

ASSUME StepsAssumption == Steps \in Nat /\ Gates \subseteq 1 .. Steps
ASSUME FaultAssumption == Faults \subseteq {"db", "agent", "crash"}
ASSUME BatchAssumption == FlowBatch \in Nat \ {0} /\ WaitingBatch \in Nat \ {0}
ASSUME BoundAssumption == MaxRequests \in Nat /\ MaxTasks \in Nat

VARIABLES
  tasks,        \* the rows of AgentTask, in the order they were created
  proposed,     \* the actions that exist (McpPendingAction)
  open,         \* those whose status is PENDING
  author,       \* (history) the row whose run proposed the action
  reviewed,     \* (history) those that have been reviewed
  due,          \* the schedule is enabled and its nextRunAt has passed
  asked,        \* (history) requests so far
  phase,        \* what the tick is doing, "idle" between ticks
  todo,         \* rows the phase has read and not served yet
  at,           \* where the scheduler is in serving one of them
  top,          \* the row it serves, 0 if none
  who,          \* the row the agent runs for, 0 if none
  step,         \* next step of the workflow
  linked,       \* actions the agent has proposed in this run
  ran           \* (history) rows the agent has run for to the end

scheduler == <<phase, todo, at, top, who, step, linked>>
actions == <<proposed, open, author, reviewed>>
requests == <<due, asked>>
vars == <<tasks, actions, requests, scheduler, ran>>

TaskStatus == {"PENDING", "IN_PROGRESS", "AWAITING_APPROVAL", "COMPLETED", "FAILED"}
Kind == {"flow", "unknown", "schedule", "step", "resume"}
Id == 1 .. Len(tasks)

TaskRow ==
  [kind : Kind, status : TaskStatus, parent : 0 .. MaxTasks, step : 0 .. Steps,
   links : SUBSET Action]

TypeOK ==
  /\ tasks \in Seq(TaskRow) /\ Len(tasks) <= MaxTasks
  /\ open \subseteq proposed /\ proposed \subseteq Action
  /\ author \in [Action -> 0 .. MaxTasks] /\ reviewed \subseteq proposed
  /\ due \in BOOLEAN /\ asked \in 0 .. MaxRequests
  /\ phase \in {"idle", "schedules", "workflows", "approvals"}
  /\ todo \subseteq 0 .. MaxTasks
  /\ top \in 0 .. Len(tasks) /\ who \in 0 .. Len(tasks)
  /\ step \in 0 .. Steps + 1 /\ linked \subseteq proposed
  /\ ran \subseteq Id

Init ==
  /\ tasks = <<>>
  /\ proposed = {} /\ open = {} /\ author = [a \in Action |-> 0] /\ reviewed = {}
  /\ due = FALSE /\ asked = 0
  /\ phase = "idle" /\ todo = {} /\ at = "pick"
  /\ top = 0 /\ who = 0 /\ step = 0 /\ linked = {} /\ ran = {}

Row(kind, parent, i) ==
  [kind |-> kind, status |-> "PENDING", parent |-> parent, step |-> i, links |-> {}]

Insert(row) == Len(tasks) < MaxTasks /\ tasks' = Append(tasks, row)
SetStatus(t, s) == tasks' = [tasks EXCEPT ![t].status = s]

Children(t) == {c \in Id : tasks[c].parent = t}
IsFlow(t) == tasks[t].kind = "flow"

\* Every query may reject, where the code lets it.
DbFails == "db" \in Faults

-----------------------------------------------------------------------------
(***************************************************************************)
(* Users: trigger a workflow, let a schedule come due, trigger it now,      *)
(* review an action, retry a failed one.                                    *)
(***************************************************************************)
Ask(r) == r \in Requests /\ asked < MaxRequests /\ asked' = asked + 1

Trigger(kind) ==
  /\ Ask(kind)
  /\ Insert(Row(kind, 0, 0))
  /\ UNCHANGED <<actions, due, scheduler>>

\* The schedule's time comes, or a user triggers it, while it is being served
\* too.
ComesDue ==
  /\ Ask("schedule")
  /\ due' = TRUE
  /\ UNCHANGED <<tasks, actions, scheduler>>

Resolve(a) ==
  /\ a \in open
  /\ open' = open \ {a} /\ reviewed' = reviewed \cup {a}
  /\ UNCHANGED <<tasks, proposed, author, requests, scheduler>>

Retry(a) ==
  /\ Ask("retry")
  /\ a \in proposed \ open
  /\ open' = open \cup {a}
  /\ UNCHANGED <<tasks, proposed, author, reviewed, due, scheduler>>

-----------------------------------------------------------------------------
(***************************************************************************)
(* A tick.  Each phase begins by reading the rows it will serve; Served is  *)
(* the end of one row, TickThrows a rejection nothing in the tick catches.  *)
(***************************************************************************)
\* The schedule is row 0 of its phase.
DueSchedules == IF due THEN {0} ELSE {}

\* Mutant: the query looks for step rows.
PendingSteps == {t \in Id : tasks[t].kind = "step" /\ tasks[t].status = "PENDING"}
PendingFlows ==
  {t \in Id : tasks[t].kind \in {"flow", "unknown"} /\ tasks[t].status = "PENDING"}

\* Mutants: the query looks for rows with a parent; for rows of any status.
AwaitingChildren ==
  {t \in Id : tasks[t].status = "AWAITING_APPROVAL" /\ tasks[t].parent # 0}
AnyTopTask == {t \in Id : tasks[t].parent = 0}
AwaitingTasks ==
  {t \in Id : tasks[t].status = "AWAITING_APPROVAL" /\ tasks[t].parent = 0}

\* A query with "take" and no order returns any n of the rows it finds.
Batch(n, rows) == IF Cardinality(rows) <= n THEN {rows} ELSE kSubset(n, rows)

Tick ==
  /\ phase = "idle"
  /\ phase' = "schedules" /\ todo' = DueSchedules
  /\ UNCHANGED <<tasks, actions, requests, at, top, who, step, linked>>

PhaseOver ==
  /\ at = "pick" /\ todo = {}
  /\ \/ /\ phase = "schedules" /\ phase' = "workflows"
        /\ todo' \in Batch(FlowBatch, PendingFlows)
     \/ /\ phase = "workflows" /\ phase' = "approvals"
        /\ todo' \in Batch(WaitingBatch, AwaitingTasks)
     \/ phase = "approvals" /\ phase' = "idle" /\ UNCHANGED todo
  /\ UNCHANGED <<tasks, actions, requests, at, top, who, step, linked>>

Goto(place) ==
  /\ at' = place
  /\ UNCHANGED <<actions, requests, phase, todo, top, who, step, linked>>

Served ==
  /\ at' = "pick" /\ top' = 0 /\ who' = 0 /\ step' = 0 /\ linked' = {}
  /\ UNCHANGED <<actions, phase, todo>>

Stop ==
  /\ phase' = "idle" /\ todo' = {} /\ at' = "pick"
  /\ top' = 0 /\ who' = 0 /\ step' = 0 /\ linked' = {}
  /\ UNCHANGED <<tasks, actions, requests>>

TickThrows ==
  /\ DbFails
  /\ \/ at = "pick" /\ phase \in {"workflows", "approvals"} /\ todo # {}
     \/ at \in {"resolved", "child", "rejected"}
  /\ Stop

Crash == "crash" \in Faults /\ phase # "idle" /\ Stop

(***************************************************************************)
(* Phase 1: due schedules.                                                  *)
(***************************************************************************)
ScheduleStarts ==
  /\ phase = "schedules" /\ at = "pick" /\ todo = {0}
  /\ Insert(Row("schedule", 0, 0))
  /\ todo' = {}
  /\ top' = Len(tasks) + 1 /\ who' = Len(tasks) + 1
  /\ at' = "begin"
  /\ UNCHANGED <<actions, requests, phase, step, linked>>

ScheduleStartFails ==
  /\ DbFails
  /\ phase = "schedules" /\ at = "pick" /\ todo = {0}
  /\ UNCHANGED tasks \/ Insert(Row("schedule", 0, 0))
  /\ todo' = {}
  /\ at' = "raised"
  /\ UNCHANGED <<actions, requests, phase, top, who, step, linked>>

\* nextRunAt moves on, whether the run succeeded or not; if that update
\* fails the schedule stays due.
ScheduleAdvances ==
  /\ phase = "schedules" /\ at \in {"returned", "raised"}
  /\ due' = FALSE \/ (DbFails /\ UNCHANGED due)
  /\ Served
  /\ UNCHANGED <<tasks, asked>>

(***************************************************************************)
(* Phase 2: pending workflows.  The row is marked IN_PROGRESS here and      *)
(* again by the executor.                                                   *)
(***************************************************************************)
Take(t) == at = "pick" /\ t \in todo \ {0} /\ todo' = todo \ {t}

FlowUnknown(t) ==
  /\ phase = "workflows" /\ Take(t) /\ ~ IsFlow(t)
  /\ SetStatus(t, "FAILED")
  /\ UNCHANGED <<actions, requests, phase, at, top, who, step, linked>>

FlowStarts(t) ==
  /\ phase = "workflows" /\ Take(t) /\ IsFlow(t)
  /\ SetStatus(t, "IN_PROGRESS")
  /\ top' = t /\ step' = 1 /\ at' = "step"
  /\ UNCHANGED <<actions, requests, phase, who, linked>>

(***************************************************************************)
(* The workflow executor.  A rejection outside the try of a step rejects    *)
(* the job: the scheduler takes that for a failure to enqueue.              *)
(***************************************************************************)
\* Mutant: the loop runs once too often.
OneMore(i) == i <= Steps + 1
More(i) == i <= Steps

StepStarts ==
  /\ at = "step" /\ More(step)
  /\ Insert(Row("step", top, step))
  /\ who' = Len(tasks) + 1 /\ at' = "begin"
  /\ UNCHANGED <<actions, requests, phase, todo, top, step, linked>>

\* The row or its conversation cannot be created.
StepStartFails ==
  /\ DbFails
  /\ at = "step" /\ More(step)
  /\ UNCHANGED tasks \/ Insert(Row("step", top, step))
  /\ Goto("rejected")

StepsOver ==
  /\ at = "step" /\ ~ More(step)
  /\ SetStatus(top, "COMPLETED")
  /\ Served /\ UNCHANGED requests

StepsOverFails ==
  /\ DbFails
  /\ at = "step" /\ ~ More(step)
  /\ Goto("rejected") /\ UNCHANGED tasks

\* Mutant: the gate is not looked at.
GateIgnored == FALSE
GateHit == step \in Gates /\ tasks[who].status = "AWAITING_APPROVAL"

StepPauses ==
  /\ at = "returned" /\ top > 0 /\ IsFlow(top)
  /\ GateHit
  /\ SetStatus(top, "AWAITING_APPROVAL")
  /\ Served /\ UNCHANGED requests

StepReturns ==
  /\ at = "returned" /\ top > 0 /\ IsFlow(top)
  /\ ~ GateHit
  /\ step' = step + 1 /\ at' = "step" /\ who' = 0 /\ linked' = {}
  /\ UNCHANGED <<tasks, actions, requests, phase, todo, top>>

\* Reading the step back, or pausing, fails: the step's catch takes over.
StepReturnFails ==
  /\ DbFails
  /\ at = "returned" /\ top > 0 /\ IsFlow(top)
  /\ Goto("raised") /\ UNCHANGED tasks

StepRaises ==
  /\ at = "raised" /\ top > 0 /\ IsFlow(top)
  /\ SetStatus(top, "FAILED")
  /\ Served /\ UNCHANGED requests

StepRaiseFails ==
  /\ DbFails
  /\ at = "raised" /\ top > 0 /\ IsFlow(top)
  /\ Goto("rejected") /\ UNCHANGED tasks

Revert ==
  /\ at = "rejected"
  /\ SetStatus(top, IF phase = "workflows" THEN "PENDING" ELSE "AWAITING_APPROVAL")
  /\ Served /\ UNCHANGED requests

(***************************************************************************)
(* Phase 3: tasks whose proposals have been reviewed.  A workflow's         *)
(* proposals are those of its step rows.                                    *)
(***************************************************************************)
LinksOf(t) ==
  IF IsFlow(t)
  THEN UNION {tasks[c].links : c \in
                {c \in Children(t) : tasks[c].status = "AWAITING_APPROVAL"}}
  ELSE tasks[t].links

\* Mutant: a workflow's own row is asked for its proposals.
OwnResolved(t) == tasks[t].links \cap open = {}
AllResolved(t) == LinksOf(t) \cap open = {}

StillWaiting(t) ==
  /\ phase = "approvals" /\ Take(t)
  /\ ~ AllResolved(t)
  /\ UNCHANGED <<tasks, actions, requests, phase, at, top, who, step, linked>>

Resolved(t) ==
  /\ phase = "approvals" /\ Take(t)
  /\ AllResolved(t)
  /\ top' = t /\ at' = "resolved"
  /\ UNCHANGED <<tasks, actions, requests, phase, who, step, linked>>

ResumeFlow ==
  /\ at = "resolved" /\ IsFlow(top)
  /\ SetStatus(top, "IN_PROGRESS")
  /\ Goto("resume")

\* resume() continues after the highest step any row of the workflow has.
LastStep(t) == Max({0} \cup {tasks[c].step : c \in Children(t)})
\* Mutant: an off-by-one in the step to resume from.
ResumePast(t) == LastStep(t) + 2
ResumeFrom(t) == LastStep(t) + 1

FlowResumes ==
  /\ at = "resume"
  /\ step' = ResumeFrom(top)
  /\ at' = "step"
  /\ UNCHANGED <<tasks, actions, requests, phase, todo, top, who, linked>>

FlowResumeFails ==
  /\ DbFails
  /\ at = "resume"
  /\ Goto("rejected") /\ UNCHANGED tasks

ResumeTask ==
  /\ at = "resolved" /\ ~ IsFlow(top)
  /\ Insert(Row("resume", top, 0))
  /\ who' = Len(tasks) + 1 /\ at' = "child"
  /\ UNCHANGED <<actions, requests, phase, todo, top, step, linked>>

\* Mutant: the original is left AWAITING_APPROVAL.
StaysAwaiting == "AWAITING_APPROVAL"
AfterResume == "COMPLETED"

OriginalDone ==
  /\ at = "child"
  /\ SetStatus(top, AfterResume)
  /\ Goto("begin")

\* The conversation for the resume cannot be created: nothing catches it.
OriginalDoneOnly ==
  /\ DbFails
  /\ at = "child"
  /\ SetStatus(top, AfterResume)
  /\ phase' = "idle" /\ todo' = {} /\ at' = "pick"
  /\ top' = 0 /\ who' = 0 /\ step' = 0 /\ linked' = {}
  /\ UNCHANGED <<actions, requests>>

TaskResumed ==
  /\ phase = "approvals" /\ at \in {"returned", "raised"} /\ ~ IsFlow(top)
  /\ Served /\ UNCHANGED <<tasks, requests>>

(***************************************************************************)
(* agentRunner.execute(..., taskId): the updates of the row are guarded by  *)
(* try blocks of their own that only log.                                   *)
(***************************************************************************)
MayNotSet(t, s) == SetStatus(t, s) \/ (DbFails /\ UNCHANGED tasks)

RunBegins == at = "begin" /\ MayNotSet(who, "IN_PROGRESS") /\ Goto("prepare")

RunPrepared == at = "prepare" /\ Goto("loop") /\ UNCHANGED tasks

\* Thrown before the try: the row is not marked FAILED.
RunUnprepared ==
  /\ Faults \cap {"agent", "db"} # {}
  /\ at = "prepare"
  /\ Goto("raised") /\ UNCHANGED tasks

Propose(a) ==
  /\ at = "loop"
  /\ a \notin proposed
  /\ proposed' = proposed \cup {a} /\ open' = open \cup {a}
  /\ linked' = linked \cup {a}
  /\ author' = [author EXCEPT ![a] = who]
  /\ UNCHANGED <<reviewed, tasks, requests, phase, todo, at, top, who, step>>

RunThrows ==
  /\ Faults \cap {"agent", "db"} # {}
  /\ at = "loop"
  /\ MayNotSet(who, "FAILED")
  /\ Goto("raised")

RunAnswers ==
  /\ at = "loop"
  /\ \/ tasks' = [tasks EXCEPT
           ![who].status = IF linked = {} THEN "COMPLETED" ELSE "AWAITING_APPROVAL",
           ![who].links = @ \cup linked]
     \/ DbFails /\ UNCHANGED tasks
  /\ Goto("distill")

RunReturns ==
  /\ at = "distill" /\ at' = "returned"
  /\ ran' = ran \cup {who}
  /\ UNCHANGED <<tasks, actions, requests, phase, todo, top, who, step, linked>>

\* The messages for the distiller cannot be read: the catch marks the row.
DistillFails ==
  /\ DbFails
  /\ at = "distill"
  /\ MayNotSet(who, "FAILED")
  /\ Goto("raised")

-----------------------------------------------------------------------------
Run ==
  \/ RunBegins \/ RunPrepared \/ RunUnprepared
  \/ RunThrows \/ RunAnswers \/ DistillFails

Serve ==
  \/ ScheduleStarts \/ ScheduleStartFails \/ ScheduleAdvances
  \/ \E t \in Id : FlowUnknown(t) \/ FlowStarts(t) \/ StillWaiting(t) \/ Resolved(t)
  \/ StepStarts \/ StepStartFails \/ StepsOver \/ StepsOverFails
  \/ StepPauses \/ StepReturns \/ StepReturnFails \/ StepRaises \/ StepRaiseFails
  \/ Revert \/ ResumeFlow \/ FlowResumes \/ FlowResumeFails
  \/ ResumeTask \/ OriginalDone \/ OriginalDoneOnly \/ TaskResumed

Scheduling ==
  \/ RunReturns
  \/ (Tick \/ PhaseOver \/ TickThrows \/ Serve \/ Run) /\ UNCHANGED ran

Environment ==
  \/ \E kind \in {"flow", "unknown"} : Trigger(kind)
  \/ ComesDue
  \/ \E a \in Action : Resolve(a) \/ Retry(a) \/ Propose(a)
  \/ Crash

Next == Scheduling \/ (Environment /\ UNCHANGED ran)

Spec == Init /\ [][Next]_vars

\* The interval timer keeps ticking and the event loop resumes the tick;
\* reviewers are under no obligation.
FairSpec == Spec /\ WF_vars(Scheduling)

-----------------------------------------------------------------------------
\* An approval gate holds: a workflow has gone past a gated step, to a later
\* step or to its end, only if every proposal of that step's run has been
\* reviewed: whatever the step's row says, and recorded in the row or not.
Made(c) == {a \in proposed : author[a] = c}

PastGate(t, c) ==
  \/ tasks[t].status = "COMPLETED"
  \/ \E d \in Children(t) : tasks[d].step > tasks[c].step

GateHolds ==
  \A t \in Id : IsFlow(t) =>
    \A c \in Children(t) :
      tasks[c].step \in Gates /\ PastGate(t, c) => Made(c) \subseteq reviewed

\* resume "continues from the next step": the agent has run every step of a
\* completed workflow.
NoStepSkipped ==
  \A t \in Id : IsFlow(t) /\ tasks[t].status = "COMPLETED" =>
    \A i \in 1 .. Steps : \E c \in Children(t) \cap ran : tasks[c].step = i

\* A task is resumed at most once, and only when it stops waiting.
ResumedOnce ==
  \A t \in Id :
    /\ Cardinality({c \in Children(t) : tasks[c].kind = "resume"}) <= 1
    /\ tasks[t].kind = "schedule" /\ Children(t) # {}
         => tasks[t].status = "COMPLETED" \/ (top = t /\ at = "child")

\* A resume is started only when every proposal of the task has been
\* reviewed, the ones made while the scheduler was serving others included.
ResumedWhenResolved ==
  [][\A t \in Id :
       /\ tasks[t].status = "AWAITING_APPROVAL" /\ tasks[t].parent = 0
       /\ tasks'[t].status \in {"IN_PROGRESS", "COMPLETED"}
       => LinksOf(t) \cap open = {}]_vars

\* "prevents re-pickup": a row that is being served is not served again, and
\* a run that has ended is not started again (COMPLETED and FAILED are final).
FinalIsFinal ==
  [][\A t \in Id :
       tasks[t].status \in {"COMPLETED", "FAILED"} => tasks'[t] = tasks[t]]_vars

\* A triggered workflow is started, and comes to an end or to a gate (when
\* there are not always more workflows than a tick reads: requests are bounded).
Status(t) == IF t \in Id THEN tasks[t].status ELSE "none"

FlowsProgress ==
  \A t \in 1 .. MaxTasks :
    (Status(t) \in {"PENDING", "IN_PROGRESS"} /\ IsFlow(t))
      ~> Status(t) \in {"AWAITING_APPROVAL", "COMPLETED", "FAILED"}

\* "the scheduler automatically resumes the agent when all linked proposals
\* are resolved", for the tasks users and schedules start: unless a proposal
\* is put to review again before the scheduler gets there, or as many tasks
\* as a tick reads wait for their reviews again and again, for the query may
\* then return those and never this one.
Answered(t) == Status(t) = "AWAITING_APPROVAL" /\ AllResolved(t)
Crowded == Cardinality({t \in AwaitingTasks : ~ AllResolved(t)}) >= WaitingBatch

TasksResumed ==
  \A t \in 1 .. MaxTasks :
    (Answered(t) /\ tasks[t].kind \in {"flow", "schedule"})
      ~> Status(t) # "AWAITING_APPROVAL" \/ ~ AllResolved(t) \/ Crowded

\* The same promise for every scheduled run, the resumed ones included.
EveryRunResumed ==
  \A t \in 1 .. MaxTasks :
    (Answered(t) /\ tasks[t].kind \in {"schedule", "resume"})
      ~> Status(t) # "AWAITING_APPROVAL"
=============================================================================
