# RiskReady Community in TLA+

RiskReady is a governance, risk and compliance platform. Its server (NestJS over
PostgreSQL) keeps the records; an AI gateway lets agents work on them; and every change an
agent wants to make is a *proposal* that a human approves first. This directory models the
parts in which order, concurrency and failure decide whether that promise is kept, checks
them with TLC on small instances, and proves the most important properties with TLAPS.

Paths below are relative to the repository's root. `server/` stands for `apps/server/src/`.

1. [The system](#1-the-system)
2. [The modules](#2-the-modules)
3. [The runs](#3-the-runs)
4. [Fairness](#4-fairness)
5. [The proofs](#5-the-proofs)
6. [What the models showed](#6-what-the-models-showed)
7. [Assumptions, and what is not modelled](#7-assumptions-and-what-is-not-modelled)
8. [Plan](#8-plan)
9. [Running it](#9-running-it)

## 1. The system

### How the parts interact

```
 web UI --HTTP--> server --HTTP--> gateway --stdio--> MCP tool servers
                    |                 |                     |
                    +------- PostgreSQL (Prisma) -----------+
```

The server, the gateway and the tool servers are separate processes. They share state
through the database only: a tool server *creates* an `McpPendingAction`; the server's
approval controller decides it and runs its executor; the gateway's scheduler polls until it
is decided and resumes the agent. A server process and a gateway process are each a single
event loop, so what runs between two `await`s is atomic and what is separated by one is not.

### Components modelled

The agent's side of the system, between the web UI and the database:

| Component | State | Operations | What is hard | What makes it correct |
|---|---|---|---|---|
| **MCP action approval** `server/mcp-approval` | `McpPendingAction`: status, reviewer; the requests being served | create (by a tool), approve + execute, reject, retry | two administrators at once; an approval is four queries and an executor, each of which may reject or be the last before a crash | an approval takes effect once, only while it stands, and is signed by the reviewer whose approval ran |
| **Lane queue** `gateway/src/queue/lane-queue.ts` | map user → lane; per lane a depth, a promise chain, the active job and its abort controller | enqueue, job end, job timer, cancel, drain | the map entry is deleted by user id while callbacks hold the lane object | one job of a user at a time, first in first out, bounded; nothing leaks; accepted jobs end |
| **Gateway runs** `gateway/src/gateway.ts`, `run/`, `middleware/rate-limit.ts`, `channels/internal.adapter.ts` | `RunState`s with their event buffers, subscribers and cancel functions; the count of running chats; the hourly windows; the shutdown | dispatch, events, subscribe, close, cancel, clean-up, stop | clients join before, during and after a run; runs queue, fail, time out; a signal arrives at any moment | a stream is the run; it ends; the limits hold; memory is released; a shutdown leaves behind only what it waited for |
| **Task scheduler and workflows** `gateway/src/scheduler`, `gateway/src/workflows`, and the updates `gateway/src/agent/agent-runner.ts` makes of its `AgentTask` | rows of `AgentTask`; `AgentSchedule.nextRunAt`; where the tick is | trigger, tick (schedules, workflows, approvals), steps, gates, resume | rows read at the start of a phase and served after many agent runs; every query may reject | gates hold; no resume before the reviews; no step skipped, no resume twice; nothing waits for ever |
| **Tool servers of a run** `gateway/src/agent/mcp-tool-executor.ts` | connection per server name, idle timers | call, spawn, exit of the process, idle close, shutdown | parallel calls spawn several processes, the map keeps one | every process is closed; none under a call |
| **Council** `gateway/src/council` | the session row, the opinions, the members asked | deliberate, one member after the other or two at a time | any member, any query, the synthesis may fail; the run may be aborted | a completed session stands on every member's opinion; none stays open |

The server's services, each a handler that reads rows, checks them and writes them by id:

| Component | State | What is hard | What makes it correct |
|---|---|---|---|
| **Policies** `server/policies`, `mcp-approval/executors/policy.executors.ts` | document; workflow with ordered steps; versions; exceptions | the client orders the steps; they are approved, delegated, cancelled and escalated at once; the document's status has other writers; a creation is five queries | a workflow approves only what was signed up to the first gap in its orders; one with a first step can be decided; versions are distinct; an exception in force was approved |
| **Changes** `server/itsm` | change; one approval row per approver | several approvers answer at once; an update writes any status | a change that was asked to wait has somebody to wait for; one that the approvals made APPROVED is settled |
| **Nonconformities** `server/audits` | nonconformity, its corrective action plan | read, check, write | four eyes |
| **Controls, SOA** `server/controls` | versions of the SOA; counters of an assessment | supersede, then approve; scan, then store | one approved SOA; counters that agree |
| **Risks** `server/risks` | plans and their actions; scores; linked controls | scores stored of rows that change | one active plan; a risk is as bad as its worst scenario; one primary control |
| **Evidence** `server/evidence` | request, evidence, fulfilments | two rows that are written one after the other | what was submitted has evidence; approved evidence stands |
| **Authentication** `server/auth` | failure counter, lock, refresh sessions | rotation is three queries | failures are counted; a sign-in has one session |
| **Incidents** `server/incidents` | status, timestamps, timeline | the timeline entry is a query of its own, and entries are also written by hand | a timeline nobody wrote in leads to the status; phases are stamped |
| **Regulatory scope** `server/organisation` | profile, its links to surveys, applicability of assets, controls, SOA entries, risks | queries whose failures are swallowed; profile and survey are edited apart | the scope agrees with the profile, the profile with the answer it links to |
| **Reference numbers** (all of them) | the references of a table | computed by one query, inserted by another | the next number is free |

### Components not modelled

| Component | State and operations | Why not |
|---|---|---|
| Chat proxy, event triggers `server/chat`, `server/agent-triggers` | requests forwarded to the gateway; a cache of run owners with 1000 entries | no protocol of their own: the runs are in `GatewayRuns` |
| Memory, router, catalog, grounding guard | text processing and static tables | nothing that happens in an order |
| MCP servers, shared MCP helpers | tool definitions: queries and `createPendingAction` | the latter is in `ActionApproval` and `TaskScheduler` |
| Dashboards, configuration, health | read-only queries, configuration rows | no protocol |
| Web UI | presentation | it has no state the server does not own |

`PROJECT.json` lists every component with its files and what of it is left out, and under
`hazards` each place in the code that is hard to test, with the properties about it or the
reason there is none.

## 2. The modules

```
ActionLifecycle  <=(refinement)=  ActionApproval  <-EXTENDS-  ActionApprovalProofs
                                       ^--------- MCActionApproval
JobQueue         <=(refinement)=  LaneQueue       <-EXTENDS-  LaneQueueProofs
                                   ^   ^--------- MCLaneQueue       ^INSTANCE
                           INSTANCE|                                |
                                  GatewayRuns     <-EXTENDS-  GatewayRunsProofs
                                       ^--------- MCGatewayRuns
                                  TaskScheduler   <-EXTENDS-  TaskSchedulerProofs
                                       ^--------- MCTaskScheduler

Requests <-EXTENDS- PolicyApproval  <-EXTENDS-  PolicyApprovalProofs
   ^                   ^------------- Components <-EXTENDS- MCComponents
   |                                    |    ^---EXTENDS--- ServiceProofs <- RecordProofs
   |                                    |                     ^-- ComponentsProofs
   |                                    |INSTANCE
   +--EXTENDS-- ChangeApproval, SoaApproval, CorrectiveAction, TreatmentPlans, RiskScores,
   |            ScenarioControls, AssessmentStats, EvidenceRequests, AuthSessions,
   |            Incidents, RegulatoryScope, PolicyVersions, PolicyExceptions,
   |            PolicyCreation, ReferenceNumbers        |
   (no requests:)  ToolServerPool, Council, HourlyLimit, GatewayShutdown
```

No module declares a RECURSIVE operator, so that all of them can be proved about.
Definitions marked "Mutant" in a comment are plausible mistakes; no specification uses them.
`PROJECT.json` says which run finds out which.

### ActionLifecycle and ActionApproval

`ActionLifecycle` is the promise to a reviewer. A proposal goes through rounds; in a round it
is decided once, an approved one is applied at most once and becomes EXECUTED or FAILED, and
only FAILED starts another round. REJECTED and EXECUTED are final.

`ActionApproval` is the controller with its two services. An HTTP request is an element of
`Handler` with a program counter, interrupted at each `await` between two database calls:

| `pc[h]` | the request stands |
|---|---|
| `claimed` | after `approve()`'s `updateMany ... where status: PENDING` matched (mcp-approval.service.ts:137) |
| `executing` | inside the executor (mcp-approval.controller.ts:77) |
| `applied` | after the executor returned, before `markExecuted` |
| `raised` | in the catch, before `markFailed` |
| `retrying` | in `retry()`, between the status check and the update (mcp-approval.service.ts:218/220) |

`LoadFails`, `MarkExecutedFails` and `MarkFailedFails` are queries that reject; the second
leads to the *catch*, because `markExecuted` shares the executor's `try`. `Crash` forgets all
requests and leaves the rows. `Settle` writes by id whatever the row's status is by then, as
`markExecuted` and `markFailed` do. `Executable` tells the action types with a registered
executor from those without, for which the handler only announces the decision.

`round`, `effects`, `actor` and `claim` are history variables: no guard reads one, but for the
bound on rounds. What an executor does to the domain tables is one effect here; it may fail
only as a whole.

### JobQueue and LaneQueue

`JobQueue` is one bounded first-in first-out queue per user, whose head is the job that runs.

`LaneQueue` keeps the *map entry* (`laneOf`) apart from the *lane object* (`depth`, `chain`,
`active`). The difference is what the code could get wrong: `lanes.delete(userId)` in the
`finally` block (lane-queue.ts:57) removes whatever the map holds, and callbacks chained on
an object go on running after the map has lost it. `chain[l]` has the jobs chained on the
object's promise that have not ended; the first runs. One action is one turn of the event
loop: a promise callback is a microtask and runs before the next turn, hence a job on an idle
lane starts in the turn that enqueues it and the next job in the turn in which its
predecessor ends. `queueOf` maps the lanes to `JobQueue`'s queues.

### GatewayRuns

It composes with `LaneQueue` by INSTANCE over the same variables: a dispatch is
`Queue!EnqueueAccepts` or `Queue!EnqueueRefuses` together with what `dispatch` does around it
(check the limit, create the run, register the cancel function), and a job's end is
`Queue!End` together with the decrement of the counter and the event its catch emits.

* `Emit` is `RunManager.emit`: buffer the event, notify the subscribers and, if it is terminal
  (`done` or `error`), set the status, forget the subscribers and set the clean-up timer.
* `stage[j]` is how far `agentRunner.execute` has come: preparing, council, message loop,
  answered. `Throw` can happen at each: before the `try`, inside it, and in the query for the
  memory distiller after the answer has been sent.
* `Subscribe` is `GET /stream/:runId`: replay of the buffer, then the subscription, in one
  turn; the adapter ends the response at the first terminal event (`UntilOver`). A run that is
  no longer in memory gives one `error`.
* Jobs of the scheduler have no run, no client and no count. Their lane key is
  `scheduler-<schedule id>`, while they act for the user who created the schedule.

Events are `text`, `error` and `done`: the tool, council and block events are like `text` to
every property.

### TaskScheduler

A tick is one sequential process: `phase` is the phase it is in, `todo` the rows the phase's
query returned, `at` the place in the code, `top` the row it serves, `who` the row the agent
runs for. Everything else (triggers, reviews, retries, the schedule coming due) happens
between any two of its steps, because each step ends at a database or agent call.

| Phase | Actions |
|---|---|
| schedules (`processDueSchedules`) | `ScheduleStarts`, `ScheduleStartFails`, `ScheduleAdvances` |
| workflows (`processWorkflowTasks`) | `FlowUnknown`, `FlowStarts`, then `executeSteps` |
| approvals (`processAwaitingApprovalTasks`) | `StillWaiting`, `Resolved`, then `ResumeFlow`/`FlowResumes` or `ResumeTask`/`OriginalDone` |
| `executeSteps` | `StepStarts`, `StepReturns`, `StepPauses` (the gate), `StepRaises`, `StepsOver`, and each one's failure |
| `agentRunner.execute` | `RunBegins`, `RunPrepared`, `Propose`, `RunThrows`, `RunAnswers`, `RunReturns`, `DistillFails` |

Three details of the code carry most of the weight. A rejection outside a step's own `try` is
taken by the scheduler for a failure to enqueue and *reverts* the workflow (`Revert`). The
updates of the agent's row are in `try` blocks that only log (`MayNotSet`). And `resume()`
continues behind the highest step any row of the workflow has (`LastStep`), whether that step
ran or not.

A query returns at most `take` rows and names no order: 5 workflows (scheduler.service.ts:189),
20 waiting tasks (line 251). `PhaseOver` reads *some* rows of either kind, as many as
`FlowBatch` and `WaitingBatch` allow. So an answered task may be left out of every tick while
others wait for their reviews: without the exception `Crowded`, TLC finds it starve, and
`TasksResumed` promises a resume only as long as fewer tasks than a tick reads are waiting
with a proposal nobody has reviewed.

`GateHolds` looks at what the agent proposed (`Made`), not at what the step's row says of it.
It holds of every gate as long as queries succeed. With failing queries it does not: the update
that records the proposals is logged and forgotten (agent-runner.ts:462), the row stays
IN_PROGRESS, and the workflow goes past its gate (line 240 of workflow-executor.ts asks the
row). That is a hazard of its own in `PROJECT.json`, and why the property is checked, and
proved, without database errors.

The scheduler's jobs go through lanes of their own, which are empty whenever it enqueues,
since it awaits each job. So enqueueing is starting, and the queue is not composed in.

### Requests, and the services of the server

`Requests` is what the services have in common: `request[h]` is the record of what request
`h` has read and will act upon, from one `await` to the next. `Reads`, `Continues` and
`Answers` begin, continue and end a request; a handler of one query is a step between the
awaits of others (`AtOnce`). Every query may be the last: a request that breaks off leaves
what it has written. Three history variables recur, and no guard reads one: `overlapped` (two
requests have been in service at once), `cut` (one broke off after its first write), and, by
other names, that an endpoint without a check was used (`reopened`, `forced`, `direct`,
`changeUpdated`, `rewritten`, `apart`). They are what the properties' exceptions are made of: where
the code lets somebody write past a workflow, the model has that write as an action, and the
property says of which rows it still speaks.
Nearly every service is a check and a write with an `await` in between and no transaction
around, so most promises hold only of requests that do not overlap; a property says so in
its hypothesis, and what holds without the hypothesis is stated without it.

| Module | Models | Properties (and the exceptions they name) |
|---|---|---|
| `PolicyApproval` | approval-workflow.service.ts: create, process (approve, reject, ask for changes), delegate, cancel; the job of policy-scheduler.service.ts that escalates; every status written without a workflow (`UpdateStatus`: the status endpoint and APPROVE_POLICY among them) | A workflow is created with *any* set of steps: the orders come from the client, and nothing checks them. `SignedThroughout`: a workflow approves the document only after a step of every order before the first gap, whatever overlaps, unless a PENDING step was delegated. `Decidable`: a workflow in progress that was posted with an order 1 has a step in review, unless a delegation broke off. `OneInReview`: with exactly one step of order 1, in serial use, that step is of the order `currentStepOrder` says, and exactly the orders before it are signed |
| `PolicyVersions` | document-version.service.ts: create, rollback; update of the text | `VersionsDistinct`, `NewestIsCurrent` |
| `PolicyExceptions` | document-exception.service.ts and the daily expiry | `ActiveWasApproved`, even when operations overlap; `EndedStaysEnded` |
| `PolicyCreation` | the CREATE_POLICY executor over five queries, with retries | `ExecutedIsComplete`, `RefusedByRace` |
| `ChangeApproval` | submit, requestApproval, approve, reject of a change, and `Update`: ChangeService.update, with the executors that call it (APPROVE_CHANGE and five others), writes any status at any time | `NeverHangs`: as long as it waits because a request made it wait, a required approver has yet to answer, in whatever order answers and updates overlap; `ApprovedIsSettled` of a change the approvals made APPROVED |
| `SoaApproval` | versions of the SOA: create, submit, approve, delete | `OneApproved`, also when an approval broke off |
| `CorrectiveAction` | draft, submit, approve, reject, close, and the unguarded update | `FourEyes` |
| `TreatmentPlans` | plans, their actions, the stored progress | `OneActivePlan`, `ProgressIsShare` |
| `RiskScores` | ratings, control effectiveness, the three recalculations | `RiskIsWorst`, `ResidualWithinInherent` |
| `ScenarioControls` | link, update, unlink; the primary flag handed on | `OnePrimary`, `PrimaryIsReplaced` |
| `AssessmentStats` | tests executed, skipped, removed; `recalculateStats` | `StatsAgree` |
| `EvidenceRequests` | a request, its fulfilments, the review, archive and deletion of evidence | `SubmittedHasEvidence`, whatever overlaps; `ApprovedEvidenceStands` |
| `AuthSessions` | sign-in with the lock; refresh in three queries; logout | `OneSessionPerLogin`, `FailuresCounted` |
| `Incidents` | create, update, updateStatus over the table of transitions; entries that are added, edited and deleted by hand (`ByHand`), those of updateStatus included, as they are not automated ones | `TimelineLeadsHere`, of a timeline nobody wrote in; `PhasesAreStamped`, even when requests overlap |
| `RegulatoryScope` | survey completion with and without propagation, update and deletion of a survey, edits of the profile (which keep its links), propagation over four kinds of row | `ScopeAgrees`; `AnswerStands`: of a regulation whose profile and survey were not written one without the other (`apart`) since the last propagated answer |
| `ReferenceNumbers` | the two schemes of all the `generate...Ref` functions | `NextIsFree`: the next number collides only with one taken meanwhile |

### Parts of the gateway on their own

* `ToolServerPool`: during one run, parallel calls to one server name. A call finds a
  connection or spawns one; the last spawn to finish is mapped; a timer closes a connection
  60 s after its last call and deletes the map entry *by name*; `shutdown` closes what is
  mapped. `NoServerLeaks`: what is up has a timer of its own. `NotClosedInUse`,
  `MapLeadsToServer`.
* `Council`: the three patterns of `deliberate` (in sequence; in parallel rounds of two; a
  challenge, then answers), with failures of members, queries and synthesis, and an abort.
  `EveryMemberHeard`, `NoSessionLeftOpen`, and `LevelWithinOpinions` for the weighted mean that
  `deriveConfidence` rounds to a level.
* `HourlyLimit`: two sliding windows that are pruned when they are looked at. `CountsTheHour`
  compares them with the log of what was accepted. A request is one that the hook looks at: a
  POST whose URL is `/dispatch`, with nothing behind it (rate-limit.ts:76).
* `GatewayShutdown`: two signals, each with a shutdown of its own, over lanes that still take
  jobs from clients and from the scheduler's running tick. `LeftBehind` says which jobs
  survive the exit.

### Components and MCComponents

These components share neither state nor calls, so a behaviour of `Components` is one of one
of them, its `subject`; the variables of the others keep their initial values. Its
specification `PartsSpec`, which the proofs are about, allows everything the modules do.
`MCComponents` gives the constants values and has the one run that checks them all; its
`BoundedSpec` is `PartsSpec` within the restrictions of section 3. The properties are
conjunctions of the modules' properties by theme:

| Property | Conjuncts |
|---|---|
| `SignedThroughout`, `Decidable`, `OneInReview` | of `PolicyApproval`, which is extended |
| `ChangeWaits` | `NeverHangs`, `ApprovedIsSettled` |
| `OneInForce` | `OneApproved`, `OneActivePlan`, `OneSessionPerLogin`, `OnePrimary`, `PrimaryIsReplaced` |
| `ApprovedFirst` | `FourEyes`, `ActiveWasApproved`, `EndedStaysEnded` |
| `AggregatesAgree` | `ProgressIsShare`, `StatsAgree`, `RiskIsWorst`, `ResidualWithinInherent`, `FailuresCounted`, `NewestIsCurrent`, `TimelineLeadsHere`, `PhasesAreStamped`, `ScopeAgrees`, `AnswerStands` |
| `DoneIsComplete` | `SubmittedHasEvidence`, `ApprovedEvidenceStands`, `ExecutedIsComplete` |
| `NumbersAreFree` | `NextIsFree`, `VersionsDistinct`, `RefusedByRace` |
| `NothingLeftBehind`, `ConnectionsUsable` | `NoServerLeaks`, `LeftBehind`; `NotClosedInUse`, `MapLeadsToServer` |
| `CouncilConcludes`, `CountsTheHour` | of `Council` and `HourlyLimit` |

## 3. The runs

| Run | Instance | Shows |
|---|---|---|
| `approval_serial` | 2 proposals (one without executor), 2 reviewers, 2 requests of which one may be a retry, database errors and crashes, 2 rounds | `TypeOK`, `OneEffectPerApproval`, `ExecutedOnlyWhileApproved`, `AuditTrail`, `ImplementsLifecycle` |
| `approval_reliable` | 1 proposal, 3 rounds, no faults | `AppliedAtMostOnce`; every approved action is settled (`ApprovedSettles`) |
| `approval_retry_race` | 3 requests, two of which may be retries | `OnlyFailedIsRetried` is **violated** |
| `lanes` | 2 users with 3 and 1 jobs, 3 lane objects, depth 2 | `TypeOK`, `OneAtATime`, `Reachable`, `LanesReleased`, `ImplementsJobQueue`, `AcceptedJobsEnd` |
| `gateway_limit` | 3 users, 4 chats (two of one user), limit 2, lane objects symmetric | `ConcurrencyBound` |
| `gateway_streams` | 2 chats of one user, depth 1, a scheduled job, a client, a council, cancel | `TypeOK`, `StreamIsTheRun`, `StreamsEnd`, `RunsForgotten` |
| `gateway_council` | 1 chat with a council, 1 client | `AnswerDelivered` is **violated** |
| `tasks_faults` | a two-step workflow with a gate on each step, a schedule, an unknown workflow; 1 action; failing queries, failing agents, crashes; a tick reads one row of a kind | `TypeOK`, `ResumedWhenResolved` |
| `tasks_live` | a two-step workflow with a gate on the first step, schedules, retries; 2 actions, 2 requests; failing agents; a tick reads one row of a kind | `GateHolds`, `NoStepSkipped`, `ResumedOnce`, `FinalIsFinal`, `FlowsProgress`, `TasksResumed` |
| `tasks_chain` | 1 schedule, 2 actions, no faults | `EveryRunResumed` is **violated** |
| `components` | the 20 components of `Components`, 2 requests at a time, faults between queries | the 14 properties of the table above (`PartsTypeOK` the fourteenth) |
| `changes_rejected` | 1 change, 2 required approvers and an optional one | `AllRequiredApproved` is **violated** |

### Bounds, and why they are enough

* **Approval.** The races are between two requests for one row; a third matters only where two
  retries overlap with a decision, which is what `approval_retry_race` has. Rows do not
  interact but through the requests, so a second proposal is there to catch a request that
  writes to the wrong one. `MaxRounds` 2 has one retry, 3 has a retry of a retried action. The
  theorems of section 5 lift every one of these bounds.
* **Lanes.** Three jobs of one user and depth 2 give a running job, a waiting one and a
  refused one; a second user shows that lanes are independent. Three lane objects are one more
  than the users, so that a lane the map has lost can go on beside its successor: the mutant
  `EmptiedAlways` does that. Here too the theorems hold for every number.
* **Gateway.** For the limit, the interesting case is an admitted chat that waits: two chats of
  one user and one each of two others, with a limit of 2. `MaxEvents` 1 in `gateway_streams`
  bounds only how many `text` events the loop sends: with a council's event, the answer and an
  error after it a buffer is long enough for a client to join before, between and after. With
  depth 1 the second chat is refused while the first runs; waiting behind one another is in
  `gateway_limit` and in `lanes`. `LimitHolds` and `StreamsFaithful` are proved for every
  number of each.
* **Tasks.** Two steps are the fewest with a step after a gate; with a gate on both, passing
  the last one is covered too. `tasks_faults` allows one request of each run (one workflow, or
  one schedule, or one unknown workflow) because the faults multiply everything; `MaxTasks` 5
  leaves a workflow room to be reverted and run again. `tasks_live` has two requests, so a
  workflow and a schedule, or two workflows, wait for each other; 8 rows are more than two
  requests can create, so the bound stops nothing there: two workflows need 6 rows, two
  schedules with their resumes 4. A tick there reads one pending workflow and one waiting task,
  so that either can be crowded out by the other of the two requests; the code's 5 and 20 are the
  same question with more rows. `GatedSteps` lifts the bounds for the gates.
* **Components.** Two requests at a time: every race is between a read and another request's
  write. Three steps have a first, an inner and a last one, and one delegation each. Three
  versions of the SOA and two requests that approve leave a version for each to supersede;
  likewise three sessions. Three failures lock an account, so two that overlap miss it. Binary
  digits, a width of 2 and numbers to 5 pass the end of a width. Three calls and three
  connections are a pair that spawns twice and a call that finds what is left. Three members
  are a batch of two and a rest; with weights 1 and 3 one member outweighs the others. The
  windows have limits 2 and 3 in a window of 2 over 5 ticks. Three versions of two texts: a
  rollback behind an edit. Two proposals and three documents: a retry beside another creation.
  Two linked controls: one is promoted. Three jobs, of two users, one scheduled, and two
  signals: a job that waits behind an aborted one. Two likelihoods make one scenario worse
  than the other.

  Where a property is about requests that do not overlap, exploring what overlaps adds only
  states. Hence the restrictions `Bounded` of `MCComponents` and its comment: requests that rate
  scenarios or propagate a scope do not overlap; once requests have overlapped, no workflow is
  escalated, no evidence is updated, approved or rejected, and no incident is forced, cut,
  updated or written about. A workflow of two posted orders with up to two steps of one order is
  created with at most three steps, or two once requests have overlapped: a gap, a missing first
  order, two first steps, two second ones all occur. What is written past a workflow or an
  approval is not combined with everything else: a policy becomes DRAFT or APPROVED that way, no
  request breaks off on a change with such a status, an incident is either forced, or written
  about, or cut, and one regulation at a time is `apart`.
  `SubmittedHasEvidence`, `Decidable` and `PhasesAreStamped`, which hold of overlapping
  requests too, are checked on the rest of them. The proofs have no such restriction.
  Requests are symmetric, and so are two sessions that have not been opened. `MaxNumber` stops
  numbers from being given out, not from being computed; `MaxDocuments` bounds the references a
  CREATE_POLICY tries as well.

Every run says `CHECK_DEADLOCK FALSE`: proposals, jobs and requests are finite in number, and
when all have been dealt with these systems rest.

## 4. Fairness

* `ActionApproval`: weak fairness of each request's next step: the event loop resumes a
  request whose query or executor has answered. None of `Create`, `Approve`, `Reject` and
  retry: nobody has to review.
* `LaneQueue`, `GatewayRuns`: weak fairness of a job's timer (lane-queue.ts:44) and of the
  work of a job *whose signal has been raised*: the message loop looks at the signal before
  each turn, and a turn is bounded by the timeouts of the API client and of the tool
  executor. A job that has not been aborted is free to run on. The clean-up timer fires.
* `TaskScheduler`: weak fairness of the scheduler as a whole: its interval timer keeps
  ticking, and agent runs come to an end by the job timer. Reviews and requests are under no
  fairness; `Propose` is not either, so an agent may, but need not, propose.
* The components of `Components` have safety properties only, and no fairness.

## 5. The proofs

Eight modules hold theorems; each is about the specification its name says, for every value of
the constants that satisfies the module's ASSUMEs. Every safety property that a run checks is
proved.

### ActionApproval, for any number of proposals, reviewers, requests and rounds

`TypeCorrect`, and then two inductive invariants, one on top of the other.

**`Rounds`** (⇒ `OneEffectPerApproval`) needs no assumption on retries: an approval belongs to
the round it was given in, a round is open only as long as none of its approvals exists, and
its payload has not been applied before. The property alone is not inductive: it does not
say why a second request cannot enter the same round. `OneEffect` therefore holds with
overlapping retries, failing queries and crashes: what the atomic `updateMany` of `approve`
buys.

**`Serial`** (⇒ `ExecutedOnlyWhileApproved`, `AuditTrail`) assumes `SerialRetries`, that at most
one request at a time serves a retry: whatever a request has read of its row is still true of
it when it acts (the status, the round, the reviewer; FAILED for a retry). The assumption is
needed: `approval_retry_race` is the counterexample without it. The theorems are
`ApprovedExecution`, `SignedDecisions` and `Refinement`: under `Serial` every step is a step
of `ActionLifecycle` or leaves its variables alone.

**`NotAgain`** (⇒ `AppliedAtMostOnce`, theorem `AppliedOnce`) adds that no query rejects, crashes
allowed: once anything of an action has been applied, its row is APPROVED or EXECUTED and no
request is left that may apply it again or mark it FAILED. It needs the assumption because
`markExecuted` shares the `try` of the executor (section 6).

### LaneQueue, for any number of users, jobs and lane objects, and any depth

One inductive invariant, **`Lanes`**: a lane counts the jobs of its chain and runs the first;
the map leads from the owner of each job to the lane the job is on; a lane in the map has work,
and of one user only. The last part is what makes `depth = 1` in the `finally` block the right
moment to delete the entry. From it: `TypeCorrect`, `MutualExclusion` (`OneAtATime`, over all
lane objects), `CancelReaches` (`Reachable`), `Released` (`LanesReleased`; `Placed` adds that an accepted job stays on some
lane's chain until it ends) and `Refinement` (`ImplementsJobQueue`). Facts
about `Append` and `Tail` are lemmas of their own (`Chained`, `Started`, `EmptyChain`).

### GatewayRuns, for any number of users, chats, clients, events and any limit

Two inductive invariants.

**`Counted`** (⇒ `ConcurrencyBound`, theorem `LimitHolds`) has `Lanes` as its first part, taken
from `LaneQueueProofs` by INSTANCE. The limit is checked when a chat is *dispatched* and counted
when it *starts*, so the question is why a chat that was admitted long ago cannot start above
the limit. The answer is in the lanes: a chat starts either at its dispatch, when the
check has just been made, or in the turn in which its predecessor ends; and the predecessor
is a chat of the same user, which has just given up its place, because a scheduled job's key is
nobody's user id (`KeyAssumption`).

**`Following`** (⇒ `StreamIsTheRun`, theorem `StreamsFaithful`): a run that is active has
emitted no terminal event, and its subscribers are the clients that joined and have not left;
a run that has ended emitted one; a job that was never dispatched has no run and no client.
With these a client has heard the buffer up to the first terminal event whenever it joined.

`TypeCorrect` rests on `Counted` (the counter never goes below zero).

### TaskScheduler, for any number of steps, gates, actions, requests and rows read at a time

`TypeCorrect` holds with all faults and requests. The other five are about rows that are
read, served and written in moments far apart, and state what they assume.

A gate is passed in two moments far apart, with agent runs, reviews and reverts in between: the
scheduler sees the reviews done (`Resolved`), and the executor, many queries later, adds the
row of the next step or completes the workflow. The invariant **`Inv`** says what carries the
first to the second: `PlaceOK`, which rows the scheduler's place in the code is about; `FlowOK`,
that the step being served belongs to the workflow's latest row, and that whoever goes on
behind a latest row that waits at a gate has come from a review; `DoneOK`, the same for what has
been completed. Each update of a row is treated once (`KeptRows`, `RowAlone`, ...), and
`Effects` says that a step writes a status, records an agent's answer or adds a row, so that
the many actions are not each a proof of their own. `TypeCorrect` follows.

The five rest on `Whole`: `Inv`, the kinds of rows (`Kinds`, `RunsFor`), and `Steady`, that the rows a phase has
still to serve are as its query read them, because nobody else writes a row of that kind and
status.

| Theorem | Property | Besides `Whole` | Assumes | Because |
|---|---|---|---|---|
| `GatedSteps` | `GateHolds` | `GatesOK`: a step's row tells what its run proposed, a waiting workflow is linked to all that its gated steps proposed, and from `Resolved` on every one of them is reviewed; `FlowsTaken`, `PlaceTaken` | no query rejects | a run whose row cannot be updated is past its gate |
| `ReviewedBefore` | `ResumedWhenResolved` | the row being taken up has no open proposal | no retries | a retry opens one again behind the check |
| `EndsStand` | `FinalIsFinal` | | no query rejects | `DistillFails` marks a finished row FAILED |
| `EveryStepRun` | `NoStepSkipped` | `FlowsTaken`, `PlaceTaken`: a workflow has run every step up to its latest row's, the one being served up to the scheduler's place | no query rejects | a step row without a conversation is passed over by the next resume |
| `OneResume` | `ResumedOnce` | `ResumeOK`: a row with a resume is COMPLETED, or about to be | no query rejects, no crash | both leave a resume whose original still waits |

Agents may fail, proposals come and be reviewed at any time in all of them; `ReviewedBefore`
allows every fault.

### PolicyApproval, for any number of workflows, delegations and requests, and any orders

`EveryStepSigned` (`SignedThroughout`) and `NeverStuck` (`Decidable`) hold for whatever orders
the client posts, although the checks of an operation come before its transaction and two
operations may act upon the same step. They speak of what a workflow does: an approval that was
written without one has no signatures, and the steps behind a gap are never asked for, so
neither is claimed. The invariant: a step that has begun has only posted and signed
orders before it, unless a PENDING step was delegated (`BegunReached`); every step is of an
order the workflow was posted with, and posted ones are not deleted (`RowsPosted`), so that
having read no next step means that a gap, or the end, comes next; and what a request has read
*still stands*, however long ago (`RequestsStand`): signatures are not taken back. `Typed` is its
type correctness.

`InOrder` (`OneInReview`) is about a workflow with one step of order 1 (gaps and later twins
are allowed), and requests one after the other, none of which breaks off a delegation. While
a request is between its queries the property is false of the rows, so the invariant
(`Sequential`) says of each place in each operation what the rows lack until it ends.

### The services and the parts of the gateway, for any number of rows, requests and values

A component's step lemma says that its invariant is kept by `[Next]_vars` of its module. In a
behaviour of `PartsSpec` one component moves and the others' rows are as they were at the
start, when every property holds: so "the subject's invariant, and the others as at the start"
is inductive for `PartsSpec` (`PartsNumbered`, `PartsAgree` and their like), and `PartsSpec` has
none of the bounds of the run.
`Requests` is one idea for all of them, and so is the lemma `Alone`: while no two requests have
overlapped, at most one is in service.

* **`ServiceProofs`.** `ChangesSettle` (`ChangeWaits`): the invariant `Settling` is about *all*
  interleavings: a change that waits, of whose required approvers none is left, has a request
  that is about to settle it, unless an update wrote its status. `InForceApproved` (`ApprovedFirst`): `Drafted` says that the plan
  is as the request in service has read it, its drafter included; `OnceApproved`, that whatever
  overlaps, an exception about to be activated has been approved; `Over`, that one which has
  ended is not about to come back. `OneForce` (`OneInForce`): `Superseding`, `OneActive`, `Rotated` and `Linking` say
  which of the two a request has written when old and new are both, or neither, in force.
* **`RecordProofs`.** `DoneComplete` (`DoneIsComplete`): for the partial documents of a failed
  CREATE_POLICY, `Built` says which parts each request has written by its place, and `Executed`
  that one whose proposal is EXECUTED has them all. `NumbersFree` (`NumbersAreFree`): version
  numbers increase (`Ascending`), and a reference computed from the greatest follows all others;
  one computed from the number of rows does as long as no row was deleted (`Counted`). `Agree` (`AggregatesAgree`): as long as no two requests overlapped, what is stored
  agrees with the rows *but for what the one request in service has yet to write*. Each of the
  ten has such a predicate of the request (`PropagationFits`, `WorstFits`, `NewestFits`, ...),
  which says at each of its places what is stale and which value it carries to put it right.
* **`ComponentsProofs`** (which extends the other two and `PolicyApprovalProofs`). `Connected` (`ConnectionsUsable`) and `CleanExit`
  (`NothingLeftBehind`): a connection that is up has a timer which waits for every call over it
  (`Calling`, `Timed`), and a job a shutdown leaves is one its drain had seen (`Stopping`).
  `HourLimited` (`CountsTheHour`): a window holds the timestamps of *distinct* accepted requests,
  in order, and every request of the last hour is among them (`Tracks`); after pruning there is a
  bijection between the two, which is what "counts" means.
  `Concludes` (`CouncilConcludes`): whoever was asked before the batch that runs has been heard
  or has failed, and a member that is asked alone fails only as the last (`Asking`); once the
  members are done, all have been asked but for the exceptions the property names
  (`Concluding`), and the session row is open from its creation to its last update
  (`Recording`). The weights are summed by recursion over the opinions. What is proved of the
  sum (`TotalBounds`: a number no less than any weight, 0 only when they all are) goes through
  a least counterexample (`NoLeast`), as the induction theorems of the library take an operator
  as a parameter.
  `TypesCorrect` (`PartsTypeOK`): every component's invariant with its types. What a request
  carries between its queries is typed by its place (`PlanSteps`, `SessionCarries`, ...), and a
  request leaves its step set nowhere (`Moved`). What is computed needs an argument of its own:
  the share of the completed actions is at most 100 (`ShareWithin`), no count of tests exceeds
  their number (`SummaryWithin`), a product of ratings and the worst of a risk's scenarios are
  scores (`RatingsWithin`, `Highest`), and a number has no more digits than its value,
  by the growth of the powers (`PowerGrows`, `DigitsWithin`).
  `PoliciesDecided` carries the three properties of `PolicyApproval` over to the composition.

### Assumptions of the proofs

Only the named ASSUMEs of the modules, which TLC evaluates on every run, and the hypotheses
that a theorem states and the sections above explain: `NoReviewer` is no
reviewer, retries are requests, at least one round; `None` is neither a lane nor a job, owners
are users, the depth and the limit are positive; chats are not scheduled jobs and do not share
their lanes' keys; gates are steps, faults are among those listed, bounds are natural numbers;
the highest order posted is positive, and `NoStep` is no row. In `Components`: a process serves finitely many
requests at a time, a plan has finitely many actions and an assessment finitely many tests, a
reference is written in a base of 2 or more, ratings are 1 to 5, an account may be
locked, required approvers may be asked, `None` is no connection, a payload is among those the
executor knows, widths and limits are natural numbers, a job has an owner, no role is selected
twice (the classifier collects them in a Set), an opinion scores -1, 0 or 1 and has a positive
weight (`Math.max(1, ...)`).

### Model-checked only

Liveness only (`ApprovedSettles`, `AcceptedJobsEnd`, `StreamsEnd`, `RunsForgotten`,
`FlowsProgress`, `TasksResumed`): the proof system reasons neither about fairness nor about
ENABLED.

What the proofs found wrong with the model: `ProgressIsShare` said that a progress of 100
means all actions completed, which rounding makes false of 200 actions or more (the run has
three), and now says so; and `HourlyLimit` took every old timestamp out of a window, where
`pruneWindow` stops at the first that is not.

## 6. What the models showed

Four places where the code does not do what a doc or comment says, each with a run:

* **Overlapping retries** (`approval_retry_race`). "Only FAILED actions can be retried"
  (mcp-approval.service.ts:216), but `retry` checks in one query and resets in another, without
  a condition. With two retries and a decision in between, a REJECTED proposal is offered
  again, or an approved one is approved and executed a second time.
* **A failed council ends the stream** (`gateway_council`). The notice "using single agent..."
  is an event of type `error`, which `RunManager.emit` takes for the end of the run; the
  answer that follows reaches no client that was listening.
* **A resumed run is not resumed again** (`tasks_chain`). AI_GUIDE.md:523 promises it for
  scheduled runs; the query asks for `parentTaskId: null`, and a resume run has a parent.
* **A rejected approval does not count** (`changes_rejected`). change-approval.service.ts:112
  records "All required approvals received" and approves the change when no required approval
  is PENDING (line 100); one that was REJECTED is not pending either.

Two more can be read off the code without a run: AI_GUIDE.md:557 lists the event
`approval.resolved` as step 6 of every approval, but the handler returns before it whenever
there is an executor (mcp-approval.controller.ts:83 and 92); and scheduler.service.ts:134 says
"for mutual exclusion with user runs" of a lane whose key is `scheduler-<id>` (line 137).

Behaviour the models contain, about which the code promises nothing a property could be
held to, or which a property names as its exception; the hazards in `PROJECT.json` have the
lines. In the agent's side:

* `markExecuted` inside the executor's `try`: when it rejects, an applied action is FAILED, and
  a retry applies it again. `AppliedAtMostOnce` is checked without database errors for this
  reason. A failed CREATE_POLICY leaves a partial document, and its retry makes a second.
* A crash between `approve` and its outcome leaves the row APPROVED for good.
* A cancel that comes while the job is queued uses up the run's cancel function and has no
  effect.
* After a schedule's run `nextRunAt` is written over whatever a user stored during it.
* If a step row is created but its conversation is not, the workflow is reverted; where that
  happens on a resume, the next resume continues behind the step. It takes a gate before the
  last step to get there; of the built-in workflows only one has a gate, on its last step.
* A rejected query for the memory distiller turns a COMPLETED or AWAITING_APPROVAL row into
  FAILED after the fact.
* A restart in the middle of a workflow leaves it IN_PROGRESS, which no query looks for.
* A tool server that exited stays mapped until its idle timer fires: for up to 60 s all calls
  to it fail. A server that lost its place in the map to a parallel spawn is closed by its own
  timer, which also unmaps the other.
* A challenge to be held with one member asks nobody; an aborted deliberation is recorded as
  completed; a deliberation whose last update rejects leaves its session open.
* A tick that is running when the gateway stops may enqueue after drain has taken its
  snapshot; drain aborts running jobs only, so the job behind one starts; closing the
  HTTP server waits while an event stream is open.

In the server's services:

* *Policies.* The client numbers the steps, from 1 or not: behind a gap (orders 1 and 3) the
  step is never asked for, and the document is APPROVED under the comment "All steps
  completed" (approval-workflow.service.ts:262); without an order 1 the workflow is in progress
  and nobody can decide it, though it can be cancelled; of two steps of order 1 either leads
  on. `PolicyDocumentService.updateStatus` (the status endpoint, APPROVE_POLICY, archiving)
  writes any status without a workflow, and reviews, versions and change requests write theirs.
  A step in review of a cancelled or rejected workflow can still be approved, and
  its last one makes the document APPROVED. Delegating a PENDING step lets a workflow jump; a
  delegation that breaks off leaves nobody to review; an ESCALATED workflow is neither active
  nor can it be cancelled. A rollback loses text that was never made a version; the
  version "1.1" a CREATE_POLICY may store is given again by the counters. The daily job
  expires APPROVED exceptions and no ACTIVE ones.
* *Changes.* `requestApproval` that asks somebody a second time sets PENDING_APPROVAL, then
  `createMany` is refused: the change waits for nobody. `ChangeService.update`,
  which APPROVE_CHANGE calls too, writes any status: APPROVED over required approvers who have
  not answered, or PENDING_APPROVAL when there is none left.
* *Nonconformities.* `update` writes the status unguarded; approving the plan of a CLOSED
  nonconformity moves it to IN_PROGRESS. The event `test.failed` is emitted by nobody.
* *Risks.* `approve`, `updateProgress` and `update` reopen closed plans; `createAction` does not
  recalculate. `calculateResidualFromControls` ignores the linked controls; linking, unlinking
  and the recalculation endpoints of a scenario leave the risk's scores; `RiskService.update`
  overwrites them; failed recalculations are logged and that is all.
* *Incidents.* A reopened incident keeps its `closedAt`. `update` writes any status. The entries
  of `updateStatus` have `isAutomated: false` (incident.service.ts:501), so the check that keeps
  automated entries from being edited or deleted lets them through.
* *Regulatory scope.* The profile keeps its link to an assessment that is updated, completed
  again without propagation, or deleted, and when the profile itself is edited. A propagation that fails is logged and left undone; it rewrites
  the entries of APPROVED Statements of Applicability; two surveys completed at once overwrite
  each other's flag.
* *References.* A count collides after a deletion. String order stops counting at the end
  of a width, and on the evidence table two services use different widths
  (evidence-migration.service.ts:20, and the tools of the ITSM server).

## 7. Assumptions, and what is not modelled

* One server process and one gateway process, as the repository's compose file runs them.
  Several gateways would break `OneAtATime` by construction: the queue is in memory.
* A database call is atomic and takes effect at one moment. A call that rejects has no effect;
  a connection lost after the statement took effect is not modelled. A Prisma transaction is
  one step.
* Of the executors only CREATE_POLICY is modelled beyond one effect. `UPDATE_AGENT_TASK`, which
  overwrites any task's status, is not an action of `TaskScheduler`: the properties there
  are those of a scheduler whose rows nobody else rewrites.
* `TaskScheduler` has one schedule, so that query's `take` does not matter; cron parsing and
  the CRUD of schedules are left out. A review is one step there (`Resolve`): the scheduler's only
  question is whether the status is PENDING.
* The services of the server do not call each other in the models: they meet in rows, and
  where one writes another's row by a route of its own (an unguarded `update`), that
  route is an action of the module that has the row.
* Left out of modelled components: change requests, reviews and acknowledgments of policies
  (but for the document's status, which they write); the deletion of a drafted or cancelled change; the tolerance engine and key risk indicators; the
  generation of an SOA's entries; evidence uploads and links; NIS2 and DORA assessments of
  incidents; API keys; all deletions of rows nothing depends on. Each is one guard and one
  update, or a computation over one row. Time is a nondeterministic choice (locks and sessions
  may have expired whenever they are looked at) except in `HourlyLimit`.
* What a tool call that timed out leaves behind, and what a job writes after the shutdown has
  disconnected the database.
* Prompts, tools, memory search, tokens and costs have no part in any property.

## 8. Plan

What is left, in this order; the reason is in brackets.

1. `UPDATE_AGENT_TASK` as a request of `TaskScheduler`, with the properties that survive it.
2. `Council` composed with `GatewayRuns` in place of the two outcomes it has there now, and
   `GatewayShutdown` with `LaneQueue` in place of sequences of jobs.
3. The rest of the policies (change requests, acknowledgments), the run-owner cache of the chat proxy.
4. Pure operators against reference definitions: `isToolAllowed`, the tolerance engine.

## 9. Running it

```
tlc -workers 2 -config lanes.cfg MCLaneQueue.tla      # a run: cfg and module of PROJECT.json
tlapm LaneQueueProofs.tla                             # the proofs of a module
```

`components` takes about two and a half minutes and visits 2.3 million states, `gateway_streams` one
and a half, `tasks_faults` one; the others take seconds. The proofs of a module take a minute
or two, those of `TaskScheduler`, `ServiceProofs` and `RecordProofs` five to ten. The
specifications use the community modules `SequencesExt` and `FiniteSetsExt`; the proofs use
`TLAPS` and the library's facts on finite sets, sequences and well-founded relations.
