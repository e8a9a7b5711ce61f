------------------------ MODULE TaskSchedulerProofs -------------------------
(***************************************************************************)
(* Proofs about TaskScheduler, for every workflow (number of steps, gates), *)
(* every number of actions, requests and rows, and all faults.              *)
(***************************************************************************)
EXTENDS TaskScheduler, WellFoundedInduction, FiniteSetTheorems, TLAPS

\* A bounded set of numbers has a greatest one.
LEMMA Greatest ==
  ASSUME NEW n \in Nat, NEW S \in SUBSET (0 .. n), S # {}
  PROVE  Max(S) \in S /\ \A i \in S : i <= Max(S)
<1> DEFINE T == {n - i : i \in S}  R == OpToRel(<, Nat)
<1>1. T \subseteq Nat /\ T # {}
  <2>1. \A i \in S : n - i \in Nat
    OBVIOUS
  <2> QED BY <2>1
<1>2. PICK x \in T : \A y \in T : ~ (<<y, x>> \in R)
  <2> HIDE DEF T
  <2> QED BY <1>1, NatLessThanWellFounded, WFMin
<1>3. ASSUME NEW y \in T PROVE x <= y
  <2>1. <<y, x>> \in R <=> <<y, x>> \in Nat \X Nat /\ <<y, x>>[1] < <<y, x>>[2]
    BY Zenon DEF OpToRel
  <2> HIDE DEF R
  <2>2. x \in Nat /\ y \in Nat
    BY <1>1
  <2> QED BY <1>2, <2>1, <2>2
<1>4. PICK m \in S : x = n - m
  OBVIOUS
<1>5. ASSUME NEW i \in S PROVE i <= m
  <2>1. n - i \in T
    OBVIOUS
  <2>2. x <= n - i
    BY <1>3, <2>1
  <2> HIDE DEF T
  <2> QED BY <1>4, <2>2
<1> QED BY <1>4, <1>5 DEF Max

(***************************************************************************)
(* What the changes of the table do.                                        *)
(***************************************************************************)
\* Rows keep everything but the status of row x.
Kept(x, s) ==
  /\ tasks' \in Seq(TaskRow) /\ Len(tasks') = Len(tasks)
  /\ \A t \in Id : /\ tasks'[t].kind = tasks[t].kind
                   /\ tasks'[t].parent = tasks[t].parent
                   /\ tasks'[t].step = tasks[t].step
                   /\ tasks'[t].links = tasks[t].links
                   /\ tasks'[t].status = IF t = x THEN s ELSE tasks[t].status

LEMMA StatusKept ==
  ASSUME TypeOK, NEW x, NEW s \in TaskStatus, SetStatus(x, s)
  PROVE  Kept(x, s)
<1>1. CASE x \in Id
  <2>1. tasks[x] \in TaskRow /\ tasks \in Seq(TaskRow)
    BY <1>1 DEF TypeOK, Id
  <2>2. [tasks[x] EXCEPT !.status = s] \in TaskRow
    BY <2>1 DEF TaskRow
  <2>3. tasks' \in Seq(TaskRow) /\ Len(tasks') = Len(tasks)
        /\ tasks' = [tasks EXCEPT ![x] = [tasks[x] EXCEPT !.status = s]]
    BY <1>1, <2>1, <2>2 DEF SetStatus, Id
  <2>4. \A t \in Id : tasks'[t] = IF t = x THEN [tasks[x] EXCEPT !.status = s] ELSE tasks[t]
    BY <2>1, <2>3 DEF Id
  <2>5. LET r == [tasks[x] EXCEPT !.status = s] IN
        /\ r.kind = tasks[x].kind /\ r.parent = tasks[x].parent /\ r.step = tasks[x].step
        /\ r.links = tasks[x].links /\ r.status = s
    BY <2>1 DEF TaskRow
  <2> QED BY <2>3, <2>4, <2>5 DEF Kept
<1>2. CASE x \notin Id
  <2>1. tasks' = tasks
    BY <1>2 DEF SetStatus, TypeOK, Id
  <2> QED BY <1>2, <2>1 DEF Kept, TypeOK
<1> QED BY <1>1, <1>2

LEMMA Inserted ==
  ASSUME TypeOK, NEW row \in TaskRow, Insert(row)
  PROVE  /\ tasks' \in Seq(TaskRow) /\ Len(tasks') = Len(tasks) + 1
         /\ Len(tasks') <= MaxTasks
         /\ Len(tasks) \in Nat /\ Id' = Id \cup {Len(tasks) + 1}
         /\ tasks'[Len(tasks) + 1] = row
         /\ \A t \in Id : tasks'[t] = tasks[t]
BY BoundAssumption DEF TypeOK, Insert, Id

LEMMA NothingChanged ==
  ASSUME TypeOK, tasks' = tasks
  PROVE  Kept(0, "PENDING")
BY DEF TypeOK, Kept, Id

(***************************************************************************)
(* The invariant: where the scheduler is, the rows it works on are there,   *)
(* and a workflow that is being served has the row the agent runs for.      *)
(***************************************************************************)
Running == {"begin", "prepare", "loop", "distill"}

RowsOK ==
  \A t \in Id : /\ tasks[t].links \subseteq proposed
                /\ IsFlow(t) => tasks[t].parent = 0

\* Where the scheduler is, and for which rows.
PlaceOK ==
  /\ at \in {"resolved", "child", "step", "resume", "rejected"} => top \in Id
  /\ at \in {"step", "resume", "rejected"} => IsFlow(top)
  /\ at = "child" => ~ IsFlow(top)
  /\ at \in Running \cup {"child"} =>
       who \in Id /\ ~ IsFlow(who) /\ tasks[who].parent \in {0, top}

\* A workflow that is being served.
FlowOK ==
  top \in Id /\ IsFlow(top) /\ at \in Running \cup {"returned"} =>
    who \in Children(top) /\ tasks[who].step = step /\ step <= Steps

Inv == TypeOK /\ RowsOK /\ PlaceOK /\ FlowOK

\* No proposal is lost.
Grows == proposed \subseteq proposed'

LEMMA KeptRows ==
  ASSUME TypeOK, RowsOK, Grows, NEW x, NEW s, Kept(x, s)
  PROVE  /\ Id' = Id /\ RowsOK'
         /\ \A t \in Id : /\ IsFlow(t)' <=> IsFlow(t)
                          /\ Children(t)' = Children(t)
                          /\ tasks'[t].parent = tasks[t].parent
                          /\ tasks'[t].step = tasks[t].step
<1>1. Id' = Id
  BY DEF Kept, Id
<1>2. \A t \in Id : Children(t)' = Children(t)
  BY <1>1 DEF Kept, Children
<1>3. RowsOK'
  BY <1>1 DEF RowsOK, Kept, IsFlow, Grows
<1> QED BY <1>1, <1>2, <1>3 DEF Kept, IsFlow

\* The scheduler goes on with the rows it has, or somebody else makes a step.
LEMMA GoesOn ==
  ASSUME Inv, Grows, NEW x, NEW s, Kept(x, s),
         UNCHANGED <<top, who, step>>,
         at' \in {"resolved", "child", "step", "resume"} => at' = at,
         at' \in Running => at \in Running \cup {"child"},
         at' = "returned" => at \in Running \cup {"returned"},
         at' = "rejected" => top \in Id /\ IsFlow(top)
  PROVE  RowsOK' /\ PlaceOK' /\ FlowOK'
<1> USE DEF Inv
<1>1. /\ Id' = Id /\ RowsOK'
      /\ \A t \in Id : /\ IsFlow(t)' <=> IsFlow(t)
                       /\ Children(t)' = Children(t)
                       /\ tasks'[t].parent = tasks[t].parent
                       /\ tasks'[t].step = tasks[t].step
  BY KeptRows
<1>2. PlaceOK'
  BY <1>1 DEF PlaceOK, Running, IsFlow
<1>3. FlowOK'
  <2> SUFFICES ASSUME NEW t \in Id, t = top, IsFlow(t), at' \in Running \cup {"returned"}
               PROVE  /\ who \in Children(t)' /\ tasks'[who].step = step /\ step <= Steps
    BY <1>1 DEF FlowOK, IsFlow, Children
  <2>1. at \in Running \cup {"returned"}
    BY DEF PlaceOK, Running
  <2>2. who \in Children(t) /\ who \in Id /\ tasks[who].step = step /\ step <= Steps
    BY <2>1 DEF FlowOK, Children
  <2> QED BY <1>1, <2>2
<1> QED BY <1>1, <1>2, <1>3

\* The scheduler is done with a row, or stops.
LEMMA Done ==
  ASSUME Inv, Grows, NEW x, NEW s, Kept(x, s), top' = 0, at' = "pick"
  PROVE  RowsOK' /\ PlaceOK' /\ FlowOK'
BY KeptRows DEF Inv, PlaceOK, FlowOK, Running

\* A new row.
LEMMA NewRow ==
  ASSUME Inv, Grows, NEW row \in TaskRow, Insert(row),
         row.links = {}, row.kind = "flow" => row.parent = 0, NEW n, n = Len(tasks) + 1
  PROVE  /\ RowsOK'
         /\ n \in Id' /\ n \notin Id /\ Id \subseteq Id' /\ n # 0
         /\ \A t \in Id : tasks'[t] = tasks[t] /\ (IsFlow(t)' <=> IsFlow(t))
         /\ tasks'[n] = row
         /\ \A t \in Id : Children(t)' = Children(t) \cup (IF row.parent = t THEN {n} ELSE {})
<1>1. /\ n \in Nat /\ n \notin Id /\ n \in Id' /\ Id' = Id \cup {n} /\ n # 0
      /\ tasks'[n] = row /\ \A t \in Id : tasks'[t] = tasks[t]
  BY Inserted DEF Inv, Id
<1>2. \A t \in Id : IsFlow(t)' <=> IsFlow(t)
  BY <1>1 DEF IsFlow
<1>3. \A t \in Id : Children(t)' = Children(t) \cup (IF row.parent = t THEN {n} ELSE {})
  BY <1>1 DEF Children
<1>4. RowsOK'
  BY <1>1 DEF Inv, RowsOK, IsFlow, Grows
<1> QED BY <1>1, <1>2, <1>3, <1>4

(***************************************************************************)
(* The steps, one by one.                                                   *)
(***************************************************************************)
Safe == RowsOK /\ PlaceOK /\ FlowOK

LEMMA Closing == UNCHANGED actions => Grows
BY DEF actions, Grows

\* A user's request, or a step row that is the last thing to succeed.
LEMMA RowAlone ==
  ASSUME Inv, UNCHANGED <<actions, top, who, step>>, NEW row \in TaskRow, Insert(row),
         row.links = {}, row.kind = "flow" => row.parent = 0,
         \/ at' = at /\ row.parent = 0
         \/ at' = "raised"
         \/ at' = "rejected" /\ top \in Id /\ IsFlow(top)
  PROVE  Safe'
<1>1. PICK n : n = Len(tasks) + 1
  OBVIOUS
<1>2. /\ RowsOK'
      /\ n \in Id' /\ n \notin Id /\ Id \subseteq Id'
      /\ \A t \in Id : tasks'[t] = tasks[t] /\ (IsFlow(t)' <=> IsFlow(t))
      /\ \A t \in Id : Children(t)' = Children(t) \cup (IF row.parent = t THEN {n} ELSE {})
  BY <1>1, NewRow, Closing
<1>3. PlaceOK'
  BY <1>2 DEF Inv, PlaceOK, Running, IsFlow
<1>4. FlowOK'
  <2>1. CASE at' = at
    <3> SUFFICES ASSUME NEW t \in Id', t = top, tasks'[t].kind = "flow",
                        at \in Running \cup {"returned"}
                 PROVE  who \in Children(t)' /\ tasks'[who].step = step /\ step <= Steps
      BY <1>2, <2>1 DEF FlowOK, IsFlow, Children
    <3>1. t \in Id /\ IsFlow(t)
      BY <1>1, <1>2 DEF Inv, TypeOK, Id, IsFlow
    <3>2. who \in Children(t) /\ who \in Id /\ tasks[who].step = step /\ step <= Steps
      BY <3>1 DEF Inv, FlowOK, Children
    <3> QED BY <1>2, <3>1, <3>2
  <2>2. CASE at' = "raised" \/ at' = "rejected"
    BY <2>2 DEF FlowOK, Running
  <2> QED BY <2>1, <2>2
<1> QED BY <1>2, <1>3, <1>4 DEF Safe

\* A row for the agent to run for.
LEMMA RowToRun ==
  ASSUME Inv, UNCHANGED actions, NEW row \in TaskRow, Insert(row),
         row.links = {}, row.kind # "flow", who' = Len(tasks) + 1,
         \/ row.parent = 0 /\ top' = Len(tasks) + 1 /\ at' = "begin"
         \/ /\ top \in Id /\ IsFlow(top)
            /\ row.parent = top /\ row.step = step /\ step <= Steps
            /\ top' = top /\ step' = step /\ at' = "begin"
         \/ top \in Id /\ ~ IsFlow(top) /\ row.parent = top /\ top' = top /\ at' = "child"
  PROVE  Safe'
<1>1. PICK n : n = Len(tasks) + 1
  OBVIOUS
<1>2. /\ RowsOK'
      /\ n \in Id' /\ n \notin Id /\ Id \subseteq Id' /\ tasks'[n] = row
      /\ \A t \in Id : tasks'[t] = tasks[t] /\ (IsFlow(t)' <=> IsFlow(t))
      /\ \A t \in Id : Children(t)' = Children(t) \cup (IF row.parent = t THEN {n} ELSE {})
  BY <1>1, NewRow, Closing
<1>3. PlaceOK'
  BY <1>1, <1>2 DEF PlaceOK, Running, IsFlow
<1>4. FlowOK'
  <2> SUFFICES ASSUME NEW t \in Id', t = top', tasks'[t].kind = "flow", at' = "begin"
               PROVE  n \in Children(t)' /\ tasks'[n].step = step' /\ step' <= Steps
    BY <1>1, <1>2 DEF FlowOK, IsFlow, Children, Running
  <2>1. t = top /\ t \in Id /\ IsFlow(t)
    BY <1>1, <1>2 DEF IsFlow
  <2> QED BY <1>1, <1>2, <2>1
<1> QED BY <1>2, <1>3, <1>4 DEF Safe

\* The scheduler comes to a row, or goes on with a workflow.
LEMMA AtRow ==
  ASSUME Inv, UNCHANGED actions, NEW x, NEW s, Kept(x, s), top' \in Id,
         at' = "resolved" \/ (at' \in {"step", "resume"} /\ IsFlow(top'))
  PROVE  Safe'
<1>1. Id' = Id /\ RowsOK' /\ \A t \in Id : IsFlow(t)' <=> IsFlow(t)
  BY KeptRows, Closing DEF Inv
<1>2. IsFlow(top') => tasks'[top'].kind = "flow"
  BY <1>1 DEF IsFlow
<1> QED BY <1>1, <1>2 DEF Safe, PlaceOK, FlowOK, Running, IsFlow

LEMMA RowsServedSafe ==
  ASSUME Inv, \/ \E t \in Id : FlowStarts(t) \/ Resolved(t)
              \/ FlowResumes \/ StepReturns \/ ResumeFlow
  PROVE  Safe'
<1>1. ASSUME NEW t \in Id, FlowStarts(t) PROVE Safe'
  <2>1. Kept(t, "IN_PROGRESS")
    BY <1>1, StatusKept DEF Inv, FlowStarts, TaskStatus
  <2> QED BY <1>1, <2>1, AtRow DEF FlowStarts
<1>2. ASSUME NEW t \in Id, Resolved(t) PROVE Safe'
  <2>1. Kept(0, "PENDING")
    BY <1>2, NothingChanged DEF Inv, Resolved
  <2> QED BY <1>2, <2>1, AtRow DEF Resolved
<1>3. CASE FlowResumes \/ StepReturns
  <2>1. Kept(0, "PENDING") /\ at' = "step" /\ UNCHANGED <<actions, top>>
    BY <1>3, NothingChanged DEF Inv, FlowResumes, StepReturns
  <2>2. top \in Id /\ IsFlow(top)
    BY <1>3 DEF FlowResumes, StepReturns, Inv, PlaceOK, TypeOK, Id
  <2> QED BY <2>1, <2>2, AtRow
<1>4. CASE ResumeFlow
  <2>1. Kept(top, "IN_PROGRESS") /\ UNCHANGED <<actions, top>> /\ at' = "resume"
    BY <1>4, StatusKept DEF Inv, ResumeFlow, Goto, TaskStatus
  <2>2. top \in Id /\ IsFlow(top)
    BY <1>4 DEF ResumeFlow, Inv, PlaceOK
  <2> QED BY <2>1, <2>2, AtRow
<1> QED BY <1>1, <1>2, <1>3, <1>4

\* The agent's row gets its outcome and the proposals of the run.
LEMMA RunAnswersSafe ==
  ASSUME Inv, RunAnswers
  PROVE  Safe'
<1>1. CASE UNCHANGED tasks
  <2>1. Kept(0, "PENDING") /\ UNCHANGED <<actions, top, who, step>>
        /\ at = "loop" /\ at' = "distill"
    BY <1>1, NothingChanged DEF Inv, RunAnswers, Goto
  <2> QED BY <2>1, GoesOn, Closing DEF Running, Safe
<1>2. CASE tasks' = [tasks EXCEPT
             ![who].status = IF linked = {} THEN "COMPLETED" ELSE "AWAITING_APPROVAL",
             ![who].links = @ \cup linked]
  <2>1. /\ UNCHANGED <<actions, top, who, step>> /\ at = "loop" /\ at' = "distill"
        /\ who \in Id /\ ~ IsFlow(who) /\ tasks[who].parent \in {0, top}
    BY DEF RunAnswers, Goto, Inv, PlaceOK, Running
  <2>2. PICK w \in Id : w = who
    BY <2>1
  <2>3. tasks[w] \in TaskRow /\ tasks \in Seq(TaskRow)
    BY DEF Inv, TypeOK, Id
  <2>4. /\ Id' = Id
        /\ \A t \in Id : t # w => tasks'[t] = tasks[t]
        /\ tasks'[w].kind = tasks[w].kind /\ tasks'[w].parent = tasks[w].parent
        /\ tasks'[w].step = tasks[w].step /\ tasks'[w].links = tasks[w].links \cup linked
    BY <1>2, <2>2, <2>3 DEF Id, TaskRow
  <2>5. \A t \in Id : IsFlow(t)' <=> IsFlow(t)
    BY <2>4 DEF IsFlow
  <2>6. \A t \in Id : Children(t)' = Children(t)
    BY <2>4 DEF Children
  <2>7. RowsOK'
    BY <2>1, <2>4, <2>5 DEF Inv, RowsOK, TypeOK, IsFlow, actions
  <2>8. PlaceOK'
    BY <2>1, <2>2, <2>4, <2>5 DEF PlaceOK, Running, IsFlow
  <2>9. FlowOK'
    <3> SUFFICES ASSUME NEW t \in Id, t = top, IsFlow(t)
                 PROVE  w \in Children(t) /\ tasks'[w].step = step /\ step <= Steps
      BY <2>1, <2>2, <2>4, <2>5, <2>6 DEF FlowOK
    <3> QED BY <2>1, <2>2, <2>4 DEF Inv, FlowOK, Running
  <2> QED BY <2>7, <2>8, <2>9 DEF Safe
<1> QED BY <1>1, <1>2 DEF RunAnswers

\* Every other step of the scheduler, from one query or call to the next.
LEMMA RunSafe ==
  ASSUME Inv, RunBegins \/ RunPrepared \/ RunUnprepared \/ RunThrows \/ DistillFails \/ RunReturns
  PROVE  Safe'
<1>1. UNCHANGED <<actions, top, who, step>>
      /\ at \in Running /\ at' \in {"prepare", "loop", "raised", "returned"}
  BY DEF RunBegins, RunPrepared, RunUnprepared, RunThrows, DistillFails, RunReturns, Goto, Running
<1>2. \E x, s : Kept(x, s)
  <2>1. CASE tasks' = tasks
    BY <2>1, NothingChanged DEF Inv
  <2>2. CASE SetStatus(who, "IN_PROGRESS") \/ SetStatus(who, "FAILED")
    BY <2>2, StatusKept DEF Inv, TaskStatus
  <2> QED BY <2>1, <2>2 DEF RunBegins, RunPrepared, RunUnprepared, RunThrows, DistillFails,
      RunReturns, MayNotSet
<1> QED BY <1>1, <1>2, GoesOn, Closing DEF Running, Safe

LEMMA RowTyped ==
  ASSUME TypeOK, NEW kind \in Kind, NEW parent \in 0 .. Len(tasks) + 1, NEW n \in 0 .. Steps,
         Insert(Row(kind, parent, n))
  PROVE  /\ Row(kind, parent, n) \in TaskRow
         /\ Row(kind, parent, n).kind = kind /\ Row(kind, parent, n).parent = parent
         /\ Row(kind, parent, n).step = n /\ Row(kind, parent, n).status = "PENDING"
         /\ Row(kind, parent, n).links = {}
<1>1. parent \in 0 .. MaxTasks
  BY BoundAssumption DEF TypeOK, Insert
<1> QED BY <1>1 DEF Row, TaskRow, TaskStatus
LEMMA UsersSafe ==
  ASSUME Inv,
         \/ \E kind \in {"flow", "unknown"} : Trigger(kind)
         \/ ComesDue \/ \E a \in Action : Resolve(a) \/ Propose(a) \/ Retry(a)
  PROVE  Safe'
<1>1. ASSUME NEW kind \in {"flow", "unknown"}, Trigger(kind) PROVE Safe'
  <2>1. kind \in Kind /\ 0 \in 0 .. Len(tasks) + 1 /\ 0 \in 0 .. Steps
    BY StepsAssumption DEF Kind, Inv, TypeOK
  <2>2. /\ Row(kind, 0, 0) \in TaskRow /\ Row(kind, 0, 0).parent = 0
        /\ Row(kind, 0, 0).links = {}
    BY <1>1, <2>1, RowTyped DEF Inv, Trigger
  <2> QED BY <1>1, <2>2, RowAlone DEF Trigger, scheduler
<1>2. ASSUME ComesDue \/ \E a \in Action : Resolve(a) \/ Propose(a) \/ Retry(a)
      PROVE  Safe'
  <2>1. Kept(0, "PENDING") /\ UNCHANGED <<at, top, who, step>>
    BY <1>2, NothingChanged DEF Inv, ComesDue, Resolve, Propose, Retry, scheduler
  <2>2. Grows
    BY <1>2 DEF ComesDue, Resolve, Propose, Retry, actions, Grows
  <2> QED BY <2>1, <2>2, GoesOn DEF Safe, Inv, PlaceOK
<1> QED BY <1>1, <1>2

LEMMA TickSafe ==
  ASSUME Inv,
         \/ Tick \/ PhaseOver \/ TickThrows \/ Crash \/ ScheduleAdvances \/ TaskResumed
         \/ StepsOverFails \/ StepReturnFails \/ StepRaiseFails \/ FlowResumeFails
         \/ \E t \in Id : StillWaiting(t)
  PROVE  Safe'
<1>1. Kept(0, "PENDING") /\ UNCHANGED actions
  BY NothingChanged DEF Inv, Tick, PhaseOver, TickThrows, Crash, Stop, ScheduleAdvances, Served,
     TaskResumed, StepsOverFails, StepReturnFails, StepRaiseFails, FlowResumeFails, Goto,
     StillWaiting
<1>2. CASE TickThrows \/ Crash \/ ScheduleAdvances \/ TaskResumed
  <2>1. top' = 0 /\ at' = "pick"
    BY <1>2 DEF TickThrows, Crash, Stop, ScheduleAdvances, Served, TaskResumed
  <2> QED BY <1>1, <2>1, Done, Closing DEF Safe
<1>3. CASE Tick \/ PhaseOver \/ \E t \in Id : StillWaiting(t)
  <2>1. UNCHANGED <<at, top, who, step>>
    BY <1>3 DEF Tick, PhaseOver, StillWaiting
  <2> QED BY <1>1, <2>1, GoesOn, Closing DEF Safe, Inv, PlaceOK
<1>4. CASE StepsOverFails \/ StepReturnFails \/ StepRaiseFails \/ FlowResumeFails
  <2>1. UNCHANGED <<top, who, step>> /\ at' \in {"rejected", "raised"}
        /\ top \in Id /\ IsFlow(top)
    BY <1>4 DEF StepsOverFails, StepReturnFails, StepRaiseFails, FlowResumeFails, Goto,
       Inv, PlaceOK, TypeOK, Id
  <2> QED BY <1>1, <2>1, GoesOn, Closing DEF Safe, Running
<1> QED BY <1>2, <1>3, <1>4

LEMMA RowsSafe ==
  ASSUME Inv, ScheduleStarts \/ ScheduleStartFails \/ StepStarts \/ StepStartFails \/ ResumeTask
  PROVE  Safe'
<1>0. top \in 0 .. Len(tasks) + 1 /\ 0 \in 0 .. Len(tasks) + 1 /\ 0 \in 0 .. Steps
      /\ {"schedule", "step", "resume"} \subseteq Kind
  BY StepsAssumption DEF Inv, TypeOK, Kind
<1>1. CASE ScheduleStarts
  BY <1>0, <1>1, RowTyped, RowToRun DEF Inv, ScheduleStarts
<1>2. CASE ScheduleStartFails
  <2>1. CASE UNCHANGED tasks
    <3>1. Kept(0, "PENDING")
      BY <2>1, NothingChanged DEF Inv
    <3> QED BY <1>2, <3>1, GoesOn, Closing DEF ScheduleStartFails, Safe, Running
  <2>2. CASE Insert(Row("schedule", 0, 0))
    BY <1>0, <1>2, <2>2, RowTyped, RowAlone DEF Inv, ScheduleStartFails
  <2> QED BY <1>2, <2>1, <2>2 DEF ScheduleStartFails
<1>3. ASSUME at = "step", More(step)
      PROVE  step \in 0 .. Steps /\ top \in Id /\ IsFlow(top)
  BY <1>3 DEF More, Inv, TypeOK, PlaceOK
<1>4. CASE StepStarts
  BY <1>0, <1>3, <1>4, RowTyped, RowToRun DEF Inv, StepStarts, More
<1>5. CASE StepStartFails
  <2>1. CASE UNCHANGED tasks
    <3>1. Kept(0, "PENDING")
      BY <2>1, NothingChanged DEF Inv
    <3> QED BY <1>3, <1>5, <3>1, GoesOn, Closing DEF StepStartFails, Goto, Safe, Running
  <2>2. CASE Insert(Row("step", top, step))
    BY <1>0, <1>3, <1>5, <2>2, RowTyped, RowAlone DEF Inv, StepStartFails, Goto
  <2> QED BY <1>5, <2>1, <2>2 DEF StepStartFails
<1>6. CASE ResumeTask
  <2>1. top \in Id /\ ~ IsFlow(top)
    BY <1>6 DEF ResumeTask, Inv, PlaceOK
  <2> QED BY <1>0, <1>6, <2>1, RowTyped, RowToRun DEF Inv, ResumeTask
<1> QED BY <1>1, <1>2, <1>4, <1>5, <1>6

LEMMA StatusesSafe ==
  ASSUME Inv,
         \/ StepsOver \/ StepPauses \/ StepRaises \/ Revert \/ OriginalDone \/ OriginalDoneOnly
         \/ \E t \in Id : FlowUnknown(t)
  PROVE  Safe'
<1>1. CASE StepsOver \/ StepPauses \/ StepRaises \/ Revert \/ OriginalDoneOnly
  <2>1. PICK s \in TaskStatus : SetStatus(top, s)
    BY <1>1 DEF StepsOver, StepPauses, StepRaises, Revert, OriginalDoneOnly, AfterResume, TaskStatus
  <2>2. Kept(top, s)
    BY <2>1, StatusKept DEF Inv
  <2> QED BY <1>1, <2>2, Done, Closing
      DEF StepsOver, StepPauses, StepRaises, Revert, OriginalDoneOnly, Served, Safe
<1>2. CASE OriginalDone
  <2>1. Kept(top, "COMPLETED")
    BY <1>2, StatusKept DEF Inv, OriginalDone, AfterResume, TaskStatus
  <2> QED BY <1>2, <2>1, GoesOn, Closing DEF OriginalDone, Goto, Running, Safe
<1>3. ASSUME NEW t \in Id, FlowUnknown(t) PROVE Safe'
  <2>1. Kept(t, "FAILED")
    BY <1>3, StatusKept DEF Inv, FlowUnknown, TaskStatus
  <2> QED BY <1>3, <2>1, GoesOn, Closing DEF FlowUnknown, Safe, Inv, PlaceOK
<1> QED BY <1>1, <1>2, <1>3

LEMMA InitSafe == Init => Safe
<1> SUFFICES ASSUME Init PROVE Safe
  OBVIOUS
<1>1. Id = {}
  BY DEF Init, Id
<1> QED BY <1>1 DEF Init, Safe, RowsOK, PlaceOK, FlowOK, Running

LEMMA StepSafe ==
  ASSUME Inv, [Next]_vars
  PROVE  Safe'
<1>2. CASE UNCHANGED vars
  <2>1. Kept(0, "PENDING") /\ UNCHANGED <<actions, at, top, who, step>>
    BY <1>2, NothingChanged DEF Inv, vars, scheduler
  <2> QED BY <2>1, GoesOn, Closing DEF Safe, Inv, PlaceOK
<1>3. ASSUME Serve PROVE Safe'
  BY <1>3, TickSafe, RowsSafe, StatusesSafe, RowsServedSafe DEF Serve
<1>4. ASSUME Run PROVE Safe'
  BY <1>4, RunSafe, RunAnswersSafe DEF Run
<1>5. CASE Scheduling
  BY <1>3, <1>4, <1>5, RunSafe, TickSafe DEF Scheduling
<1>6. CASE Environment
  BY <1>6, UsersSafe, TickSafe DEF Environment
<1> QED BY <1>2, <1>5, <1>6 DEF Next

(***************************************************************************)
(* Types.                                                                   *)
(***************************************************************************)
LEMMA InitTyped == Init => TypeOK
<1> SUFFICES ASSUME Init PROVE TypeOK
  OBVIOUS
<1>1. Len(tasks) = 0 /\ tasks \in Seq(TaskRow)
  BY DEF Init
<1>2. Len(tasks) <= MaxTasks /\ 0 \in 0 .. MaxRequests /\ 0 \in 0 .. Len(tasks)
      /\ 0 \in 0 .. Steps + 1 /\ 0 \in 0 .. MaxTasks
  BY <1>1, StepsAssumption, BoundAssumption
<1>3. author \in [Action -> 0 .. MaxTasks]
  BY <1>2 DEF Init
<1> QED BY <1>1, <1>2, <1>3 DEF Init, TypeOK

\* What the places where a row is served have to say about it.
LEMMA Places ==
  ASSUME Inv
  PROVE  /\ at \in Running \cup {"child"} => who \in Id
         /\ at = "returned" /\ top > 0 /\ IsFlow(top) => step \in 0 .. Steps
         /\ at \in {"resolved", "child", "step", "resume", "rejected"} => top \in Id
BY DEF Inv, PlaceOK, FlowOK, TypeOK, Id

\* The rest of the state, when rows keep their number or a row is added.
LEMMA RestTyped ==
  ASSUME TypeOK, NEW n \in Nat, tasks' \in Seq(TaskRow), Len(tasks') = n, n <= MaxTasks,
         Len(tasks) <= n,
         open' \subseteq proposed', proposed' \subseteq Action, due' \in BOOLEAN,
         author' \in [Action -> 0 .. MaxTasks], reviewed' \subseteq proposed',
         asked' \in 0 .. MaxRequests,
         phase' \in {"idle", "schedules", "workflows", "approvals"},
         todo' \subseteq todo \cup Id \cup {0},
         top' \in 0 .. n, who' \in 0 .. n, step' \in 0 .. Steps + 1,
         linked' \subseteq proposed', ran' \subseteq ran \cup Id
  PROVE  TypeOK'
<1>1. Len(tasks) \in Nat
  BY DEF TypeOK
<1>2. \A t \in Id : t \in 1 .. n /\ t \in 0 .. MaxTasks
  BY <1>1, BoundAssumption DEF Id
<1>3. ran' \subseteq Id' /\ todo' \subseteq 0 .. MaxTasks
  BY <1>2, BoundAssumption DEF TypeOK, Id
<1> QED BY <1>3 DEF TypeOK

\* A step that leaves the rows their number.
LEMMA KeptTyped ==
  ASSUME TypeOK, NEW x, NEW s, Kept(x, s),
         UNCHANGED actions, due' \in BOOLEAN, asked' \in 0 .. MaxRequests,
         phase' \in {"idle", "schedules", "workflows", "approvals"},
         todo' \subseteq todo \cup Id \cup {0},
         top' \in Id \cup {0, top}, who' \in {0, who}, step' \in 0 .. Steps + 1,
         linked' \in {{}, linked}, ran' \subseteq ran \cup Id
  PROVE  TypeOK'
<1>1. /\ Len(tasks) \in Nat /\ Len(tasks) <= MaxTasks
      /\ open \subseteq proposed /\ proposed \subseteq Action /\ linked \subseteq proposed
      /\ author \in [Action -> 0 .. MaxTasks] /\ reviewed \subseteq proposed
      /\ top \in 0 .. Len(tasks) /\ who \in 0 .. Len(tasks)
  BY DEF TypeOK
<1>2. top' \in 0 .. Len(tasks) /\ who' \in 0 .. Len(tasks)
  BY <1>1 DEF Id
<1>3. open' \subseteq proposed' /\ proposed' \subseteq Action /\ linked' \subseteq proposed'
      /\ author' \in [Action -> 0 .. MaxTasks] /\ reviewed' \subseteq proposed'
  BY <1>1 DEF actions
<1> QED BY <1>1, <1>2, <1>3, RestTyped DEF Kept

\* A step that adds a row.
LEMMA RowAddedTyped ==
  ASSUME TypeOK, NEW row \in TaskRow, Insert(row),
         UNCHANGED actions, due' \in BOOLEAN, asked' \in 0 .. MaxRequests,
         UNCHANGED <<phase, step, linked, ran>>, todo' \subseteq todo,
         top' \in {top, Len(tasks) + 1}, who' \in {who, Len(tasks) + 1}
  PROVE  TypeOK'
<1>1. /\ tasks' \in Seq(TaskRow) /\ Len(tasks') = Len(tasks) + 1
      /\ Len(tasks') <= MaxTasks /\ Len(tasks) \in Nat
  BY Inserted
<1>2. /\ open \subseteq proposed /\ proposed \subseteq Action /\ linked \subseteq proposed
      /\ author \in [Action -> 0 .. MaxTasks] /\ reviewed \subseteq proposed
      /\ top \in 0 .. Len(tasks) /\ who \in 0 .. Len(tasks)
      /\ phase \in {"idle", "schedules", "workflows", "approvals"} /\ step \in 0 .. Steps + 1
  BY DEF TypeOK
<1>3. PICK n \in Nat : n = Len(tasks) + 1
  BY <1>1
<1>4. top' \in 0 .. n /\ who' \in 0 .. n
  BY <1>1, <1>2, <1>3
<1>5. open' \subseteq proposed' /\ proposed' \subseteq Action /\ linked' \subseteq proposed'
      /\ author' \in [Action -> 0 .. MaxTasks] /\ reviewed' \subseteq proposed'
  BY <1>2 DEF actions
<1> QED BY <1>1, <1>2, <1>3, <1>4, <1>5, RestTyped

LEMMA LastStepTyped ==
  ASSUME TypeOK, NEW t
  PROVE  ResumeFrom(t) \in 0 .. Steps + 1
<1> DEFINE S == {0} \cup {tasks[c].step : c \in Children(t)}
<1>1. S \in SUBSET (0 .. Steps) /\ S # {} /\ Steps \in Nat
  <2>1. \A c \in Children(t) : tasks[c].step \in 0 .. Steps
    <3>1. \A c \in Id : tasks[c] \in TaskRow
      BY DEF TypeOK, Id
    <3> QED BY <3>1 DEF Children, TaskRow
  <2> QED BY <2>1, StepsAssumption
<1>2. Max(S) \in 0 .. Steps
  BY <1>1, Greatest
<1>3. LastStep(t) = Max(S)
  BY DEF LastStep
<1> QED BY <1>1, <1>2, <1>3 DEF ResumeFrom

LEMMA UsersTyped ==
  ASSUME Inv,
         \/ \E kind \in {"flow", "unknown"} : Trigger(kind)
         \/ ComesDue
         \/ \E a \in Action : Resolve(a) \/ Propose(a) \/ Retry(a),
         ran' = ran
  PROVE  TypeOK'
<1>1. ASSUME NEW kind \in {"flow", "unknown"}, Trigger(kind) PROVE TypeOK'
  <2>1. kind \in Kind /\ 0 \in 0 .. Len(tasks) + 1 /\ 0 \in 0 .. Steps
    BY StepsAssumption DEF Kind, Inv, TypeOK
  <2>2. Row(kind, 0, 0) \in TaskRow
    BY <1>1, <2>1, RowTyped DEF Inv, Trigger
  <2>3. due' \in BOOLEAN /\ asked' \in 0 .. MaxRequests
    BY <1>1, BoundAssumption DEF Trigger, Ask, Inv, TypeOK
  <2> QED BY <1>1, <2>2, <2>3, RowAddedTyped DEF Trigger, scheduler, Inv
<1>2. CASE ComesDue
  <2>1. Kept(0, "PENDING")
    BY <1>2, NothingChanged DEF Inv, ComesDue
  <2>2. due' \in BOOLEAN /\ asked' \in 0 .. MaxRequests
    BY <1>2, BoundAssumption DEF ComesDue, Ask, Inv, TypeOK
  <2> QED BY <1>2, <2>1, <2>2, KeptTyped DEF ComesDue, scheduler, Inv, TypeOK
<1>3. ASSUME NEW a \in Action, Resolve(a) \/ Propose(a) \/ Retry(a) PROVE TypeOK'
  <2>1. /\ open' \subseteq proposed' /\ proposed \subseteq proposed' /\ proposed' \subseteq Action
        /\ reviewed' \subseteq proposed'
        /\ linked' \subseteq proposed' /\ tasks' = tasks
        /\ UNCHANGED <<phase, todo, top, who, step, due>>
    BY <1>3 DEF Resolve, Propose, Retry, Inv, TypeOK, requests, scheduler
  <2>2. asked' \in 0 .. MaxRequests
    BY <1>3, BoundAssumption DEF Resolve, Propose, Retry, Ask, Inv, TypeOK, requests
  <2>3. Id' = Id
    BY <2>1 DEF Id
  <2>4. author' \in [Action -> 0 .. MaxTasks]
    <3>1. author \in [Action -> 0 .. MaxTasks] /\ who \in 0 .. MaxTasks
      BY BoundAssumption DEF Inv, TypeOK
    <3> QED BY <1>3, <3>1 DEF Resolve, Propose, Retry
  <2> QED BY <2>1, <2>2, <2>3, <2>4 DEF Inv, TypeOK
<1> QED BY <1>1, <1>2, <1>3

LEMMA RowsTyped ==
  ASSUME Inv, ScheduleStarts \/ StepStarts \/ ResumeTask, ran' = ran
  PROVE  TypeOK'
<1>0. top \in 0 .. Len(tasks) + 1 /\ 0 \in 0 .. Len(tasks) + 1 /\ 0 \in 0 .. Steps
      /\ {"schedule", "step", "resume"} \subseteq Kind /\ due \in BOOLEAN
      /\ asked \in 0 .. MaxRequests
  BY StepsAssumption DEF Inv, TypeOK, Kind
<1>1. at = "step" /\ More(step) => step \in 0 .. Steps
  BY DEF More, Inv, TypeOK
<1>2. PICK row \in TaskRow : Insert(row)
  BY <1>0, <1>1, RowTyped DEF Inv, ScheduleStarts, StepStarts, ResumeTask
<1> QED BY <1>0, <1>2, RowAddedTyped DEF Inv, ScheduleStarts, StepStarts, ResumeTask, requests

LEMMA FailuresTyped ==
  ASSUME Inv, ScheduleStartFails \/ StepStartFails, ran' = ran
  PROVE  TypeOK'
<1>0. top \in 0 .. Len(tasks) + 1 /\ 0 \in 0 .. Len(tasks) + 1 /\ 0 \in 0 .. Steps
      /\ {"schedule", "step", "resume"} \subseteq Kind
  BY StepsAssumption DEF Inv, TypeOK, Kind
<1>1. at = "step" /\ More(step) => step \in 0 .. Steps
  BY DEF More, Inv, TypeOK
<1>2. UNCHANGED <<actions, requests, phase, step, linked, top, who>> /\ todo' \subseteq todo
  BY DEF ScheduleStartFails, StepStartFails, Goto
<1>3. due \in BOOLEAN /\ asked \in 0 .. MaxRequests
      /\ phase \in {"idle", "schedules", "workflows", "approvals"} /\ step \in 0 .. Steps + 1
  BY DEF Inv, TypeOK
<1>4. CASE UNCHANGED tasks
  <2>1. Kept(0, "PENDING")
    BY <1>4, NothingChanged DEF Inv
  <2> QED BY <1>2, <1>3, <2>1, KeptTyped DEF Inv, requests
<1>5. ASSUME NEW row \in TaskRow, Insert(row) PROVE TypeOK'
  BY <1>2, <1>3, <1>5, RowAddedTyped DEF Inv, requests
<1> QED BY <1>0, <1>1, <1>4, <1>5, RowTyped DEF Inv, ScheduleStartFails, StepStartFails

\* A batch is made of the rows the query finds.
LEMMA Batches == \A n, rows : \A batch \in Batch(n, rows) : batch \subseteq rows
BY DEF Batch, kSubset

LEMMA ServedTyped ==
  ASSUME Inv, ran' = ran,
         \/ Tick \/ PhaseOver \/ TickThrows \/ Crash \/ ScheduleAdvances \/ TaskResumed
         \/ StepsOverFails \/ StepReturnFails \/ StepRaiseFails \/ FlowResumeFails
         \/ \E t \in Id : StillWaiting(t) \/ Resolved(t)
         \/ StepReturns \/ FlowResumes
  PROVE  TypeOK'
<1>1. /\ due \in BOOLEAN /\ asked \in 0 .. MaxRequests
      /\ phase \in {"idle", "schedules", "workflows", "approvals"}
      /\ step \in 0 .. Steps + 1 /\ {0, 1} \subseteq 0 .. Steps + 1
  BY StepsAssumption DEF Inv, TypeOK
<1>2. Kept(0, "PENDING") /\ UNCHANGED <<tasks, actions>>
  BY NothingChanged DEF Inv, Tick, PhaseOver, TickThrows, Crash, Stop, ScheduleAdvances, Served,
     TaskResumed, StepsOverFails, StepReturnFails, StepRaiseFails, FlowResumeFails, Goto,
     StillWaiting, Resolved, StepReturns, FlowResumes
<1>3. CASE TickThrows \/ Crash \/ ScheduleAdvances \/ TaskResumed
  BY <1>1, <1>2, <1>3, KeptTyped DEF Inv, TickThrows, Crash, Stop, ScheduleAdvances, Served,
     TaskResumed, requests
<1>4. CASE Tick \/ PhaseOver
  <2>1. todo' \subseteq todo \cup Id \cup {0}
        /\ phase' \in {"idle", "schedules", "workflows", "approvals"}
    BY <1>4, Batches DEF Tick, PhaseOver, DueSchedules, PendingFlows, AwaitingTasks
  <2> QED BY <1>1, <1>2, <1>4, <2>1, KeptTyped DEF Inv, Tick, PhaseOver, requests
<1>5. CASE StepsOverFails \/ StepReturnFails \/ StepRaiseFails \/ FlowResumeFails
  BY <1>1, <1>2, <1>5, KeptTyped DEF Inv, StepsOverFails, StepReturnFails, StepRaiseFails,
     FlowResumeFails, Goto, requests
<1>6. ASSUME NEW t \in Id, StillWaiting(t) \/ Resolved(t) PROVE TypeOK'
  BY <1>1, <1>2, <1>6, KeptTyped DEF Inv, StillWaiting, Resolved, Take, requests
<1>7. CASE StepReturns
  <2>1. step + 1 \in 0 .. Steps + 1
    BY <1>7, Places, StepsAssumption DEF StepReturns
  <2> QED BY <1>1, <1>2, <1>7, <2>1, KeptTyped DEF Inv, StepReturns, requests
<1>8. CASE FlowResumes
  BY <1>1, <1>2, <1>8, LastStepTyped, KeptTyped DEF Inv, FlowResumes, requests
<1> QED BY <1>3, <1>4, <1>5, <1>6, <1>7, <1>8

LEMMA StatusesTyped ==
  ASSUME Inv, ran' = ran,
         \/ StepsOver \/ StepPauses \/ StepRaises \/ Revert \/ OriginalDone \/ OriginalDoneOnly
         \/ ResumeFlow \/ \E t \in Id : FlowUnknown(t) \/ FlowStarts(t)
  PROVE  TypeOK'
<1>1. /\ due \in BOOLEAN /\ asked \in 0 .. MaxRequests
      /\ phase \in {"idle", "schedules", "workflows", "approvals"}
      /\ step \in 0 .. Steps + 1 /\ {0, 1} \subseteq 0 .. Steps + 1
  BY StepsAssumption DEF Inv, TypeOK
<1>2. PICK x : \E s \in TaskStatus : SetStatus(x, s)
  BY DEF StepsOver, StepPauses, StepRaises, Revert, OriginalDone, OriginalDoneOnly, ResumeFlow,
     FlowUnknown, FlowStarts, AfterResume, TaskStatus
<1>3. PICK s \in TaskStatus : SetStatus(x, s)
  BY <1>2
<1>4. Kept(x, s)
  BY <1>3, StatusKept DEF Inv
<1>5. CASE StepsOver \/ StepPauses \/ StepRaises \/ Revert
  BY <1>1, <1>4, <1>5, KeptTyped DEF Inv, StepsOver, StepPauses, StepRaises, Revert, Served,
     requests
<1>6. CASE OriginalDone \/ OriginalDoneOnly \/ ResumeFlow
  BY <1>1, <1>4, <1>6, KeptTyped DEF Inv, OriginalDone, OriginalDoneOnly, ResumeFlow, Goto,
     requests
<1>7. ASSUME NEW t \in Id, FlowUnknown(t) \/ FlowStarts(t) PROVE TypeOK'
  BY <1>1, <1>4, <1>7, KeptTyped DEF Inv, FlowUnknown, FlowStarts, Take, requests
<1> QED BY <1>5, <1>6, <1>7

LEMMA RunTyped ==
  ASSUME Inv,
         \/ (RunBegins \/ RunPrepared \/ RunUnprepared \/ RunThrows \/ DistillFails) /\ ran' = ran
         \/ RunReturns
  PROVE  TypeOK'
<1>1. /\ due \in BOOLEAN /\ asked \in 0 .. MaxRequests
      /\ phase \in {"idle", "schedules", "workflows", "approvals"}
      /\ step \in 0 .. Steps + 1
  BY DEF Inv, TypeOK
<1>2. UNCHANGED <<actions, requests, phase, todo, top, who, step, linked>>
  BY DEF RunBegins, RunPrepared, RunUnprepared, RunThrows, DistillFails, RunReturns, Goto
<1>3. ran' \subseteq ran \cup Id
  BY Places DEF RunReturns, Running
<1>4. PICK x : \E s \in TaskStatus : Kept(x, s)
  <2>1. CASE tasks' = tasks
    BY <2>1, NothingChanged DEF Inv, TaskStatus
  <2>2. ASSUME NEW s \in {"IN_PROGRESS", "FAILED"}, SetStatus(who, s)
        PROVE  \E x : \E r \in TaskStatus : Kept(x, r)
    BY <2>2, StatusKept DEF Inv, TaskStatus
  <2> QED BY <2>1, <2>2 DEF RunBegins, RunPrepared, RunUnprepared, RunThrows, DistillFails,
      RunReturns, MayNotSet
<1>5. PICK s \in TaskStatus : Kept(x, s)
  BY <1>4
<1> QED BY <1>1, <1>2, <1>3, <1>5, KeptTyped DEF Inv, requests

LEMMA RunAnswersTyped ==
  ASSUME Inv, RunAnswers, ran' = ran
  PROVE  TypeOK'
<1>1. UNCHANGED <<actions, requests, phase, todo, top, who, step, linked>>
  BY DEF RunAnswers, Goto
<1>2. CASE tasks' = tasks
  <2>1. Id' = Id
    BY <1>2 DEF Id
  <2> QED BY <1>1, <1>2, <2>1 DEF Inv, TypeOK, actions, requests
<1>3. CASE tasks' = [tasks EXCEPT
             ![who].status = IF linked = {} THEN "COMPLETED" ELSE "AWAITING_APPROVAL",
             ![who].links = @ \cup linked]
  <2>1. who \in Id /\ linked \subseteq Action
    BY Places DEF RunAnswers, Running, Inv, TypeOK
  <2>2. tasks[who] \in TaskRow /\ tasks \in Seq(TaskRow) /\ Len(tasks) <= MaxTasks
    BY <2>1 DEF Inv, TypeOK, Id
  <2> DEFINE r == [tasks[who] EXCEPT
                     !.status = IF linked = {} THEN "COMPLETED" ELSE "AWAITING_APPROVAL",
                     !.links = @ \cup linked]
  <2>3. r \in TaskRow
    BY <2>1, <2>2 DEF TaskRow, TaskStatus
  <2>4. tasks' = [tasks EXCEPT ![who] = r]
    BY <1>3, <2>1, <2>2 DEF Id
  <2> HIDE DEF r
  <2>5. tasks' \in Seq(TaskRow) /\ Len(tasks') = Len(tasks)
    BY <2>1, <2>2, <2>3, <2>4 DEF Id
  <2>6. Id' = Id
    BY <2>5 DEF Id
  <2> QED BY <1>1, <2>2, <2>5, <2>6 DEF Inv, TypeOK, actions, requests
<1> QED BY <1>2, <1>3 DEF RunAnswers

LEMMA StepTyped ==
  ASSUME Inv, [Next]_vars
  PROVE  TypeOK'
<1>1. CASE UNCHANGED vars
  <2>1. Id' = Id
    BY <1>1 DEF vars, Id
  <2> QED BY <1>1, <2>1 DEF Inv, TypeOK, vars, actions, requests, scheduler
<1>2. ASSUME Serve, ran' = ran PROVE TypeOK'
  BY <1>2, ServedTyped, RowsTyped, FailuresTyped, StatusesTyped DEF Serve
<1>3. ASSUME Run, ran' = ran PROVE TypeOK'
  BY <1>3, RunTyped, RunAnswersTyped DEF Run
<1>4. CASE Scheduling
  BY <1>2, <1>3, <1>4, RunTyped, ServedTyped DEF Scheduling
<1>5. CASE Environment /\ UNCHANGED ran
  BY <1>5, UsersTyped, ServedTyped DEF Environment
<1> QED BY <1>1, <1>4, <1>5 DEF Next

-----------------------------------------------------------------------------
-----------------------------------------------------------------------------
LEMMA InitInv == Init => Inv
BY InitSafe, InitTyped DEF Safe, Inv

LEMMA StepInv == Inv /\ [Next]_vars => Inv'
BY StepSafe, StepTyped DEF Safe, Inv
\* The rows of AgentTask and the scheduler's place among them stay within their types.
THEOREM TypeCorrect == Spec => []TypeOK
<1>1. Inv => TypeOK
  BY DEF Inv
<1> QED BY <1>1, StepInv, InitInv, PTL DEF Spec

-----------------------------------------------------------------------------
(***************************************************************************)
(* The rows a tick has read, and those it serves.                           *)
(***************************************************************************)
\* The rows the tick has read are as they were when it read them, and none of them is
\* being served.
ReadOK ==
  /\ at = "pick" => top = 0 /\ who = 0
  /\ phase \in {"workflows", "approvals"} => todo \subseteq Id \ {top, who}
  /\ phase = "workflows" =>
       \A t \in todo : tasks[t].status = "PENDING" /\ tasks[t].kind \in {"flow", "unknown"}
  /\ phase = "approvals" =>
       \A t \in todo : tasks[t].status = "AWAITING_APPROVAL" /\ tasks[t].parent = 0

\* The rows that are being served have not come to an end, except one that is resumed
\* by a run of its own.
ServedOK ==
  /\ at \in {"resolved", "child"} =>
       tasks[top].status = "AWAITING_APPROVAL" /\ tasks[top].parent = 0
  /\ at \in Running \cup {"returned", "raised", "rejected", "step", "resume"} =>
       (top \in Id /\ IsFlow(top) => tasks[top].status = "IN_PROGRESS")
  /\ at \in {"child", "begin", "prepare", "loop"} =>
       tasks[who].status \in {"PENDING", "IN_PROGRESS"}

\* Row x, if there is one, has status s, and no other row changes.
Only(x, s) ==
  /\ Id' = Id
  /\ \A t \in Id :
       IF t = x
       THEN /\ tasks'[t].kind = tasks[t].kind /\ tasks'[t].parent = tasks[t].parent
            /\ tasks'[t].step = tasks[t].step /\ tasks'[t].status = s
       ELSE tasks'[t] = tasks[t]

LEMMA OnlySet ==
  ASSUME TypeOK, NEW x, NEW s \in TaskStatus, SetStatus(x, s)
  PROVE  Only(x, s)
<1>1. Kept(x, s)
  BY StatusKept
<1>2. \A t \in Id : t # x => tasks'[t] = tasks[t]
  BY DEF SetStatus, TypeOK, Id
<1>3. Id' = Id
  BY <1>1 DEF Kept, Id
<1> QED BY <1>1, <1>2, <1>3 DEF Kept, Only

LEMMA OnlySame == ASSUME TypeOK, tasks' = tasks PROVE Only(0, "PENDING")
BY DEF Only, Id, TypeOK

LEMMA OnlyMaybe ==
  ASSUME TypeOK, NEW x, NEW s \in TaskStatus, MayNotSet(x, s)
  PROVE  Only(x, s) \/ Only(0, "PENDING")
BY OnlySet, OnlySame DEF MayNotSet

LEMMA OnlyAnswers ==
  ASSUME Inv, RunAnswers
  PROVE  Only(who, "COMPLETED") \/ Only(who, "AWAITING_APPROVAL") \/ Only(0, "PENDING")
<1>1. TypeOK /\ who \in Id
  BY Places DEF RunAnswers, Running, Inv
<1>2. CASE UNCHANGED tasks
  BY <1>1, <1>2, OnlySame
<1>3. CASE tasks' = [tasks EXCEPT
             ![who].status = IF linked = {} THEN "COMPLETED" ELSE "AWAITING_APPROVAL",
             ![who].links = @ \cup linked]
  <2>1. tasks[who] \in TaskRow /\ tasks \in Seq(TaskRow)
    BY <1>1 DEF TypeOK, Id
  <2>2. Id' = Id
    BY <1>3, <2>1 DEF Id
  <2>3. \A t \in Id : t # who => tasks'[t] = tasks[t]
    BY <1>1, <1>3, <2>1 DEF Id
  <2>4. /\ tasks'[who].kind = tasks[who].kind /\ tasks'[who].parent = tasks[who].parent
        /\ tasks'[who].step = tasks[who].step
        /\ tasks'[who].status \in {"COMPLETED", "AWAITING_APPROVAL"}
    BY <1>1, <1>3, <2>1 DEF Id, TaskRow
  <2> QED BY <1>1, <2>2, <2>3, <2>4 DEF Only
<1> QED BY <1>2, <1>3 DEF RunAnswers

\* What is left to serve stays as it was read.
LEMMA ReadOn ==
  ASSUME TypeOK, ReadOK, NEW x, NEW s, Only(x, s), x \in Id => x \notin todo',
         todo' \subseteq todo, phase' = phase \/ phase' \in {"idle", "schedules"},
         phase' \in {"workflows", "approvals"} => top' \notin todo' /\ who' \notin todo',
         at' = "pick" => top' = 0 /\ who' = 0
  PROVE  ReadOK'
BY DEF ReadOK, Only

LEMMA ReadOnInserted ==
  ASSUME TypeOK, ReadOK, NEW row \in TaskRow, Insert(row), todo' \subseteq todo, phase' = phase,
         top' \in {top, Len(tasks) + 1}, who' \in {who, Len(tasks) + 1},
         at' = "pick" => top' = 0 /\ who' = 0
  PROVE  ReadOK'
<1>1. PICK n : n = Len(tasks) + 1 /\ n \notin Id
  BY DEF TypeOK, Id
<1>2. Id' = Id \cup {n} /\ \A t \in Id : tasks'[t] = tasks[t]
  BY <1>1, Inserted
<1>3. phase \in {"workflows", "approvals"} => todo' \subseteq Id \ {top, who, n}
  BY <1>1 DEF ReadOK
<1> QED BY <1>1, <1>2, <1>3 DEF ReadOK

Steady == ReadOK /\ ServedOK

\* The table stays as it is.
LEMMA SameSteady ==
  ASSUME Inv, Steady, tasks' = tasks,
         \/ UNCHANGED vars \/ ComesDue \/ \E a \in Action : Resolve(a) \/ Propose(a) \/ Retry(a)
         \/ Crash \/ Tick \/ PhaseOver \/ TickThrows
         \/ ScheduleStartFails \/ ScheduleAdvances \/ TaskResumed
         \/ StepStartFails \/ StepsOverFails \/ StepReturns \/ StepReturnFails \/ StepRaiseFails
         \/ FlowResumes \/ FlowResumeFails \/ RunPrepared \/ RunUnprepared \/ RunReturns
         \/ \E t \in Id : StillWaiting(t) \/ Resolved(t)
  PROVE  Steady'
<1>0. Id' = Id /\ Only(0, "PENDING") /\ 0 \notin Id
  BY OnlySame DEF Id, Inv, TypeOK
<1> USE DEF Steady
<1>1. CASE UNCHANGED vars
  BY <1>0, <1>1, ReadOn DEF vars, scheduler, ServedOK, IsFlow, Inv, ReadOK
<1>2. CASE ComesDue \/ \E a \in Action : Resolve(a) \/ Propose(a) \/ Retry(a)
  <2>1. UNCHANGED <<phase, todo, at, top, who>>
    BY <1>2 DEF ComesDue, Resolve, Propose, Retry, scheduler
  <2> QED BY <1>0, <2>1, ReadOn DEF ServedOK, IsFlow, Inv, ReadOK
<1>3. CASE Crash \/ TickThrows \/ ScheduleAdvances \/ TaskResumed
  <2>1. /\ at' = "pick" /\ top' = 0 /\ who' = 0
        /\ \/ phase' = "idle" /\ todo' = {}
           \/ phase' = phase /\ todo' = todo
    BY <1>3 DEF Crash, TickThrows, Stop, ScheduleAdvances, TaskResumed, Served
  <2>2. ReadOK'
    BY <1>0, <2>1 DEF ReadOK
  <2> QED BY <2>1, <2>2 DEF ServedOK, Running
<1>4. CASE Tick
  <2>1. phase' = "schedules" /\ UNCHANGED <<at, top, who>>
    BY <1>4 DEF Tick
  <2> QED BY <1>0, <2>1 DEF ReadOK, ServedOK, IsFlow
<1>5. CASE PhaseOver
  <2>1. at = "pick" /\ UNCHANGED <<at, top, who>> /\ top = 0 /\ who = 0
    BY <1>5 DEF PhaseOver, ReadOK
  <2>2. ReadOK'
    <3>1. CASE phase' = "workflows" /\ todo' \subseteq PendingFlows
      BY <1>0, <2>1, <3>1 DEF ReadOK, PendingFlows
    <3>2. CASE phase' = "approvals" /\ todo' \subseteq AwaitingTasks
      BY <1>0, <2>1, <3>2 DEF ReadOK, AwaitingTasks
    <3>3. CASE phase' = "idle"
      BY <2>1, <3>3 DEF ReadOK
    <3> QED BY <1>5, <3>1, <3>2, <3>3, Batches DEF PhaseOver
  <2> QED BY <2>1, <2>2 DEF ServedOK, Running
<1>6. CASE ScheduleStartFails
  <2>1. at' = "raised" /\ top = 0 /\ UNCHANGED <<phase, top, who>> /\ phase = "schedules"
    BY <1>6 DEF ScheduleStartFails, ReadOK
  <2>2. ReadOK'
    BY <2>1 DEF ReadOK
  <2> QED BY <1>0, <2>1, <2>2 DEF ServedOK
<1>7. CASE StepStartFails \/ StepsOverFails \/ StepReturns \/ StepReturnFails \/ StepRaiseFails
           \/ FlowResumes \/ FlowResumeFails
  <2>1. /\ at' \in {"rejected", "step", "raised"} /\ UNCHANGED <<phase, todo, top>>
        /\ who' \in {0, who}
        /\ at \in Running \cup {"returned", "raised", "rejected", "step", "resume"}
    BY <1>7 DEF StepStartFails, StepsOverFails, StepReturns, StepReturnFails, StepRaiseFails,
       FlowResumes, FlowResumeFails, Goto
  <2>2. ReadOK'
    BY <1>0, <2>1, ReadOn DEF ReadOK, Inv
  <2> QED BY <1>0, <2>1, <2>2 DEF ServedOK, IsFlow
<1>8. CASE RunPrepared \/ RunUnprepared \/ RunReturns
  <2>1. /\ at \in {"prepare", "distill"} /\ at' \in {"loop", "raised", "returned"}
        /\ at' = "loop" => at = "prepare"
        /\ UNCHANGED <<phase, todo, top, who>>
    BY <1>8 DEF RunPrepared, RunUnprepared, RunReturns, Goto
  <2>2. ReadOK'
    BY <1>0, <2>1, ReadOn DEF ReadOK, Inv
  <2> QED BY <1>0, <2>1, <2>2 DEF ServedOK, IsFlow, Running
<1>9. ASSUME NEW t \in Id, StillWaiting(t) PROVE Steady'
  <2>1. /\ at = "pick" /\ at' = "pick" /\ UNCHANGED <<phase, top, who>> /\ todo' \subseteq todo
    BY <1>9 DEF StillWaiting, Take
  <2>2. ReadOK'
    BY <1>0, <2>1, ReadOn DEF ReadOK, Inv
  <2> QED BY <2>1, <2>2 DEF ServedOK, Running
<1>10. ASSUME NEW t \in Id, Resolved(t) PROVE Steady'
  <2>1. /\ at = "pick" /\ at' = "resolved" /\ top' = t /\ who' = who /\ phase' = phase
        /\ todo' = todo \ {t} /\ t \in todo /\ phase = "approvals"
    BY <1>10 DEF Resolved, Take
  <2>2. ReadOK'
    BY <1>0, <2>1, ReadOn DEF ReadOK, Inv
  <2>3. tasks[t].status = "AWAITING_APPROVAL" /\ tasks[t].parent = 0
    BY <2>1 DEF ReadOK
  <2> QED BY <2>1, <2>2, <2>3 DEF ServedOK, Running
<1> QED BY <1>1, <1>2, <1>3, <1>4, <1>5, <1>6, <1>7, <1>8, <1>9, <1>10

\* A row gets a status.
LEMMA StatusSteady ==
  ASSUME Inv, Steady,
         \/ StepsOver \/ StepPauses \/ StepRaises \/ Revert \/ ResumeFlow
         \/ OriginalDone \/ OriginalDoneOnly
         \/ \E t \in Id : FlowUnknown(t) \/ FlowStarts(t)
         \/ RunBegins \/ RunThrows \/ DistillFails \/ RunAnswers
  PROVE  Steady'
<1>t. TypeOK /\ 0 \notin Id
      /\ {"PENDING", "IN_PROGRESS", "AWAITING_APPROVAL", "COMPLETED", "FAILED"} = TaskStatus
  BY DEF Inv, TypeOK, Id, TaskStatus
<1> USE DEF Steady
<1>1. CASE StepsOver \/ StepPauses \/ StepRaises \/ Revert \/ OriginalDoneOnly
  <2>1. /\ at' = "pick" /\ top' = 0 /\ who' = 0
        /\ \/ phase' = "idle" /\ todo' = {}
           \/ phase' = phase /\ todo' = todo
    BY <1>1 DEF StepsOver, StepPauses, StepRaises, Revert, OriginalDoneOnly, Served
  <2>2. PICK s \in TaskStatus : SetStatus(top, s)
    BY <1>1, <1>t DEF StepsOver, StepPauses, StepRaises, Revert, OriginalDoneOnly, AfterResume
  <2>3. Only(top, s)
    BY <1>t, <2>2, OnlySet
  <2>4. top \in Id /\ phase \in {"workflows", "approvals"} => top \notin todo
    BY DEF ReadOK
  <2>5. ReadOK'
    BY <1>t, <2>1, <2>3, <2>4 DEF ReadOK, Only
  <2> QED BY <2>1, <2>5 DEF ServedOK, Running
<1>2. CASE ResumeFlow
  <2>1. Only(top, "IN_PROGRESS")
    BY <1>2, <1>t, OnlySet DEF ResumeFlow
  <2>2. at' = "resume" /\ UNCHANGED <<phase, todo, top, who>>
    BY <1>2 DEF ResumeFlow, Goto
  <2>3. ReadOK'
    BY <2>1, <2>2, <1>t DEF ReadOK, Only
  <2> QED BY <2>1, <2>2, <2>3 DEF ServedOK, Only, Running
<1>3. CASE OriginalDone
  <2>1. Only(top, "COMPLETED")
    BY <1>3, <1>t, OnlySet DEF OriginalDone, AfterResume
  <2>2. at = "child" /\ at' = "begin" /\ UNCHANGED <<phase, todo, top, who>>
    BY <1>3 DEF OriginalDone, Goto
  <2>3. ReadOK'
    BY <2>1, <2>2, <1>t DEF ReadOK, Only
  <2>4. who \in Id /\ top \in Id /\ ~ IsFlow(top) /\ who # top
    BY <2>2 DEF Inv, PlaceOK, ServedOK
  <2> QED BY <2>1, <2>2, <2>3, <2>4 DEF ServedOK, Only, IsFlow
<1>4. ASSUME NEW t \in Id, FlowUnknown(t) PROVE Steady'
  <2>1. Only(t, "FAILED")
    BY <1>4, <1>t, OnlySet DEF FlowUnknown
  <2>2. at = "pick" /\ at' = "pick" /\ UNCHANGED <<phase, top, who>> /\ todo' = todo \ {t}
    BY <1>4 DEF FlowUnknown, Take
  <2>3. ReadOK'
    BY <2>1, <2>2, <1>t, ReadOn DEF ReadOK
  <2> QED BY <2>2, <2>3 DEF ServedOK, Running
<1>5. ASSUME NEW t \in Id, FlowStarts(t) PROVE Steady'
  <2>1. Only(t, "IN_PROGRESS")
    BY <1>5, <1>t, OnlySet DEF FlowStarts
  <2>2. at = "pick" /\ at' = "step" /\ top' = t /\ UNCHANGED <<phase, who>> /\ todo' = todo \ {t}
    BY <1>5 DEF FlowStarts, Take
  <2>3. ReadOK'
    BY <2>1, <2>2, <1>t, ReadOn DEF ReadOK
  <2> QED BY <2>1, <2>2, <2>3 DEF ServedOK, Running, Only
<1>6. CASE RunBegins \/ RunThrows \/ DistillFails \/ RunAnswers
  <2>1. /\ at \in {"begin", "loop", "distill"} /\ UNCHANGED <<phase, todo, top, who>>
        /\ at' \in {"prepare", "raised", "distill"}
        /\ at' = "prepare" => at = "begin"
    BY <1>6 DEF RunBegins, RunThrows, DistillFails, RunAnswers, Goto
  <2>2. PICK x \in {who, 0} : \E s \in TaskStatus : Only(x, s) /\ (at' = "prepare" => s \in {"PENDING", "IN_PROGRESS"})
    BY <1>6, <1>t, OnlyMaybe, OnlyAnswers DEF RunBegins, RunThrows, DistillFails, Goto, RunAnswers
  <2>3. PICK s \in TaskStatus : Only(x, s) /\ (at' = "prepare" => s \in {"PENDING", "IN_PROGRESS"})
    BY <2>2
  <2>4. who \in Id /\ ~ IsFlow(who)
    BY <2>1 DEF Inv, PlaceOK, Running
  <2>5. ReadOK'
    BY <1>t, <2>1, <2>3, ReadOn DEF ReadOK
  <2> QED BY <1>t, <2>1, <2>3, <2>4, <2>5 DEF ServedOK, Only, IsFlow, Running
<1> QED BY <1>1, <1>2, <1>3, <1>4, <1>5, <1>6

\* A row is added.
LEMMA RowSteady ==
  ASSUME Inv, Steady, NEW row \in TaskRow, Insert(row), row.status = "PENDING",
         \/ \E kind \in {"flow", "unknown"} : Trigger(kind)
         \/ (ScheduleStarts /\ row.kind # "flow") \/ ScheduleStartFails
         \/ StepStarts \/ StepStartFails \/ ResumeTask
  PROVE  Steady'
<1>1. PICK n : n = Len(tasks) + 1 /\ n \notin Id /\ n # 0
  BY DEF Inv, TypeOK, Id
<1>2. Id' = Id \cup {n} /\ tasks'[n] = row /\ \A t \in Id : tasks'[t] = tasks[t]
  BY <1>1, Inserted DEF Inv
<1> USE DEF Steady
<1>3. \A t \in Id : IsFlow(t)' <=> IsFlow(t)
  BY <1>2 DEF IsFlow
<1>4. ASSUME NEW kind \in {"flow", "unknown"}, Trigger(kind) PROVE Steady'
  <2>1. UNCHANGED <<phase, todo, at, top, who>> /\ top \in Id \cup {0} /\ who \in Id \cup {0}
    BY <1>4 DEF Trigger, scheduler, Inv, TypeOK, Id
  <2>2. ReadOK'
    BY <2>1, ReadOnInserted DEF ReadOK, Inv
  <2>3. at \in {"resolved", "child"} => top \in Id
    BY DEF Inv, PlaceOK
  <2>4. at \in {"child", "begin", "prepare", "loop"} => who \in Id
    BY DEF Inv, PlaceOK, Running
  <2> QED BY <1>1, <1>2, <1>3, <2>1, <2>2, <2>3, <2>4 DEF ServedOK
<1>5. CASE ScheduleStarts /\ row.kind # "flow"
  <2>1. phase' = phase /\ at' = "begin" /\ top' = n /\ who' = n /\ todo' \subseteq todo
    BY <1>1, <1>5 DEF ScheduleStarts
  <2>2. ReadOK'
    BY <1>1, <2>1, ReadOnInserted DEF Inv
  <2> QED BY <1>2, <1>5, <2>1, <2>2 DEF ServedOK, IsFlow
<1>6. CASE ScheduleStartFails
  <2>1. phase' = phase /\ phase = "schedules" /\ at' = "raised" /\ top' = 0
    BY <1>6 DEF ScheduleStartFails, ReadOK
  <2>2. ReadOK'
    BY <2>1 DEF ReadOK
  <2>3. 0 \notin Id'
    BY <1>1, <1>2 DEF Id
  <2> QED BY <2>1, <2>2, <2>3 DEF ServedOK
<1>7. CASE StepStarts \/ StepStartFails
  <2>1. /\ at = "step" /\ at' \in {"begin", "rejected"} /\ UNCHANGED <<phase, todo, top>>
        /\ who' \in {who, n}
        /\ at' = "begin" => who' = n
    BY <1>1, <1>7 DEF StepStarts, StepStartFails, Goto
  <2>2. ReadOK'
    BY <1>1, <2>1, ReadOnInserted DEF Inv
  <2>3. top \in Id /\ IsFlow(top)
    BY <2>1 DEF Inv, PlaceOK
  <2> QED BY <1>1, <1>2, <1>3, <2>1, <2>2, <2>3 DEF ServedOK, Running
<1>8. CASE ResumeTask
  <2>1. /\ at = "resolved" /\ at' = "child" /\ UNCHANGED <<phase, todo, top>> /\ who' = n
    BY <1>1, <1>8 DEF ResumeTask
  <2>2. ReadOK'
    BY <1>1, <2>1, ReadOnInserted DEF Inv
  <2>3. top \in Id
    BY <2>1 DEF Inv, PlaceOK
  <2> QED BY <1>1, <1>2, <2>1, <2>2, <2>3 DEF ServedOK, Running
<1> QED BY <1>4, <1>5, <1>6, <1>7, <1>8

\* The rows that are added.
RowAdded(kind, parent, i) ==
  LET row == Row(kind, parent, i) IN
  /\ row \in TaskRow /\ Insert(row)
  /\ row.kind = kind /\ row.parent = parent /\ row.step = i
  /\ row.status = "PENDING" /\ row.links = {}

LEMMA AddedRow ==
  ASSUME Inv
  PROVE  /\ \A kind \in {"flow", "unknown"} : Trigger(kind) => RowAdded(kind, 0, 0)
         /\ ScheduleStarts => RowAdded("schedule", 0, 0)
         /\ ScheduleStartFails => tasks' = tasks \/ RowAdded("schedule", 0, 0)
         /\ StepStarts => RowAdded("step", top, step)
         /\ StepStartFails => tasks' = tasks \/ RowAdded("step", top, step)
         /\ ResumeTask => RowAdded("resume", top, 0)
<1>1. /\ TypeOK /\ top \in 0 .. Len(tasks) + 1 /\ 0 \in 0 .. Len(tasks) + 1 /\ 0 \in 0 .. Steps
      /\ {"flow", "unknown", "schedule", "step", "resume"} = Kind
      /\ More(step) => step \in 0 .. Steps
  BY StepsAssumption DEF Inv, TypeOK, Kind, More
<1>2. ASSUME NEW kind \in Kind, NEW parent \in 0 .. Len(tasks) + 1, NEW i \in 0 .. Steps,
             Insert(Row(kind, parent, i))
      PROVE  RowAdded(kind, parent, i)
  BY <1>1, <1>2, RowTyped DEF RowAdded
<1>3. \A kind \in {"flow", "unknown"} : Trigger(kind) => RowAdded(kind, 0, 0)
  BY <1>1, <1>2 DEF Trigger
<1>4. /\ ScheduleStarts => RowAdded("schedule", 0, 0)
      /\ ScheduleStartFails => tasks' = tasks \/ RowAdded("schedule", 0, 0)
  BY <1>1, <1>2 DEF ScheduleStarts, ScheduleStartFails
<1>5. /\ StepStarts => RowAdded("step", top, step)
      /\ StepStartFails => tasks' = tasks \/ RowAdded("step", top, step)
      /\ ResumeTask => RowAdded("resume", top, 0)
  BY <1>1, <1>2 DEF StepStarts, StepStartFails, ResumeTask
<1> QED BY <1>3, <1>4, <1>5

LEMMA StepSteady ==
  ASSUME Inv, Steady, [Next]_vars
  PROVE  Steady'
<1>1. ASSUME tasks' = tasks,
             \/ UNCHANGED vars \/ ComesDue \/ \E a \in Action : Resolve(a) \/ Propose(a) \/ Retry(a)
             \/ Crash \/ Tick \/ PhaseOver \/ TickThrows
             \/ ScheduleStartFails \/ ScheduleAdvances \/ TaskResumed
             \/ StepStartFails \/ StepsOverFails \/ StepReturns \/ StepReturnFails \/ StepRaiseFails
             \/ FlowResumes \/ FlowResumeFails \/ RunPrepared \/ RunUnprepared \/ RunReturns
             \/ \E t \in Id : StillWaiting(t) \/ Resolved(t)
      PROVE  Steady'
  BY <1>1, SameSteady
<1>2. ASSUME NEW kind, NEW parent, NEW i, RowAdded(kind, parent, i),
             \/ \E k \in {"flow", "unknown"} : Trigger(k)
             \/ (ScheduleStarts /\ kind # "flow") \/ ScheduleStartFails
             \/ StepStarts \/ StepStartFails \/ ResumeTask
      PROVE  Steady'
  BY <1>2, RowSteady DEF RowAdded
<1>3. CASE UNCHANGED vars
  BY <1>1, <1>3 DEF vars
<1>4. CASE Environment
  <2>1. ASSUME NEW kind \in {"flow", "unknown"}, Trigger(kind) PROVE Steady'
    BY <1>2, <2>1, AddedRow
  <2>2. CASE ComesDue \/ \E a \in Action : Resolve(a) \/ Propose(a) \/ Retry(a)
    <3>1. tasks' = tasks
      BY <2>2 DEF ComesDue, Resolve, Propose, Retry
    <3> QED BY <1>1, <2>2, <3>1
  <2>3. CASE Crash
    BY <1>1, <2>3 DEF Crash, Stop
  <2> QED BY <1>4, <2>1, <2>2, <2>3 DEF Environment
<1>5. CASE Tick \/ PhaseOver \/ TickThrows \/ RunReturns
  <2>1. tasks' = tasks
    BY <1>5 DEF Tick, PhaseOver, TickThrows, Stop, RunReturns
  <2> QED BY <1>1, <1>5, <2>1
<1>6. CASE Run
  <2>1. CASE RunPrepared \/ RunUnprepared
    BY <1>1, <2>1 DEF RunPrepared, RunUnprepared
  <2>2. CASE RunBegins \/ RunThrows \/ DistillFails \/ RunAnswers
    BY <2>2, StatusSteady
  <2> QED BY <1>6, <2>1, <2>2 DEF Run
<1>7. CASE ScheduleStarts
  BY <1>2, <1>7, AddedRow
<1>8. CASE ScheduleStartFails \/ StepStartFails
  BY <1>1, <1>2, <1>8, AddedRow
<1>9. CASE StepStarts \/ ResumeTask
  BY <1>2, <1>9, AddedRow
<1>10. CASE StepsOver \/ StepPauses \/ StepRaises \/ Revert \/ ResumeFlow
            \/ OriginalDone \/ OriginalDoneOnly \/ \E t \in Id : FlowUnknown(t) \/ FlowStarts(t)
  BY <1>10, StatusSteady
<1>11. CASE ScheduleAdvances \/ TaskResumed \/ StepsOverFails \/ StepReturns \/ StepReturnFails
            \/ StepRaiseFails \/ FlowResumes \/ FlowResumeFails
            \/ \E t \in Id : StillWaiting(t) \/ Resolved(t)
  <2>1. tasks' = tasks
    BY <1>11 DEF ScheduleAdvances, TaskResumed, StepsOverFails, StepReturns, StepReturnFails,
       StepRaiseFails, FlowResumes, FlowResumeFails, StillWaiting, Resolved
  <2> QED BY <1>1, <1>11, <2>1
<1> QED
  BY <1>3, <1>4, <1>5, <1>6, <1>7, <1>8, <1>9, <1>10, <1>11 DEF Next, Scheduling, Serve

(***************************************************************************)
(* What a step does to the table: it adds a row that is to be done, or it   *)
(* gives a row a status.                                                    *)
(***************************************************************************)
\* What a row stands for, and what is above it.
Kinds ==
  \A t \in Id :
    /\ tasks[t].parent \in Id \cup {0}
    /\ tasks[t].kind \in {"flow", "unknown", "schedule"} <=> tasks[t].parent = 0
    /\ tasks[t].kind = "unknown" => tasks[t].status \in {"PENDING", "FAILED"}
    /\ tasks[t].kind = "step" => tasks[t].parent \in Id /\ IsFlow(tasks[t].parent)
    /\ tasks[t].kind = "resume" =>
         tasks[t].parent \in Id /\ tasks[tasks[t].parent].kind = "schedule"

RunsFor == at \in Running \cup {"child"} => tasks[who].kind \in {"schedule", "step", "resume"}

\* The row that gets a status has not come to an end, unless the end of its run fails; it
\* goes on from a review only when it is served for that; and a workflow only waits, ends
\* or is put back where the executor or the scheduler says so.
Touches(x, s) ==
  /\ Only(x, s)
  /\ x \in Id =>
       /\ tasks[x].status \notin {"COMPLETED", "FAILED"} \/ (DbFails /\ s = "FAILED")
       /\ tasks[x].status = "AWAITING_APPROVAL" /\ s \in {"IN_PROGRESS", "COMPLETED"} =>
            x = top /\ at \in {"resolved", "child"}
       /\ tasks[x].kind = "unknown" => s = "FAILED"
       /\ IsFlow(x) =>
            /\ s = "PENDING" => at = "rejected"
            /\ s = "AWAITING_APPROVAL" => x = top /\ at \in {"returned", "rejected"}
            /\ s = "COMPLETED" => x = top /\ at = "step" /\ ~ More(step)

Joins(kind, parent, i) ==
  /\ RowAdded(kind, parent, i)
  /\ \/ kind \in {"flow", "unknown", "schedule"} /\ parent = 0
     \/ kind = "step" /\ parent = top /\ at = "step" /\ i = step
     \/ kind = "resume" /\ parent = top /\ at = "resolved" /\ ~ IsFlow(top)

Touched ==
  \/ \E x : \E s \in TaskStatus : Touches(x, s)
  \/ \E kind, parent, i : Joins(kind, parent, i)

LEMMA StepTouches ==
  ASSUME Inv, Steady, Kinds, RunsFor, [Next]_vars
  PROVE  Touched
<1> USE DEF Steady
<1>t. /\ TypeOK /\ 0 \notin Id
      /\ {"PENDING", "IN_PROGRESS", "AWAITING_APPROVAL", "COMPLETED", "FAILED"} = TaskStatus
  BY DEF Inv, TypeOK, Id, TaskStatus
<1>1. ASSUME tasks' = tasks PROVE Touched
  <2>1. Touches(0, "PENDING")
    BY <1>1, <1>t, OnlySame DEF Touches
  <2> QED BY <1>t, <2>1 DEF Touched
<1>2. ASSUME NEW s \in TaskStatus, Only(who, s) \/ Only(0, "PENDING"), who \in Id, ~ IsFlow(who),
             tasks[who].kind # "unknown", tasks[who].status \in {"PENDING", "IN_PROGRESS"}
      PROVE  Touched
  <2>1. Touches(who, s) \/ Touches(0, "PENDING")
    BY <1>2, <1>t DEF Touches
  <2> QED BY <1>t, <2>1 DEF Touched
<1>3. ASSUME at \in Running PROVE who \in Id /\ ~ IsFlow(who) /\ tasks[who].kind # "unknown"
  BY <1>3 DEF Inv, PlaceOK, RunsFor
<1>4. CASE UNCHANGED vars
  BY <1>1, <1>4 DEF vars
<1>5. CASE Environment
  <2>1. ASSUME NEW kind \in {"flow", "unknown"}, Trigger(kind) PROVE Touched
    <3>1. Joins(kind, 0, 0)
      BY <2>1, AddedRow DEF Joins
    <3> QED BY <3>1 DEF Touched
  <2> QED BY <1>1, <1>5, <2>1 DEF Environment, ComesDue, Resolve, Retry, Propose, Crash, Stop
<1>6. CASE Tick \/ PhaseOver \/ TickThrows \/ RunReturns
  BY <1>1, <1>6 DEF Tick, PhaseOver, TickThrows, Stop, RunReturns
<1>7. CASE Run
  <2>1. CASE RunPrepared \/ RunUnprepared
    BY <1>1, <2>1 DEF RunPrepared, RunUnprepared
  <2>2. CASE RunBegins \/ RunThrows \/ RunAnswers
    <3>1. at \in Running /\ tasks[who].status \in {"PENDING", "IN_PROGRESS"}
      BY <2>2 DEF RunBegins, RunThrows, RunAnswers, ServedOK, Running
    <3>2. \E s \in TaskStatus : Only(who, s) \/ Only(0, "PENDING")
      BY <1>t, <2>2, OnlyMaybe, OnlyAnswers DEF RunBegins, RunThrows
    <3> QED BY <1>2, <1>3, <3>1, <3>2
  <2>3. CASE DistillFails
    <3>1. Only(who, "FAILED") \/ Only(0, "PENDING")
      BY <1>t, <2>3, OnlyMaybe DEF DistillFails
    <3>2. Touches(who, "FAILED") \/ Touches(0, "PENDING")
      BY <1>t, <2>3, <3>1 DEF DistillFails, Touches
    <3> QED BY <1>t, <3>2 DEF Touched
  <2> QED BY <1>7, <2>1, <2>2, <2>3 DEF Run
<1>8. CASE ScheduleStarts \/ ScheduleStartFails \/ StepStarts \/ StepStartFails \/ ResumeTask
  <2>1. \/ tasks' = tasks
        \/ Joins("schedule", 0, 0) \/ Joins("step", top, step) \/ Joins("resume", top, 0)
    BY <1>8, AddedRow DEF ScheduleStarts, ScheduleStartFails, StepStarts, StepStartFails,
       ResumeTask, Joins
  <2> QED BY <1>1, <2>1 DEF Touched
<1>9. CASE StepsOver \/ StepPauses \/ StepRaises \/ Revert
  <2>1. top \in Id /\ IsFlow(top) /\ tasks[top].status = "IN_PROGRESS" /\ tasks[top].kind = "flow"
    BY <1>9 DEF StepsOver, StepPauses, StepRaises, Revert, Inv, PlaceOK, TypeOK, Id, ServedOK,
       IsFlow
  <2>2. PICK s \in TaskStatus :
          /\ SetStatus(top, s) /\ s # "IN_PROGRESS"
          /\ s = "PENDING" => at = "rejected"
          /\ s = "AWAITING_APPROVAL" => at \in {"returned", "rejected"}
          /\ s = "COMPLETED" => at = "step" /\ ~ More(step)
    BY <1>t, <1>9 DEF StepsOver, StepPauses, StepRaises, Revert
  <2>3. Touches(top, s)
    BY <1>t, <2>1, <2>2, OnlySet DEF Touches
  <2> QED BY <1>t, <2>3 DEF Touched
<1>10. CASE ResumeFlow \/ OriginalDone \/ OriginalDoneOnly
  <2>1. /\ at \in {"resolved", "child"} /\ top \in Id
        /\ tasks[top].status = "AWAITING_APPROVAL" /\ tasks[top].kind # "unknown"
    BY <1>10 DEF ResumeFlow, OriginalDone, OriginalDoneOnly, ServedOK, Inv, PlaceOK, Kinds
  <2>2. PICK s \in {"IN_PROGRESS", "COMPLETED"} :
          SetStatus(top, s) /\ (s = "COMPLETED" => ~ IsFlow(top))
    BY <1>10 DEF ResumeFlow, OriginalDone, OriginalDoneOnly, AfterResume, Inv, PlaceOK
  <2>3. Touches(top, s)
    BY <1>t, <2>1, <2>2, OnlySet DEF Touches
  <2> QED BY <1>t, <2>3 DEF Touched
<1>11. ASSUME NEW t \in Id, FlowUnknown(t) \/ FlowStarts(t) PROVE Touched
  <2>1. tasks[t].status = "PENDING" /\ tasks[t].kind \in {"flow", "unknown"}
    BY <1>11 DEF FlowUnknown, FlowStarts, Take, ReadOK
  <2>2. PICK s \in {"IN_PROGRESS", "FAILED"} : SetStatus(t, s) /\ (IsFlow(t) <=> s = "IN_PROGRESS")
    BY <1>t, <1>11 DEF FlowUnknown, FlowStarts
  <2>3. Touches(t, s)
    BY <1>t, <2>1, <2>2, OnlySet DEF Touches, IsFlow
  <2> QED BY <1>t, <2>3 DEF Touched
<1>12. CASE ScheduleAdvances \/ TaskResumed \/ StepsOverFails \/ StepReturns \/ StepReturnFails
            \/ StepRaiseFails \/ FlowResumes \/ FlowResumeFails
            \/ \E t \in Id : StillWaiting(t) \/ Resolved(t)
  BY <1>1, <1>12 DEF ScheduleAdvances, TaskResumed, StepsOverFails, StepReturns, StepReturnFails,
     StepRaiseFails, FlowResumes, FlowResumeFails, Goto, StillWaiting, Resolved
<1> QED
  BY <1>4, <1>5, <1>6, <1>7, <1>8, <1>9, <1>10, <1>11, <1>12 DEF Next, Scheduling, Serve

\* The agent goes on with the row it runs for, or begins with the one just added.
LEMMA StepRuns ==
  ASSUME Inv, [Next]_vars, at' \in Running \cup {"child"}
  PROVE  \/ who' = who /\ at \in Running \cup {"child"}
         \/ /\ who' = Len(tasks) + 1
            /\ \E kind \in {"schedule", "step", "resume"} : \E p, i : RowAdded(kind, p, i)
<1>1. CASE UNCHANGED vars
  BY <1>1 DEF vars, scheduler
<1>2. CASE Environment
  BY <1>2 DEF Environment, Trigger, ComesDue, Resolve, Retry, Propose, Crash, Stop, scheduler,
     Running
<1>3. CASE Tick \/ PhaseOver \/ TickThrows \/ RunReturns
  BY <1>3 DEF Tick, PhaseOver, TickThrows, Stop, RunReturns, Running
<1>4. CASE Run
  BY <1>4 DEF Run, RunBegins, RunPrepared, RunUnprepared, RunThrows, RunAnswers, DistillFails,
     Goto, Running
<1>5. CASE ScheduleStarts \/ StepStarts \/ ResumeTask
  BY <1>5, AddedRow DEF ScheduleStarts, StepStarts, ResumeTask
<1>6. CASE ScheduleStartFails \/ StepStartFails \/ ScheduleAdvances \/ StepsOver \/ StepsOverFails
           \/ StepPauses \/ StepReturns \/ StepReturnFails \/ StepRaises \/ StepRaiseFails
           \/ Revert \/ ResumeFlow \/ FlowResumes \/ FlowResumeFails \/ OriginalDoneOnly
           \/ TaskResumed
  BY <1>6 DEF ScheduleStartFails, StepStartFails, ScheduleAdvances, StepsOver, StepsOverFails,
     StepPauses, StepReturns, StepReturnFails, StepRaises, StepRaiseFails, Revert, ResumeFlow,
     FlowResumes, FlowResumeFails, OriginalDoneOnly, TaskResumed, Goto, Served, Running
<1>7. CASE OriginalDone
  BY <1>7 DEF OriginalDone, Goto
<1>8. ASSUME NEW t \in Id, FlowUnknown(t) \/ FlowStarts(t) \/ StillWaiting(t) \/ Resolved(t)
      PROVE  at' \notin Running \cup {"child"}
  BY <1>8 DEF FlowUnknown, FlowStarts, StillWaiting, Resolved, Take, Running
<1> QED
  BY <1>1, <1>2, <1>3, <1>4, <1>5, <1>6, <1>7, <1>8 DEF Next, Scheduling, Serve

LEMMA StepKinds ==
  ASSUME Inv, Steady, Kinds, RunsFor, [Next]_vars
  PROVE  Kinds' /\ RunsFor'
<1>1. PICK n : n = Len(tasks) + 1 /\ n \notin Id /\ n # 0
  BY DEF Inv, TypeOK, Id
<1>2. ASSUME NEW x, NEW s, Touches(x, s)
      PROVE  Kinds' /\ Id' = Id /\ \A t \in Id : tasks'[t].kind = tasks[t].kind
  BY <1>2 DEF Touches, Only, Kinds, IsFlow
<1>3. ASSUME NEW kind, NEW parent, NEW i, Joins(kind, parent, i)
      PROVE  /\ Kinds' /\ Id' = Id \cup {n}
             /\ \A t \in Id : tasks'[t].kind = tasks[t].kind
             /\ tasks'[n].kind = kind
  <2>1. /\ Id' = Id \cup {n} /\ tasks'[n].kind = kind /\ tasks'[n].parent = parent
        /\ tasks'[n].status = "PENDING" /\ \A t \in Id : tasks'[t] = tasks[t]
    BY <1>1, <1>3, Inserted DEF Inv, Joins, RowAdded
  <2>2. kind = "step" => parent \in Id /\ IsFlow(parent) /\ parent # 0
    BY <1>1, <1>3 DEF Joins, Inv, PlaceOK, Id
  <2>3. kind = "resume" => parent \in Id /\ tasks[parent].kind = "schedule" /\ parent # 0
    <3>1. CASE kind = "resume"
      <4>1. /\ parent = top /\ top \in Id /\ ~ IsFlow(top) /\ top # 0
            /\ tasks[top].status = "AWAITING_APPROVAL" /\ tasks[top].parent = 0
        BY <1>3, <3>1 DEF Joins, Inv, PlaceOK, Steady, ServedOK, Id
      <4> QED BY <4>1 DEF Kinds, IsFlow
    <3> QED BY <3>1
  <2>4. kind \in {"flow", "unknown", "schedule", "step", "resume"}
        /\ (kind \in {"flow", "unknown", "schedule"} => parent = 0)
    BY <1>3 DEF Joins
  <2>5. parent \in Id => tasks'[parent] = tasks[parent]
    BY <2>1
  <2>6. ASSUME NEW t \in Id
        PROVE  /\ tasks'[t].parent \in Id' \cup {0}
               /\ tasks'[t].kind \in {"flow", "unknown", "schedule"} <=> tasks'[t].parent = 0
               /\ tasks'[t].kind = "unknown" => tasks'[t].status \in {"PENDING", "FAILED"}
               /\ tasks'[t].kind = "step" =>
                    tasks'[t].parent \in Id' /\ tasks'[tasks'[t].parent].kind = "flow"
               /\ tasks'[t].kind = "resume" =>
                    tasks'[t].parent \in Id' /\ tasks'[tasks'[t].parent].kind = "schedule"
    <3>1. tasks'[t] = tasks[t] /\ \A p \in Id : tasks'[p] = tasks[p] /\ p \in Id'
      BY <2>1
    <3> QED BY <3>1 DEF Kinds, IsFlow
  <2> QED BY <2>1, <2>2, <2>3, <2>4, <2>5, <2>6 DEF Kinds, IsFlow
<1>4. Kinds'
  BY <1>2, <1>3, StepTouches DEF Touched
<1>5. CASE at' \in Running \cup {"child"}
  <2>1. CASE who' = who /\ at \in Running \cup {"child"}
    <3>1. who \in Id
      BY <2>1 DEF Inv, PlaceOK
    <3> QED BY <1>2, <1>3, <1>4, <2>1, <3>1, StepTouches DEF RunsFor, Touched
  <2>2. ASSUME who' = n, NEW kind \in {"schedule", "step", "resume"}, NEW p, NEW i,
               RowAdded(kind, p, i)
        PROVE  RunsFor'
    <3>1. tasks'[n].kind = kind
      BY <1>1, <2>2, Inserted DEF RowAdded, Inv
    <3> QED BY <2>2, <3>1 DEF RunsFor
  <2> QED BY <1>1, <1>4, <1>5, <2>1, <2>2, StepRuns
<1> QED BY <1>4, <1>5 DEF RunsFor

LEMMA InitKinds == Init => Kinds /\ RunsFor
BY DEF Init, Kinds, RunsFor, Running, Id

LEMMA InitSteady == Init => Steady
BY DEF Init, Steady, ReadOK, ServedOK, Running

Whole == Inv /\ Steady /\ Kinds /\ RunsFor

LEMMA StepWhole == Whole /\ [Next]_vars => Whole'
BY StepInv, StepSteady, StepKinds DEF Whole

LEMMA InitWhole == Init => Whole
BY InitInv, InitSteady, InitKinds DEF Whole

\* Rows that have come to an end stay as they are.
FinalStay ==
  \A t \in Id : tasks[t].status \in {"COMPLETED", "FAILED"} => tasks'[t] = tasks[t]

LEMMA StepFinal ==
  ASSUME Inv, Steady, Kinds, RunsFor, [Next]_vars, "db" \notin Faults
  PROVE  FinalStay
<1>1. ASSUME NEW x, NEW s, Touches(x, s) PROVE FinalStay
  BY <1>1 DEF Touches, Only, FinalStay, DbFails
<1>2. ASSUME NEW kind, NEW parent, NEW i, Joins(kind, parent, i) PROVE FinalStay
  BY <1>2, Inserted DEF FinalStay, Inv, Joins, RowAdded
<1> QED BY <1>1, <1>2, StepTouches DEF Touched

\* "Prevents re-pickup" (scheduler.service.ts): a row that is being served is not served
\* again, and a run that has ended is not started again, wherever agents fail and a tick is
\* cut off, as long as the queries of the gateway succeed (the run that marks a finished
\* task FAILED needs one that does not).
THEOREM EndsStand == ASSUME "db" \notin Faults PROVE Spec => FinalIsFinal
<1>1. Whole /\ [Next]_vars => FinalStay
  BY StepFinal DEF Whole
<1>2. Whole /\ [Next]_vars => Whole'
  BY StepWhole
<1>3. FinalStay => [\A t \in Id :
        tasks[t].status \in {"COMPLETED", "FAILED"} => tasks'[t] = tasks[t]]_vars
  BY DEF FinalStay
<1> QED BY <1>1, <1>2, <1>3, InitWhole, PTL DEF Spec, FinalIsFinal

(***************************************************************************)
(* The row that is taken back up has no proposal that is still open.        *)
(***************************************************************************)
StillResolved == at \in {"resolved", "child"} => LinksOf(top) \cap open = {}

LEMMA StepResolved ==
  ASSUME Inv, Steady, StillResolved, [Next]_vars, "retry" \notin Requests
  PROVE  StillResolved'
<1>1. ASSUME tasks' = tasks, top' = top, at \in {"resolved", "child"}, open' \subseteq open
      PROVE  StillResolved'
  BY <1>1 DEF StillResolved, LinksOf, IsFlow, Children, Id
<1>2. ASSUME NEW t \in Id, Resolved(t) PROVE StillResolved'
  BY <1>2 DEF Resolved, AllResolved, StillResolved, LinksOf, IsFlow, Children, Id, actions
<1>3. ASSUME NEW kind, NEW parent, NEW i, RowAdded(kind, parent, i), top' = top, open' = open,
             at \in {"resolved", "child"}, parent = 0 \/ ~ IsFlow(top)
      PROVE  StillResolved'
  <2>1. PICK n : n = Len(tasks) + 1 /\ n \notin Id /\ n # 0
    BY DEF Inv, TypeOK, Id
  <2>2. Id' = Id \cup {n} /\ tasks'[n].parent = parent /\ \A t \in Id : tasks'[t] = tasks[t]
    BY <1>3, <2>1, Inserted DEF RowAdded, Inv
  <2>3. top \in Id /\ top # 0
    BY <1>3, <2>1 DEF Inv, PlaceOK, TypeOK, Id
  <2>4. IsFlow(top)' <=> IsFlow(top)
    BY <1>3, <2>2, <2>3 DEF IsFlow
  <2>5. CASE ~ IsFlow(top)
    BY <1>3, <2>2, <2>3, <2>4, <2>5 DEF StillResolved, LinksOf
  <2>6. CASE IsFlow(top) /\ parent = 0
    <3>1. Children(top)' = Children(top)
      BY <1>3, <2>2, <2>3, <2>6 DEF Children
    <3>2. \A c \in Children(top) : tasks'[c] = tasks[c]
      BY <2>2 DEF Children
    <3>3. LinksOf(top)' = LinksOf(top)
      BY <1>3, <2>4, <2>6, <3>1, <3>2 DEF LinksOf
    <3> QED BY <1>3, <3>3 DEF StillResolved
  <2> QED BY <1>3, <2>5, <2>6
<1>4. ASSUME at' \notin {"resolved", "child"} PROVE StillResolved'
  BY <1>4 DEF StillResolved
<1>5. ASSUME UNCHANGED <<tasks, top, at, open>> PROVE StillResolved'
  BY <1>1, <1>4, <1>5
<1>6. CASE UNCHANGED vars
  BY <1>5, <1>6 DEF vars, scheduler, actions
<1>7. CASE Environment
  <2>1. ASSUME NEW kind \in {"flow", "unknown"}, Trigger(kind) PROVE StillResolved'
    <3>1. UNCHANGED <<top, at, open>>
      BY <2>1 DEF Trigger, scheduler, actions
    <3> QED BY <1>3, <1>4, <2>1, <3>1, AddedRow
  <2>2. CASE \E a \in Action : Resolve(a)
    BY <1>1, <1>4, <2>2 DEF Resolve, scheduler
  <2>3. CASE \E a \in Action : Propose(a)
    BY <1>4, <2>3 DEF Propose
  <2> QED BY <1>5, <1>4, <1>7, <2>1, <2>2, <2>3
      DEF Environment, ComesDue, Retry, Ask, Crash, Stop, scheduler, actions
<1>8. CASE Tick \/ PhaseOver
  BY <1>5, <1>8 DEF Tick, PhaseOver, actions
<1>9. CASE TickThrows \/ RunReturns
  BY <1>4, <1>9 DEF TickThrows, Stop, RunReturns
<1>10. CASE Run
  BY <1>4, <1>10 DEF Run, RunBegins, RunPrepared, RunUnprepared, RunThrows, RunAnswers,
     DistillFails, Goto
<1>11. CASE ResumeTask
  BY <1>3, <1>11, AddedRow DEF ResumeTask, actions
<1>12. CASE ScheduleStarts \/ ScheduleStartFails \/ StepStarts \/ StepStartFails \/ ScheduleAdvances
            \/ StepsOver \/ StepPauses \/ StepRaises \/ Revert \/ ResumeFlow
            \/ OriginalDone \/ OriginalDoneOnly \/ TaskResumed \/ StepsOverFails \/ StepReturns
            \/ StepReturnFails \/ StepRaiseFails \/ FlowResumes \/ FlowResumeFails
  BY <1>4, <1>12 DEF ScheduleStarts, ScheduleStartFails, StepStarts, StepStartFails,
     ScheduleAdvances, StepsOver, StepPauses, StepRaises, Revert, ResumeFlow, OriginalDone,
     OriginalDoneOnly, TaskResumed, StepsOverFails, StepReturns, StepReturnFails, StepRaiseFails,
     FlowResumes, FlowResumeFails, Goto, Served
<1>13. ASSUME NEW t \in Id, FlowUnknown(t) \/ FlowStarts(t) \/ StillWaiting(t) PROVE StillResolved'
  BY <1>4, <1>13 DEF FlowUnknown, FlowStarts, StillWaiting, Take
<1> QED
  BY <1>2, <1>6, <1>7, <1>8, <1>9, <1>10, <1>11, <1>12, <1>13 DEF Next, Scheduling, Serve

LEMMA InitResolved == Init => StillResolved
BY DEF Init, StillResolved

ResolvedFirst ==
  \A t \in Id :
    /\ tasks[t].status = "AWAITING_APPROVAL" /\ tasks[t].parent = 0
    /\ tasks'[t].status \in {"IN_PROGRESS", "COMPLETED"}
    => LinksOf(t) \cap open = {}

LEMMA StepResolvedFirst ==
  ASSUME Whole, StillResolved, [Next]_vars
  PROVE  ResolvedFirst
<1>1. ASSUME NEW x, NEW s, Touches(x, s) PROVE ResolvedFirst
  BY <1>1 DEF Touches, Only, ResolvedFirst, StillResolved
<1>2. ASSUME NEW kind, NEW parent, NEW i, Joins(kind, parent, i) PROVE ResolvedFirst
  BY <1>2, Inserted DEF ResolvedFirst, Whole, Inv, Joins, RowAdded
<1> QED BY <1>1, <1>2, StepTouches DEF Whole, Touched

\* A task that waits for its proposals is taken up again only when every one of them has
\* been reviewed, those made while the scheduler was serving others included, whatever
\* queries and agents fail, as long as nobody puts an action to review again
\* (processAwaitingApprovalTasks, allProposalsResolved).
THEOREM ReviewedBefore == ASSUME "retry" \notin Requests PROVE Spec => ResumedWhenResolved
<1>1. Whole /\ StillResolved /\ [Next]_vars => ResolvedFirst
  BY StepResolvedFirst
<1>2. Whole /\ StillResolved /\ [Next]_vars => Whole' /\ StillResolved'
  BY StepWhole, StepResolved DEF Whole
<1>3. ResolvedFirst => [\A t \in Id :
       /\ tasks[t].status = "AWAITING_APPROVAL" /\ tasks[t].parent = 0
       /\ tasks'[t].status \in {"IN_PROGRESS", "COMPLETED"}
       => LinksOf(t) \cap open = {}]_vars
  BY DEF ResolvedFirst
<1> QED BY <1>1, <1>2, <1>3, InitWhole, InitResolved, PTL DEF Spec, ResumedWhenResolved

-----------------------------------------------------------------------------
(***************************************************************************)
(* The steps the agent has run for a workflow.  The rows of a workflow run  *)
(* up to a step without a gap, so whoever finds the highest of them knows   *)
(* where to go on.                                                          *)
(***************************************************************************)
Taken(t, i) == \E d \in Children(t) \cap ran : tasks[d].step = i
Filled(t) == \A c \in Children(t) : \A i \in 1 .. tasks[c].step : Taken(t, i)
NoneBeyond(t, i) == \A c \in Children(t) : tasks[c].step <= i

\* A workflow that is not being served, or has not begun.
FlowTaken(t) ==
  /\ tasks[t].status = "PENDING" => Children(t) = {}
  /\ tasks[t].status = "AWAITING_APPROVAL" => Filled(t)
  /\ tasks[t].status = "COMPLETED" => \A i \in 1 .. Steps : Taken(t, i)

FlowsTaken == \A t \in Id : IsFlow(t) => FlowTaken(t)

\* The one that is.
UpTo(t, n) == NoneBeyond(t, n) /\ \A i \in 1 .. n - 1 : Taken(t, i)

PlaceTaken ==
  /\ at # "rejected"
  /\ at = "resume" => Filled(top)
  /\ at = "step" => NoneBeyond(top, step - 1) /\ \A i \in 1 .. step - 1 : Taken(top, i)
  /\ at \in Running \cup {"returned"} /\ top \in Id /\ IsFlow(top) => UpTo(top, step)
  /\ at = "returned" /\ top \in Id /\ IsFlow(top) => who \in ran

\* What a workflow has stays with it, and no row is added to it.
Carries(t) ==
  /\ Children(t)' = Children(t)
  /\ \A c \in Children(t) : tasks'[c].step = tasks[c].step
  /\ \A i : Taken(t, i) => Taken(t, i)'

LEMMA CarriesOn ==
  ASSUME NEW t, Carries(t)
  PROVE  /\ Filled(t) => Filled(t)'
         /\ \A n : NoneBeyond(t, n) => \A c \in Children(t)' : tasks'[c].step <= n
         /\ \A n : UpTo(t, n) => \A i \in 1 .. n - 1 : Taken(t, i)'
BY DEF Carries, Filled, NoneBeyond, UpTo

LEMMA TouchCarries ==
  ASSUME ran \subseteq ran', NEW x, NEW s, Only(x, s), NEW t
  PROVE  Carries(t)
<1>1. \A c \in Id : tasks'[c].parent = tasks[c].parent /\ tasks'[c].step = tasks[c].step
  BY DEF Only
<1>2. Children(t)' = Children(t)
  BY <1>1 DEF Only, Children
<1>3. \A c \in Children(t) : c \in Id
  BY DEF Children
<1> QED BY <1>1, <1>2, <1>3 DEF Carries, Taken

LEMMA JoinCarries ==
  ASSUME Whole, ran \subseteq ran', NEW kind, NEW parent, NEW i, RowAdded(kind, parent, i),
         NEW n, n = Len(tasks) + 1
  PROVE  /\ n \notin Id /\ n # 0 /\ Id' = Id \cup {n}
         /\ tasks'[n].kind = kind /\ tasks'[n].parent = parent /\ tasks'[n].step = i
         /\ tasks'[n].status = "PENDING"
         /\ \A t \in Id : tasks'[t] = tasks[t]
         /\ Children(n) = {}
         /\ \A t : t # parent => Carries(t)
         /\ Children(parent)' = Children(parent) \cup {n}
         /\ \A k : Taken(parent, k) => Taken(parent, k)'
<1>1. /\ n \notin Id /\ n # 0 /\ Id' = Id \cup {n}
      /\ tasks'[n].kind = kind /\ tasks'[n].parent = parent /\ tasks'[n].step = i
      /\ tasks'[n].status = "PENDING"
      /\ \A t \in Id : tasks'[t] = tasks[t]
  BY Inserted DEF RowAdded, Whole, Inv, TypeOK, Id
<1>2. Children(n) = {}
  BY <1>1 DEF Whole, Kinds, Children
<1>3. \A t : t # parent => Children(t)' = Children(t)
  BY <1>1 DEF Children
<1>4. Children(parent)' = Children(parent) \cup {n}
  BY <1>1 DEF Children
<1>5. \A t : \A c \in Children(t) : c \in Id /\ tasks'[c] = tasks[c]
  BY <1>1 DEF Children
<1>6. \A k : Taken(parent, k) => Taken(parent, k)'
  BY <1>4, <1>5 DEF Taken
<1>7. \A t : t # parent => Carries(t)
  BY <1>3, <1>5 DEF Carries, Taken
<1> QED BY <1>1, <1>2, <1>4, <1>6, <1>7

\* The step that is over is the last of those that have been run.
LEMMA StepOver ==
  ASSUME Whole, PlaceTaken, at = "returned", top \in Id, IsFlow(top)
  PROVE  /\ step \in Nat
         /\ \A c \in Children(top) : tasks[c].step \in Nat /\ tasks[c].step <= step
         /\ \A i \in 1 .. step : Taken(top, i)
         /\ Filled(top)
<1>1. /\ UpTo(top, step) /\ who \in ran /\ who \in Children(top) /\ tasks[who].step = step
      /\ step \in Nat
  BY DEF PlaceTaken, Whole, Inv, FlowOK, TypeOK
<1>2. \A c \in Children(top) : tasks[c].step \in Nat /\ tasks[c].step <= step
  <2>1. \A c \in Id : tasks[c] \in TaskRow
    BY DEF Whole, Inv, TypeOK, Id
  <2> QED BY <1>1, <2>1, StepsAssumption DEF UpTo, NoneBeyond, TaskRow, Children
<1>3. Taken(top, step)
  BY <1>1 DEF Taken
<1>4. ASSUME NEW i \in 1 .. step PROVE Taken(top, i)
  <2>1. i = step \/ i \in 1 .. step - 1
    BY <1>1
  <2> QED BY <1>1, <1>3, <2>1 DEF UpTo
<1>5. Filled(top)
  <2>1. \A c \in Children(top) : \A i \in 1 .. tasks[c].step : i \in 1 .. step
    BY <1>1, <1>2
  <2> QED BY <1>4, <2>1 DEF Filled
<1> QED BY <1>1, <1>2, <1>4, <1>5

LEMMA FlowsStay ==
  ASSUME Whole, FlowsTaken, PlaceTaken, ran \subseteq ran', Touched
  PROVE  FlowsTaken'
<1>1. ASSUME NEW x, NEW s, Touches(x, s) PROVE FlowsTaken'
  <2> SUFFICES ASSUME NEW t \in Id, IsFlow(t) PROVE FlowTaken(t)'
    BY <1>1 DEF Touches, Only, FlowsTaken, IsFlow
  <2>1. Carries(t) /\ FlowTaken(t)
    BY <1>1, TouchCarries DEF Touches, FlowsTaken
  <2>2. Filled(t) => Filled(t)'
    BY <2>1, CarriesOn
  <2>3. CASE t # x
    <3>1. tasks'[t].status = tasks[t].status
      BY <1>1, <2>3 DEF Touches, Only
    <3> QED BY <2>1, <2>2, <3>1 DEF FlowTaken, Carries
  <2>4. CASE t = x
    <3>1. /\ tasks'[t].status = s /\ s # "PENDING"
          /\ s = "AWAITING_APPROVAL" => t = top /\ at = "returned"
          /\ s = "COMPLETED" => t = top /\ at = "step" /\ ~ More(step)
      BY <1>1, <2>4 DEF Touches, Only, PlaceTaken
    <3>2. s = "AWAITING_APPROVAL" => Filled(t)
      BY <3>1, StepOver
    <3>3. ASSUME s = "COMPLETED", NEW i \in 1 .. Steps PROVE Taken(t, i)
      <4>1. i \in 1 .. step - 1
        BY <3>1, <3>3, StepsAssumption DEF More, Whole, Inv, TypeOK
      <4> QED BY <3>1, <3>3, <4>1 DEF PlaceTaken
    <3> QED BY <2>1, <2>2, <3>1, <3>2, <3>3 DEF FlowTaken, Carries
  <2> QED BY <2>3, <2>4
<1>2. ASSUME NEW kind, NEW parent, NEW i, Joins(kind, parent, i) PROVE FlowsTaken'
  <2>1. PICK n : n = Len(tasks) + 1
    OBVIOUS
  <2>2. /\ n \notin Id /\ n # 0 /\ Id' = Id \cup {n}
        /\ tasks'[n].kind = kind /\ tasks'[n].status = "PENDING"
        /\ \A t \in Id : tasks'[t] = tasks[t]
        /\ Children(n) = {}
        /\ \A t : t # parent => Carries(t)
    BY <1>2, <2>1, JoinCarries DEF Joins
  <2>3. ASSUME NEW t \in Id, IsFlow(t) PROVE FlowTaken(t)'
    <3>1. tasks'[t] = tasks[t] /\ FlowTaken(t) /\ t # 0
      BY <2>2, <2>3 DEF FlowsTaken, Whole, Inv, TypeOK, Id
    <3>2. CASE t # parent
      <4>1. Carries(t) /\ (Filled(t) => Filled(t)')
        BY <2>2, <3>2, CarriesOn
      <4> QED BY <3>1, <4>1 DEF FlowTaken, Carries
    <3>3. CASE t = parent
      <4>1. t = top /\ at = "step"
        BY <1>2, <2>3, <3>1, <3>3 DEF Joins
      <4>2. tasks'[t].status = "IN_PROGRESS"
        BY <2>3, <3>1, <4>1 DEF Whole, Steady, ServedOK
      <4> QED BY <4>2 DEF FlowTaken
    <3> QED BY <3>2, <3>3
  <2>4. kind = "flow" => FlowTaken(n)'
    <3>1. kind = "flow" => n # parent
      BY <1>2, <2>2 DEF Joins
    <3>2. kind = "flow" => Children(n)' = {}
      BY <2>2, <3>1 DEF Carries
    <3> QED BY <2>2, <3>2 DEF FlowTaken
  <2> QED BY <2>2, <2>3, <2>4 DEF FlowsTaken, IsFlow
<1> QED BY <1>1, <1>2 DEF Touched

\* The scheduler stays where it is, or the run goes on.
LEMMA PlaceKept ==
  ASSUME Whole, PlaceTaken, ran \subseteq ran', UNCHANGED <<top, who, step>>,
         \/ at' = at
         \/ at \in Running /\ at' \in Running
         \/ at \in Running /\ at' = "returned" /\ who \in ran',
         top \in Id => Carries(top) /\ tasks'[top].kind = tasks[top].kind,
         top \in Id' => top \in Id
  PROVE  PlaceTaken'
<1>1. ASSUME top \in Id
      PROVE  /\ Filled(top) => Filled(top)'
             /\ \A n : NoneBeyond(top, n) => \A c \in Children(top)' : tasks'[c].step <= n
             /\ \A n : UpTo(top, n) => \A i \in 1 .. n - 1 : Taken(top, i)'
             /\ \A i : Taken(top, i) => Taken(top, i)'
             /\ tasks'[top].kind = tasks[top].kind
  BY <1>1, CarriesOn DEF Carries
<1>2. at' = "resume" => Filled(top)'
  BY <1>1 DEF PlaceTaken, Running, Whole, Inv, PlaceOK
<1>3. at' = "step" => NoneBeyond(top, step - 1)' /\ \A i \in 1 .. step' - 1 : Taken(top, i)'
  <2> SUFFICES ASSUME at' = "step"
               PROVE  NoneBeyond(top, step - 1)' /\ \A i \in 1 .. step' - 1 : Taken(top, i)'
    OBVIOUS
  <2>1. at = "step" /\ top \in Id
    BY DEF Running, Whole, Inv, PlaceOK
  <2>2. NoneBeyond(top, step - 1) /\ \A i \in 1 .. step - 1 : Taken(top, i)
    BY <2>1 DEF PlaceTaken
  <2> QED BY <1>1, <2>1, <2>2 DEF NoneBeyond
<1>4. at' \in Running \cup {"returned"} /\ top' \in Id' /\ IsFlow(top)' => UpTo(top, step)'
  <2> SUFFICES ASSUME at' \in Running \cup {"returned"}, top \in Id', IsFlow(top)'
               PROVE  UpTo(top, step)'
    OBVIOUS
  <2>1. at \in Running \cup {"returned"} /\ top \in Id /\ IsFlow(top)
    BY <1>1 DEF IsFlow
  <2>2. UpTo(top, step)
    BY <2>1 DEF PlaceTaken
  <2> QED BY <1>1, <2>1, <2>2 DEF UpTo, NoneBeyond
<1>5. at' = "returned" /\ top' \in Id' /\ IsFlow(top)' => who' \in ran'
  <2> SUFFICES ASSUME at' = "returned", top \in Id, tasks'[top].kind = "flow" PROVE who \in ran'
    BY DEF IsFlow
  <2>1. IsFlow(top)
    BY <1>1 DEF IsFlow
  <2>2. at = "returned" => who \in ran
    BY <2>1 DEF PlaceTaken
  <2>3. at = "returned" \/ who \in ran'
    BY DEF Running
  <2> QED BY <2>2, <2>3
<1>6. at' # "rejected"
  BY DEF PlaceTaken, Running
<1> QED BY <1>2, <1>3, <1>4, <1>5, <1>6 DEF PlaceTaken

\* The scheduler comes to a place where nothing of a workflow is claimed.
LEMMA PlaceFree ==
  ASSUME \/ at' \in {"pick", "raised", "resolved", "child"}
         \/ at' \in Running /\ ~ IsFlow(top)'
  PROVE  PlaceTaken'
BY DEF PlaceTaken, Running

LEMMA FlowStartsTaken ==
  ASSUME Whole, FlowsTaken, UNCHANGED ran, NEW t \in Id, FlowStarts(t)
  PROVE  PlaceTaken'
<1>1. tasks[t].status = "PENDING" /\ IsFlow(t)
  BY DEF FlowStarts, Take, Whole, Steady, ReadOK
<1>2. Children(t) = {}
  BY <1>1 DEF FlowsTaken, FlowTaken
<1>3. Only(t, "IN_PROGRESS")
  BY OnlySet DEF FlowStarts, Whole, Inv, TaskStatus
<1>4. Children(t)' = {}
  BY <1>2, <1>3, TouchCarries DEF Carries
<1>5. at' = "step" /\ top' = t /\ step' = 1
  BY DEF FlowStarts
<1> QED BY <1>4, <1>5 DEF PlaceTaken, NoneBeyond, Running

LEMMA StepReturnsTaken ==
  ASSUME Whole, PlaceTaken, UNCHANGED ran, StepReturns
  PROVE  PlaceTaken'
<1>1. top \in Id /\ IsFlow(top) /\ at = "returned"
  BY DEF StepReturns, Whole, Inv, TypeOK, Id
<1>2. /\ step \in Nat
      /\ \A c \in Children(top) : tasks[c].step \in Nat /\ tasks[c].step <= step
      /\ \A i \in 1 .. step : Taken(top, i)
  BY <1>1, StepOver
<1>3. at' = "step" /\ top' = top /\ step' = step + 1 /\ tasks' = tasks
  BY DEF StepReturns
<1>4. Children(top)' = Children(top) /\ \A i : Taken(top, i)' <=> Taken(top, i)
  BY <1>3 DEF Children, Taken, Id
<1>5. step' - 1 = step
  BY <1>2, <1>3
<1> QED BY <1>2, <1>3, <1>4, <1>5 DEF PlaceTaken, NoneBeyond, Running

LEMMA ResumeFlowTaken ==
  ASSUME Whole, FlowsTaken, UNCHANGED ran, ResumeFlow
  PROVE  PlaceTaken'
<1>1. top \in Id /\ IsFlow(top) /\ tasks[top].status = "AWAITING_APPROVAL"
  BY DEF ResumeFlow, Whole, Inv, PlaceOK, Steady, ServedOK
<1>2. Filled(top)
  BY <1>1 DEF FlowsTaken, FlowTaken
<1>3. Only(top, "IN_PROGRESS")
  BY OnlySet DEF ResumeFlow, Whole, Inv, TaskStatus
<1>4. PICK t : t = top
  OBVIOUS
<1>5. Filled(t)'
  BY <1>2, <1>3, <1>4, TouchCarries, CarriesOn
<1>6. at' = "resume" /\ top' = t
  BY <1>4 DEF ResumeFlow, Goto
<1> QED BY <1>5, <1>6 DEF PlaceTaken, Running

LEMMA FlowResumesTaken ==
  ASSUME Whole, PlaceTaken, UNCHANGED ran, FlowResumes
  PROVE  PlaceTaken'
<1> DEFINE S == {0} \cup {tasks[c].step : c \in Children(top)}
<1>1. S \in SUBSET (0 .. Steps) /\ S # {} /\ Steps \in Nat
  <2>1. \A c \in Id : tasks[c] \in TaskRow
    BY DEF Whole, Inv, TypeOK, Id
  <2>2. \A c \in Children(top) : tasks[c].step \in 0 .. Steps
    BY <2>1 DEF Children, TaskRow
  <2> QED BY <2>2, StepsAssumption
<1>2. Max(S) \in S /\ \A i \in S : i <= Max(S)
  BY <1>1, Greatest
<1>3. Max(S) \in 0 .. Steps
  BY <1>1, <1>2
<1>4. at' = "step" /\ top' = top /\ step' = Max(S) + 1 /\ tasks' = tasks
  BY DEF FlowResumes, ResumeFrom, LastStep
<1>5. Filled(top)
  BY DEF FlowResumes, PlaceTaken
<1>6. \A c \in Children(top) : tasks[c].step <= Max(S)
  BY <1>2
<1>7. \A i \in 1 .. Max(S) : Taken(top, i)
  <2> SUFFICES ASSUME NEW i \in 1 .. Max(S) PROVE Taken(top, i)
    OBVIOUS
  <2>1. Max(S) # 0
    BY <1>3
  <2>2. PICK c \in Children(top) : tasks[c].step = Max(S)
    BY <1>2, <2>1
  <2> QED BY <1>5, <2>2 DEF Filled
<1>8. Children(top)' = Children(top) /\ \A i : Taken(top, i)' <=> Taken(top, i)
  BY <1>4 DEF Children, Taken, Id
<1>9. step' - 1 = Max(S)
  BY <1>3, <1>4
<1> HIDE DEF S
<1> QED BY <1>4, <1>6, <1>7, <1>8, <1>9 DEF PlaceTaken, NoneBeyond, Running

LEMMA StepStartsTaken ==
  ASSUME Whole, PlaceTaken, UNCHANGED ran, StepStarts
  PROVE  PlaceTaken'
<1>1. PICK n, w : n = Len(tasks) + 1 /\ w = top
  OBVIOUS
<1>2. /\ \A t \in Id : tasks'[t] = tasks[t]
      /\ Children(w)' = Children(w) \cup {n} /\ tasks'[n].step = step
      /\ \A i : Taken(w, i) => Taken(w, i)'
  BY <1>1, AddedRow, JoinCarries DEF Whole
<1>3. /\ NoneBeyond(w, step - 1) /\ \A i \in 1 .. step - 1 : Taken(w, i)
      /\ step \in Nat
  BY <1>1 DEF StepStarts, PlaceTaken, Whole, Inv, TypeOK
<1>4. \A c \in Children(w) : c \in Id /\ tasks[c].step \in Nat
  <2>1. \A c \in Id : tasks[c] \in TaskRow
    BY DEF Whole, Inv, TypeOK, Id
  <2> QED BY <2>1, StepsAssumption DEF Children, TaskRow
<1>5. \A c \in Children(w)' : tasks'[c].step <= step
  <2>1. ASSUME NEW c \in Children(w) PROVE tasks'[c].step <= step
    BY <1>2, <1>3, <1>4, <2>1 DEF NoneBeyond
  <2> QED BY <1>2, <1>3, <2>1
<1>6. at' = "begin" /\ top' = w /\ step' = step
  BY <1>1 DEF StepStarts
<1> QED BY <1>2, <1>3, <1>5, <1>6 DEF PlaceTaken, UpTo, NoneBeyond, Running

LEMMA StepPlaceTaken ==
  ASSUME Whole, FlowsTaken, PlaceTaken, [Next]_vars, "db" \notin Faults
  PROVE  PlaceTaken'
<1>0. TypeOK /\ ~ DbFails /\ top \in Id \cup {0} /\ 0 \notin Id
  BY DEF Whole, Inv, TypeOK, Id, DbFails
<1>g. PICK w : w = top
  OBVIOUS
<1>1. ASSUME ran \subseteq ran', UNCHANGED <<top, who, step>>, NEW x, NEW s, Only(x, s),
             \/ at' = at
             \/ at \in Running /\ at' \in Running
             \/ at \in Running /\ at' = "returned" /\ who \in ran'
      PROVE  PlaceTaken'
  <2>1. Carries(w)
    BY <1>1, TouchCarries
  <2>2. Carries(top)
    BY <1>g, <1>1, <2>1 DEF Carries, Children, Taken
  <2>3. Id' = Id /\ (top \in Id => tasks'[top].kind = tasks[top].kind)
    BY <1>1 DEF Only
  <2> QED BY <1>1, <2>2, <2>3, PlaceKept
<1>2. ASSUME tasks' = tasks, UNCHANGED <<top, who, step, at, ran>> PROVE PlaceTaken'
  BY <1>0, <1>1, <1>2, OnlySame
<1>3. CASE UNCHANGED vars
  BY <1>2, <1>3 DEF vars, scheduler
<1>4. CASE Environment /\ UNCHANGED ran
  <2>1. ASSUME NEW kind \in {"flow", "unknown"}, Trigger(kind) PROVE PlaceTaken'
    <3>1. UNCHANGED <<top, who, step, at>>
      BY <2>1 DEF Trigger, scheduler
    <3>2. PICK n : n = Len(tasks) + 1
      OBVIOUS
    <3>3. RowAdded(kind, 0, 0) /\ Whole
      BY <2>1, AddedRow DEF Whole
    <3>4. /\ Id' = Id \cup {n} /\ n \notin Id /\ \A t \in Id : tasks'[t] = tasks[t]
          /\ \A t : t # 0 => Carries(t)
      BY <1>4, <3>2, <3>3, JoinCarries
    <3>5. top \in Id => Carries(top) /\ tasks'[top].kind = tasks[top].kind
      BY <1>0, <1>g, <3>1, <3>4 DEF Carries, Children, Taken
    <3>6. top \in Id' => top \in Id
      BY <3>2, <3>4, <1>0 DEF TypeOK
    <3> QED BY <1>4, <3>1, <3>5, <3>6, PlaceKept
  <2>2. CASE Crash
    BY <2>2, PlaceFree DEF Crash, Stop
  <2>3. ASSUME NEW a \in Action, Resolve(a) \/ Retry(a) \/ Propose(a) PROVE PlaceTaken'
    BY <1>2, <1>4, <2>3 DEF Resolve, Retry, Propose, scheduler
  <2> QED BY <1>2, <1>4, <2>1, <2>2, <2>3 DEF Environment, ComesDue, scheduler
<1>5. CASE RunReturns
  BY <1>0, <1>1, <1>5, OnlySame DEF RunReturns, Running
<1>6. CASE (Tick \/ PhaseOver) /\ UNCHANGED ran
  BY <1>2, <1>6 DEF Tick, PhaseOver
<1>7. CASE Run /\ UNCHANGED ran
  <2>1. CASE RunBegins \/ RunPrepared \/ RunAnswers
    <3>1. UNCHANGED <<top, who, step, ran>> /\ at \in Running /\ at' \in Running
      BY <1>7, <2>1 DEF RunBegins, RunPrepared, RunAnswers, Goto, Running
    <3>2. \E x, s : Only(x, s)
      BY <1>0, <2>1, OnlyMaybe, OnlySame, OnlyAnswers DEF RunBegins, RunPrepared, Whole, TaskStatus
    <3> QED BY <1>1, <3>1, <3>2
  <2>2. CASE RunUnprepared \/ RunThrows \/ DistillFails
    BY <2>2, PlaceFree DEF RunUnprepared, RunThrows, DistillFails, Goto
  <2> QED BY <1>7, <2>1, <2>2 DEF Run
<1>8. CASE TickThrows \/ ScheduleStartFails \/ StepStartFails \/ StepsOverFails \/ StepReturnFails
           \/ StepRaiseFails \/ FlowResumeFails \/ OriginalDoneOnly
  BY <1>0, <1>8 DEF TickThrows, ScheduleStartFails, StepStartFails, StepsOverFails,
     StepReturnFails, StepRaiseFails, FlowResumeFails, OriginalDoneOnly
<1>9. CASE ScheduleStarts
  <2>1. PICK n : n = Len(tasks) + 1
    OBVIOUS
  <2>2. tasks'[n].kind = "schedule"
    BY <1>0, <1>9, <2>1, AddedRow, Inserted DEF RowAdded, Whole
  <2>3. top' = n /\ at' \in Running
    BY <1>9, <2>1 DEF ScheduleStarts, Running
  <2> QED BY <2>2, <2>3, PlaceFree DEF IsFlow
<1>10. CASE ScheduleAdvances \/ StepsOver \/ StepPauses \/ StepRaises \/ Revert \/ ResumeTask
            \/ TaskResumed
  BY <1>10, PlaceFree DEF ScheduleAdvances, StepsOver, StepPauses, StepRaises, Revert, ResumeTask,
     TaskResumed, Served
<1>11. CASE OriginalDone
  <2>1. at = "child" /\ at' \in Running /\ top' = top /\ top \in Id /\ ~ IsFlow(top)
    BY <1>11 DEF OriginalDone, Goto, Running, Whole, Inv, PlaceOK
  <2>2. Only(top, "COMPLETED")
    BY <1>0, <1>11, OnlySet DEF OriginalDone, AfterResume, TaskStatus
  <2>3. ~ IsFlow(top)'
    BY <2>1, <2>2 DEF Only, IsFlow
  <2> QED BY <2>1, <2>3, PlaceFree
<1>12. ASSUME NEW t \in Id, FlowUnknown(t) \/ StillWaiting(t), UNCHANGED ran PROVE PlaceTaken'
  <2>1. at' = "pick"
    BY <1>12 DEF FlowUnknown, StillWaiting, Take
  <2> QED BY <2>1, PlaceFree
<1>13. ASSUME NEW t \in Id, Resolved(t) PROVE PlaceTaken'
  BY <1>13, PlaceFree DEF Resolved
<1>14. ASSUME NEW t \in Id, FlowStarts(t), UNCHANGED ran PROVE PlaceTaken'
  BY <1>14, FlowStartsTaken
<1>15. CASE (StepStarts \/ StepReturns \/ ResumeFlow \/ FlowResumes) /\ UNCHANGED ran
  BY <1>15, StepStartsTaken, StepReturnsTaken, ResumeFlowTaken, FlowResumesTaken
<1> QED
  BY <1>3, <1>4, <1>5, <1>6, <1>7, <1>8, <1>9, <1>10, <1>11, <1>12, <1>13, <1>14, <1>15
  DEF Next, Scheduling, Serve

LEMMA RanGrows ==
  ASSUME [Next]_vars
  PROVE  ran \subseteq ran'
BY DEF Next, Scheduling, RunReturns, vars

LEMMA InitTaken == Init => FlowsTaken /\ PlaceTaken
BY DEF Init, FlowsTaken, PlaceTaken, Running, Id

\* resume() "continues from the next step" (workflow-executor.ts): the agent has run every
\* step of a workflow that is COMPLETED, wherever agents fail, a tick is cut off or actions
\* are put to review again, as long as the queries of the gateway succeed (a step row whose
\* conversation cannot be created is passed over).
THEOREM EveryStepRun == ASSUME "db" \notin Faults PROVE Spec => []NoStepSkipped
<1>1. Whole /\ FlowsTaken /\ PlaceTaken => NoStepSkipped
  BY DEF FlowsTaken, FlowTaken, NoStepSkipped, Taken
<1>2. Whole /\ FlowsTaken /\ PlaceTaken /\ [Next]_vars => FlowsTaken'
  BY RanGrows, StepTouches, FlowsStay DEF Whole
<1>3. Whole /\ FlowsTaken /\ PlaceTaken /\ [Next]_vars => Whole' /\ PlaceTaken'
  BY StepWhole, StepPlaceTaken
<1> QED BY <1>1, <1>2, <1>3, InitWhole, InitTaken, PTL DEF Spec

-----------------------------------------------------------------------------
(***************************************************************************)
(* The gates.  A step's row tells what became of its run, a workflow that   *)
(* waits has its step's proposals among its links, and one that goes on     *)
(* leaves no proposal of a gated step behind that nobody has reviewed.      *)
(***************************************************************************)
Passed(c) == tasks[c].step \in Gates => Made(c) \subseteq reviewed

Waits(t) ==
  \A c \in Children(t) : tasks[c].step \in Gates => Made(c) \subseteq reviewed \cup LinksOf(t)

\* What the rows have to say.
RowTells(c) ==
  /\ tasks[c].status = "COMPLETED" => Made(c) = {}
  /\ tasks[c].status = "AWAITING_APPROVAL" => Made(c) \subseteq tasks[c].links

GateRows ==
  /\ \A a \in proposed : author[a] \in Id
  /\ proposed \ open \subseteq reviewed
  /\ \A c \in Id : tasks[c].kind = "step" => RowTells(c)
  /\ \A t \in Id : IsFlow(t) /\ tasks[t].status = "AWAITING_APPROVAL" => Waits(t)
  /\ GateHolds

\* What the scheduler knows of the row the agent runs for, and of the workflow.
RunTells ==
  /\ at \in {"child", "begin", "prepare"} => Made(who) = {}
  /\ at = "loop" => Made(who) \subseteq linked
  /\ at \in {"distill", "returned"} =>
       who \in Id /\ tasks[who].status \in {"COMPLETED", "AWAITING_APPROVAL"}

TopPassed ==
  top \in Id /\ IsFlow(top) =>
    /\ at \in {"resolved", "resume", "step"} => \A c \in Children(top) : Passed(c)
    /\ at \in Running \cup {"returned"} => \A c \in Children(top) \ {who} : Passed(c)

GatesOK == GateRows /\ RunTells /\ TopPassed

LEMMA ChildIsStep ==
  ASSUME Whole, NEW t \in Id, IsFlow(t), NEW c \in Children(t)
  PROVE  c \in Id /\ tasks[c].kind = "step" /\ tasks[c].parent = t /\ t # 0 /\ ~ IsFlow(c)
<1>1. c \in Id /\ tasks[c].parent = t /\ t # 0
  BY DEF Children, Whole, Inv, TypeOK, Id
<1>2. tasks[c].kind \in {"step", "resume"}
  <2>1. tasks[c] \in TaskRow
    BY <1>1 DEF Whole, Inv, TypeOK, Id
  <2> QED BY <1>1, <2>1 DEF Whole, Kinds, TaskRow, Kind
<1>3. tasks[c].kind # "resume"
  BY <1>1 DEF Whole, Kinds, IsFlow
<1> QED BY <1>1, <1>2, <1>3 DEF IsFlow

LEMMA SameMade == UNCHANGED <<proposed, author>> => \A c : Made(c)' = Made(c)
BY DEF Made

\* Row x, if there is one, gets status s and keeps its links.
Alters(x, s) == Only(x, s) /\ (x \in Id => tasks[x].links \subseteq tasks'[x].links)

LEMMA AltersSet ==
  ASSUME TypeOK, NEW x, NEW s \in TaskStatus, SetStatus(x, s)
  PROVE  Alters(x, s)
BY OnlySet, StatusKept DEF Alters, Kept

LEMMA AltersNone == ASSUME TypeOK, tasks' = tasks PROVE Alters(0, "PENDING") /\ 0 \notin Id
BY OnlySame DEF Alters, TypeOK, Id

LEMMA Altered ==
  ASSUME Whole, GateRows, UNCHANGED actions, NEW x, NEW s, Alters(x, s),
         x \in Id => tasks[x].parent = 0 \/ tasks[x].status \in {"PENDING", "IN_PROGRESS"},
         x \in Id /\ tasks[x].kind = "step" =>
           /\ s = "COMPLETED" => Made(x) = {}
           /\ s = "AWAITING_APPROVAL" => Made(x) \subseteq tasks'[x].links,
         x \in Id /\ IsFlow(x) /\ s = "AWAITING_APPROVAL" => Waits(x),
         x \in Id /\ IsFlow(x) /\ s = "COMPLETED" => \A c \in Children(x) : Passed(c)
  PROVE  /\ GateRows' /\ Id' = Id
         /\ \A t \in Id : Children(t)' = Children(t) /\ (IsFlow(t)' <=> IsFlow(t))
         /\ \A c \in Id : Passed(c)' <=> Passed(c)
         /\ \A c : Made(c)' = Made(c)
<1>1. /\ Id' = Id
      /\ \A t \in Id : /\ tasks'[t].kind = tasks[t].kind /\ tasks'[t].parent = tasks[t].parent
                       /\ tasks'[t].step = tasks[t].step
                       /\ tasks'[t].status = IF t = x THEN s ELSE tasks[t].status
                       /\ tasks[t].links \subseteq tasks'[t].links
                       /\ t # x => tasks'[t] = tasks[t]
  BY DEF Alters, Only
<1>2. /\ UNCHANGED <<proposed, open, author, reviewed>>
      /\ \A c : Made(c)' = Made(c)
  BY SameMade DEF actions
<1>3. \A t \in Id : Children(t)' = Children(t) /\ (IsFlow(t)' <=> IsFlow(t))
  BY <1>1 DEF Children, IsFlow
<1>4. \A c \in Id : Passed(c)' <=> Passed(c)
  BY <1>1, <1>2 DEF Passed
<1>5. ASSUME NEW t \in Id, IsFlow(t) PROVE LinksOf(t) \subseteq LinksOf(t)'
  <2> SUFFICES ASSUME NEW c \in Children(t), tasks[c].status = "AWAITING_APPROVAL"
               PROVE  tasks'[c].status = "AWAITING_APPROVAL" /\ tasks[c].links \subseteq tasks'[c].links
    BY <1>3, <1>5 DEF LinksOf
  <2>1. c \in Id /\ tasks[c].parent # 0
    BY <1>5, ChildIsStep
  <2> QED BY <1>1, <2>1
<1>6. \A a \in proposed' : author'[a] \in Id'
  BY <1>1, <1>2 DEF GateRows
<1>7. ASSUME NEW c \in Id, tasks'[c].kind = "step" PROVE RowTells(c)'
  <2>1. CASE c = x
    BY <1>1, <1>2, <1>7, <2>1 DEF RowTells
  <2>2. CASE c # x
    BY <1>1, <1>2, <1>7, <2>2 DEF GateRows, RowTells
  <2> QED BY <2>1, <2>2
<1>8. ASSUME NEW t \in Id, IsFlow(t)', tasks'[t].status = "AWAITING_APPROVAL" PROVE Waits(t)'
  <2>1. IsFlow(t) /\ Waits(t)
    BY <1>1, <1>3, <1>8 DEF GateRows
  <2>2. \A c \in Children(t) : c \in Id
    BY DEF Children
  <2> QED BY <1>1, <1>2, <1>3, <1>5, <2>1, <2>2 DEF Waits
<1>9. GateHolds'
  <2> SUFFICES ASSUME NEW t \in Id, IsFlow(t), NEW c \in Children(t), PastGate(t, c)'
               PROVE  Passed(c)
    BY <1>1, <1>2, <1>3, <1>4 DEF GateHolds, Passed, Children
  <2>1. CASE tasks'[t].status = "COMPLETED"
    <3>1. (t = x /\ s = "COMPLETED") \/ tasks[t].status = "COMPLETED"
      BY <1>1, <2>1
    <3> QED BY <3>1 DEF GateRows, GateHolds, PastGate, Passed
  <2>2. CASE \E d \in Children(t)' : tasks'[d].step > tasks'[c].step
    <3>1. \E d \in Children(t) : tasks[d].step > tasks[c].step
      BY <1>1, <1>3, <2>2 DEF Children
    <3> QED BY <3>1 DEF GateRows, GateHolds, PastGate, Passed
  <2> QED BY <2>1, <2>2 DEF PastGate
<1>10. GateRows'
  BY <1>1, <1>2, <1>6, <1>7, <1>8, <1>9 DEF GateRows
<1> QED BY <1>1, <1>2, <1>3, <1>4, <1>10

\* The scheduler puts a row away, or comes to one.
LEMMA PutAway ==
  ASSUME at' \in {"pick", "raised"}
  PROVE  RunTells' /\ TopPassed'
BY DEF RunTells, TopPassed, Running

\* The scheduler comes to a workflow, or goes on with one, behind its gates.
LEMMA PassedOn ==
  ASSUME at' \in {"resolved", "resume", "step"}, NEW t \in Id, top' = t, Id' = Id,
         IsFlow(t)' <=> IsFlow(t), Children(t)' = Children(t),
         \A c \in Id : Passed(c)' <=> Passed(c),
         IsFlow(t) => \A c \in Children(t) : Passed(c)
  PROVE  RunTells' /\ TopPassed'
<1>1. RunTells'
  BY DEF RunTells
<1>2. \A c \in Children(t)' : c \in Id
  BY DEF Children
<1>3. TopPassed'
  <2> SUFFICES ASSUME tasks'[t].kind = "flow" PROVE \A c \in Children(t)' : Passed(c)'
    BY DEF TopPassed, IsFlow, Running, Children
  <2> QED BY <1>2 DEF IsFlow
<1> QED BY <1>1, <1>3

\* The run goes on.
LEMMA RunsOn ==
  ASSUME Whole, GatesOK, UNCHANGED <<top, who, linked>>, Id' = Id,
         \A t \in Id : Children(t)' = Children(t) /\ (IsFlow(t)' <=> IsFlow(t)),
         \A c \in Id : Passed(c)' <=> Passed(c),
         \A c : Made(c)' = Made(c),
         \/ at = "child" /\ at' = "begin"
         \/ at = "begin" /\ at' = "prepare"
         \/ at = "prepare" /\ at' = "loop"
         \/ /\ at = "loop" /\ at' = "distill"
            /\ tasks'[who].status \in {"COMPLETED", "AWAITING_APPROVAL"}
         \/ at = "distill" /\ at' = "returned" /\ tasks' = tasks
  PROVE  RunTells' /\ TopPassed'
<1>1. at \in Running \cup {"child"} /\ at' \in Running \cup {"returned"} /\ who \in Id
      /\ (at = "child" => ~ IsFlow(top))
  BY DEF Running, Whole, Inv, PlaceOK
<1>2. RunTells'
  BY <1>1 DEF GatesOK, RunTells
<1>3. TopPassed'
  <2> SUFFICES ASSUME NEW t \in Id, t = top, IsFlow(t), NEW c \in Children(t), c # who
               PROVE  Passed(c)
    BY <1>1 DEF TopPassed, IsFlow, Running, Children
  <2>1. at \in Running
    BY <1>1
  <2> QED BY <2>1 DEF GatesOK, TopPassed
<1> QED BY <1>2, <1>3

\* A row is added: nothing has been proposed for it.
LEMMA Joined ==
  ASSUME Whole, GateRows, UNCHANGED actions, NEW kind, NEW parent, NEW i,
         RowAdded(kind, parent, i), NEW n, n = Len(tasks) + 1,
         parent \in Id /\ IsFlow(parent) => \A c \in Children(parent) : Passed(c)
  PROVE  /\ GateRows' /\ n \notin Id /\ n # 0 /\ Id' = Id \cup {n}
         /\ Made(n) = {} /\ tasks'[n].kind = kind
         /\ \A t \in Id : /\ tasks'[t] = tasks[t] /\ (IsFlow(t)' <=> IsFlow(t))
                          /\ Children(t)' = Children(t) \cup (IF parent = t THEN {n} ELSE {})
         /\ \A c \in Id : Passed(c)' <=> Passed(c)
         /\ \A c : Made(c)' = Made(c)
<1>1. /\ n \notin Id /\ n # 0 /\ Id' = Id \cup {n}
      /\ tasks'[n].kind = kind /\ tasks'[n].parent = parent /\ tasks'[n].step = i
      /\ tasks'[n].status = "PENDING"
      /\ \A t \in Id : tasks'[t] = tasks[t]
  BY Inserted DEF RowAdded, Whole, Inv, TypeOK, Id
<1>2. /\ UNCHANGED <<proposed, open, author, reviewed>>
      /\ \A c : Made(c)' = Made(c)
  BY SameMade DEF actions
<1>3. Made(n) = {}
  BY <1>1 DEF Made, GateRows
<1>4. \A t \in Id : /\ IsFlow(t)' <=> IsFlow(t)
                    /\ Children(t)' = Children(t) \cup (IF parent = t THEN {n} ELSE {})
  BY <1>1 DEF Children, IsFlow
<1>5. Children(n)' \subseteq {n}
  BY <1>1 DEF Whole, Kinds, Children
<1>6. \A c \in Id : Passed(c)' <=> Passed(c)
  BY <1>1, <1>2 DEF Passed
<1>7. Passed(n)'
  BY <1>2, <1>3 DEF Passed
<1>8. ASSUME NEW t \in Id, IsFlow(t) PROVE LinksOf(t) \subseteq LinksOf(t)'
  <2>1. \A c \in Children(t) : c \in Children(t)' /\ tasks'[c] = tasks[c]
    BY <1>1, <1>4 DEF Children
  <2> QED BY <1>4, <1>8, <2>1 DEF LinksOf
<1>9. \A a \in proposed' : author'[a] \in Id'
  BY <1>1, <1>2 DEF GateRows
<1>10. ASSUME NEW c \in Id', tasks'[c].kind = "step" PROVE RowTells(c)'
  <2>1. CASE c \in Id
    BY <1>1, <1>2, <1>10, <2>1 DEF GateRows, RowTells
  <2>2. CASE c = n
    BY <1>1, <2>2 DEF RowTells
  <2> QED BY <1>1, <2>1, <2>2
<1>11. ASSUME NEW t \in Id', IsFlow(t)', tasks'[t].status = "AWAITING_APPROVAL" PROVE Waits(t)'
  <2>1. t \in Id /\ IsFlow(t) /\ Waits(t)
    BY <1>1, <1>4, <1>11 DEF GateRows
  <2> SUFFICES ASSUME NEW c \in Children(t)', tasks'[c].step \in Gates
               PROVE  Made(c)' \subseteq reviewed' \cup LinksOf(t)'
    BY DEF Waits
  <2>2. CASE c = n
    BY <1>2, <1>3, <2>2
  <2>3. CASE c # n
    <3>1. c \in Children(t) /\ tasks'[c] = tasks[c]
      BY <1>1, <1>4, <2>1, <2>3 DEF Children
    <3> QED BY <1>2, <1>8, <2>1, <3>1 DEF Waits
  <2> QED BY <2>2, <2>3
<1>12. GateHolds'
  <2> SUFFICES ASSUME NEW t \in Id', IsFlow(t)', NEW c \in Children(t)', PastGate(t, c)'
               PROVE  Passed(c)'
    BY DEF GateHolds, Passed
  <2>1. CASE c = n
    BY <1>7, <2>1
  <2>2. CASE c # n
    <3>1. c \in Id /\ t \in Id /\ c \in Children(t)
      BY <1>1, <1>4, <1>5, <2>2 DEF Children
    <3>2. IsFlow(t)
      BY <1>4, <3>1
    <3>3. CASE t = parent
      BY <1>6, <3>1, <3>2, <3>3
    <3>4. CASE t # parent
      <4>1. Children(t)' = Children(t) /\ \A d \in Children(t) : tasks'[d] = tasks[d]
        BY <1>1, <1>4, <3>1, <3>4 DEF Children
      <4>2. PastGate(t, c)
        BY <1>1, <3>1, <4>1 DEF PastGate
      <4> QED BY <1>6, <3>1, <3>2, <4>2 DEF GateRows, GateHolds, Passed
    <3> QED BY <3>3, <3>4
  <2> QED BY <2>1, <2>2
<1>13. GateRows'
  BY <1>2, <1>9, <1>10, <1>11, <1>12 DEF GateRows
<1> QED BY <1>1, <1>2, <1>3, <1>4, <1>6, <1>13

LEMMA JoinsGates ==
  ASSUME Whole, GatesOK,
         \/ \E kind \in {"flow", "unknown"} : Trigger(kind)
         \/ ScheduleStarts \/ StepStarts \/ ResumeTask
  PROVE  GatesOK'
<1>n. PICK n : n = Len(tasks) + 1
  OBVIOUS
<1>0. GateRows /\ Inv /\ 0 \notin Id /\ top \in Id \cup {0}
  BY DEF GatesOK, Whole, Inv, TypeOK, Id
<1>1. ASSUME NEW kind \in {"flow", "unknown"}, Trigger(kind) PROVE GatesOK'
  <2>1. RowAdded(kind, 0, 0) /\ UNCHANGED <<actions, at, top, who, linked>>
    BY <1>0, <1>1, AddedRow DEF Trigger, scheduler
  <2>2. /\ GateRows' /\ Id' = Id \cup {n} /\ n \notin Id
        /\ \A t \in Id : /\ tasks'[t] = tasks[t] /\ (IsFlow(t)' <=> IsFlow(t))
                         /\ Children(t)' = Children(t) \cup (IF 0 = t THEN {n} ELSE {})
        /\ \A c \in Id : Passed(c)' <=> Passed(c)
        /\ \A c : Made(c)' = Made(c)
    BY <1>n, <1>0, <2>1, Joined
  <2>3. RunTells'
    BY <2>1, <2>2 DEF GatesOK, RunTells
  <2>4. top \in Id' => top \in Id
    BY <1>n, <1>0, <2>2 DEF Inv, TypeOK, Id
  <2>5. TopPassed'
    <3> SUFFICES ASSUME NEW t \in Id, t = top, IsFlow(t)
                 PROVE  /\ Children(t)' = Children(t)
                        /\ \A c \in Children(t) : c \in Id
      BY <2>1, <2>2, <2>4 DEF GatesOK, TopPassed
    <3> QED BY <1>0, <2>2 DEF Children
  <2> QED BY <2>2, <2>3, <2>5 DEF GatesOK
<1>2. CASE ScheduleStarts
  <2>1. /\ RowAdded("schedule", 0, 0) /\ UNCHANGED actions
        /\ at' = "begin" /\ top' = n /\ who' = n
    BY <1>n, <1>0, <1>2, AddedRow DEF ScheduleStarts
  <2>2. GateRows' /\ Made(n) = {} /\ tasks'[n].kind = "schedule" /\ \A c : Made(c)' = Made(c)
    BY <1>n, <1>0, <2>1, Joined
  <2> QED BY <2>1, <2>2 DEF GatesOK, RunTells, TopPassed, IsFlow
<1>3. CASE StepStarts
  <2>1. /\ RowAdded("step", top, step) /\ UNCHANGED <<actions, top>>
        /\ at' = "begin" /\ who' = n /\ at = "step"
    BY <1>n, <1>0, <1>3, AddedRow DEF StepStarts
  <2>2. top \in Id /\ IsFlow(top) /\ \A c \in Children(top) : Passed(c)
    BY <2>1 DEF Whole, Inv, PlaceOK, GatesOK, TopPassed
  <2>3. /\ GateRows' /\ Made(n) = {}
        /\ Children(top)' = Children(top) \cup {n}
        /\ \A c \in Id : Passed(c)' <=> Passed(c)
        /\ \A c : Made(c)' = Made(c)
    BY <1>n, <1>0, <2>1, <2>2, Joined
  <2>4. \A c \in Children(top)' \ {who'} : Passed(c)'
    BY <2>1, <2>2, <2>3 DEF Children
  <2> QED BY <2>1, <2>3, <2>4 DEF GatesOK, RunTells, TopPassed, Running
<1>4. CASE ResumeTask
  <2>1. /\ RowAdded("resume", top, 0) /\ UNCHANGED <<actions, top>>
        /\ at' = "child" /\ who' = n
    BY <1>n, <1>0, <1>4, AddedRow DEF ResumeTask
  <2>2. GateRows' /\ Made(n) = {} /\ \A c : Made(c)' = Made(c)
    BY <1>n, <1>0, <1>4, <2>1, Joined DEF ResumeTask
  <2> QED BY <2>1, <2>2 DEF GatesOK, RunTells, TopPassed, Running
<1> QED BY <1>1, <1>2, <1>3, <1>4

\* A review, or a request for one, leaves every step reviewed that was.
LEMMA ReviewGates ==
  ASSUME Whole, GatesOK, NEW a \in Action, Resolve(a) \/ Retry(a)
  PROVE  GatesOK'
<1>1. /\ UNCHANGED <<tasks, proposed, author, at, top, who, linked>>
      /\ reviewed \subseteq reviewed' /\ proposed \ open' \subseteq (proposed \ open) \cup reviewed'
  BY DEF Resolve, Retry, scheduler
<1>2. Id' = Id /\ \A c : Made(c)' = Made(c)
  BY <1>1, SameMade DEF Id
<1>3. \A t : /\ Children(t)' = Children(t) /\ (IsFlow(t)' <=> IsFlow(t))
             /\ LinksOf(t)' = LinksOf(t)
  BY <1>1, <1>2 DEF Children, IsFlow, LinksOf
<1>4. \A c : Passed(c) => Passed(c)'
  BY <1>1, <1>2 DEF Passed
<1>5. /\ \A c : RowTells(c) => RowTells(c)'
      /\ \A t : Waits(t) => Waits(t)'
  BY <1>1, <1>2, <1>3 DEF RowTells, Waits
<1>6. GateHolds'
  <2>1. \A t, c : PastGate(t, c)' => PastGate(t, c)
    BY <1>1, <1>3 DEF PastGate
  <2> QED BY <1>1, <1>2, <1>3, <2>1 DEF GatesOK, GateRows, GateHolds
<1>7. GateRows'
  <2>1. /\ \A b \in proposed' : author'[b] \in Id'
        /\ proposed' \ open' \subseteq reviewed'
    BY <1>1, <1>2 DEF GatesOK, GateRows
  <2>2. /\ \A c \in Id' : tasks'[c].kind = "step" => RowTells(c)'
        /\ \A t \in Id' : IsFlow(t)' /\ tasks'[t].status = "AWAITING_APPROVAL" => Waits(t)'
    BY <1>1, <1>2, <1>3, <1>5 DEF GatesOK, GateRows
  <2> QED BY <1>6, <2>1, <2>2 DEF GateRows
<1>8. RunTells' /\ TopPassed'
  BY <1>1, <1>2, <1>3, <1>4 DEF GatesOK, RunTells, TopPassed
<1> QED BY <1>7, <1>8 DEF GatesOK

\* An agent proposes an action: the row it runs for is no row anything has passed.
LEMMA ProposeGates ==
  ASSUME Whole, PlaceTaken, GatesOK, NEW a \in Action, Propose(a)
  PROVE  GatesOK'
<1>1. /\ UNCHANGED <<tasks, at, top, who, reviewed>> /\ at = "loop" /\ a \notin proposed
      /\ proposed' = proposed \cup {a} /\ open' = open \cup {a} /\ linked' = linked \cup {a}
      /\ author' = [author EXCEPT ![a] = who]
  BY DEF Propose
<1>2. /\ who \in Id /\ ~ IsFlow(who) /\ tasks[who].parent \in {0, top}
      /\ tasks[who].status \in {"PENDING", "IN_PROGRESS"}
  BY <1>1 DEF Whole, Inv, PlaceOK, Steady, ServedOK, Running
<1>3. author'[a] = who /\ \A b \in proposed : author'[b] = author[b]
  <2>1. author \in [Action -> 0 .. MaxTasks] /\ proposed \subseteq Action
    BY DEF Whole, Inv, TypeOK
  <2> QED BY <1>1, <2>1
<1>4. \A c : Made(c)' = Made(c) \cup (IF c = who THEN {a} ELSE {})
  BY <1>1, <1>3 DEF Made
<1>5. /\ Id' = Id
      /\ \A t : /\ Children(t)' = Children(t) /\ (IsFlow(t)' <=> IsFlow(t))
                /\ LinksOf(t)' = LinksOf(t)
  BY <1>1 DEF Id, Children, IsFlow, LinksOf
<1>6. \A c : c # who => (Passed(c) => Passed(c)')
  BY <1>1, <1>4 DEF Passed
<1>7. ASSUME NEW t \in Id, IsFlow(t), who \in Children(t)
      PROVE  t = top /\ tasks[t].status = "IN_PROGRESS" /\ ~ PastGate(t, who)
  <2>1. t = top
    BY <1>2, <1>7, ChildIsStep
  <2>2. tasks[t].status = "IN_PROGRESS"
    BY <1>1, <1>7, <2>1 DEF Whole, Steady, ServedOK, Running
  <2>3. tasks[who].step = step /\ NoneBeyond(t, step)
    BY <1>1, <1>7, <2>1 DEF Whole, Inv, FlowOK, PlaceTaken, UpTo, Running
  <2>4. \A d \in Children(t) : tasks[d].step \in Nat /\ step \in Nat
    <3>1. \A d \in Id : tasks[d] \in TaskRow
      BY DEF Whole, Inv, TypeOK, Id
    <3> QED BY <3>1, StepsAssumption DEF Whole, Inv, TypeOK, TaskRow, Children
  <2>5. \A d \in Children(t) : ~ (tasks[d].step > tasks[who].step)
    BY <2>3, <2>4 DEF NoneBeyond
  <2> QED BY <2>1, <2>2, <2>5 DEF PastGate
<1>8. /\ \A b \in proposed' : author'[b] \in Id'
      /\ proposed' \ open' \subseteq reviewed'
  BY <1>1, <1>2, <1>3, <1>5 DEF GatesOK, GateRows
<1>9. ASSUME NEW c \in Id, tasks'[c].kind = "step" PROVE RowTells(c)'
  <2>1. CASE c = who
    BY <1>1, <1>2, <2>1 DEF RowTells
  <2>2. CASE c # who
    BY <1>1, <1>4, <1>9, <2>2 DEF GatesOK, GateRows, RowTells
  <2> QED BY <2>1, <2>2
<1>10. ASSUME NEW t \in Id, IsFlow(t), tasks[t].status = "AWAITING_APPROVAL" PROVE Waits(t)'
  <2>1. who \notin Children(t)
    BY <1>7, <1>10
  <2> QED BY <1>1, <1>4, <1>5, <1>10, <2>1 DEF GatesOK, GateRows, Waits
<1>11. GateHolds'
  <2> SUFFICES ASSUME NEW t \in Id, IsFlow(t), NEW c \in Children(t), PastGate(t, c)
               PROVE  Passed(c)'
    <3>1. \A t, c : PastGate(t, c)' => PastGate(t, c)
      BY <1>1, <1>5 DEF PastGate
    <3> QED BY <1>5, <3>1 DEF GateHolds, Passed
  <2>1. c # who
    BY <1>7
  <2> QED BY <1>6, <2>1 DEF GatesOK, GateRows, GateHolds, Passed
<1>12. GateRows'
  BY <1>1, <1>5, <1>8, <1>9, <1>10, <1>11 DEF GateRows
<1>13. RunTells'
  BY <1>1, <1>4 DEF GatesOK, RunTells
<1>14. TopPassed'
  BY <1>1, <1>5, <1>6 DEF GatesOK, TopPassed, Running
<1> QED BY <1>12, <1>13, <1>14 DEF GatesOK

\* A step pauses, or the next one may start: a gated one that does not wait has proposed
\* nothing.
LEMMA ReturnsGates ==
  ASSUME Whole, GatesOK, StepPauses \/ StepReturns
  PROVE  GatesOK'
<1>1. at = "returned" /\ top \in Id /\ IsFlow(top) /\ UNCHANGED actions
  BY DEF StepPauses, StepReturns, Served, Whole, Inv, TypeOK, Id
<1>2. /\ who \in Children(top) /\ who \in Id /\ tasks[who].step = step
      /\ \A c \in Children(top) \ {who} : Passed(c)
      /\ tasks[who].status \in {"COMPLETED", "AWAITING_APPROVAL"}
      /\ tasks[who].kind = "step" /\ RowTells(who)
  BY <1>1, ChildIsStep DEF Whole, Inv, FlowOK, GatesOK, TopPassed, RunTells, GateRows
<1>3. CASE StepPauses
  <2>1. SetStatus(top, "AWAITING_APPROVAL") /\ GateHit /\ at' = "pick"
    BY <1>3 DEF StepPauses, Served
  <2>2. tasks[who].links \subseteq LinksOf(top)
    BY <1>1, <1>2, <2>1 DEF LinksOf, GateHit
  <2>3. Made(who) \subseteq LinksOf(top)
    BY <1>2, <2>1, <2>2 DEF GateHit, RowTells
  <2>4. Waits(top)
    BY <1>2, <2>3 DEF Waits, Passed
  <2>5. Alters(top, "AWAITING_APPROVAL") /\ tasks[top].parent = 0 /\ tasks[top].kind # "step"
    BY <1>1, <2>1, AltersSet DEF Whole, Inv, RowsOK, IsFlow, TaskStatus
  <2>6. GateRows'
    BY <1>1, <2>4, <2>5, Altered DEF GatesOK
  <2> QED BY <2>1, <2>6, PutAway DEF GatesOK
<1>4. CASE StepReturns
  <2>1. ~ GateHit /\ tasks' = tasks /\ top' = top /\ at' = "step"
    BY <1>4 DEF StepReturns
  <2>2. Passed(who)
    BY <1>2, <2>1 DEF GateHit, RowTells, Passed
  <2>3. /\ GateRows' /\ Id' = Id
        /\ \A t \in Id : Children(t)' = Children(t) /\ (IsFlow(t)' <=> IsFlow(t))
        /\ \A c \in Id : Passed(c)' <=> Passed(c)
    BY <1>1, <2>1, AltersNone, Altered DEF GatesOK, Whole, Inv
  <2>4. \A c \in Children(top) : Passed(c)
    BY <1>2, <2>2
  <2>5. PICK t \in Id : t = top
    BY <1>1
  <2> QED BY <1>1, <2>1, <2>3, <2>4, <2>5, PassedOn DEF GatesOK
<1> QED BY <1>3, <1>4

\* A workflow is taken up, for the first time or when its proposals have been reviewed.
LEMMA TakesGates ==
  ASSUME Whole, FlowsTaken, GatesOK,
         \/ \E t \in Id : FlowStarts(t) \/ Resolved(t)
         \/ ResumeFlow \/ FlowResumes
  PROVE  GatesOK'
<1>0. TypeOK /\ GateRows
  BY DEF Whole, Inv, GatesOK
<1>1. ASSUME NEW t \in Id, FlowStarts(t) PROVE GatesOK'
  <2>1. /\ IsFlow(t) /\ SetStatus(t, "IN_PROGRESS") /\ UNCHANGED actions /\ top' = t
        /\ at' = "step" /\ tasks[t].status = "PENDING"
    BY <1>1 DEF FlowStarts, Take, Whole, Steady, ReadOK
  <2>2. Children(t) = {}
    BY <2>1 DEF FlowsTaken, FlowTaken
  <2>3. Alters(t, "IN_PROGRESS")
    BY <1>0, <2>1, AltersSet DEF TaskStatus
  <2>4. /\ GateRows' /\ Id' = Id
        /\ Children(t)' = Children(t) /\ (IsFlow(t)' <=> IsFlow(t))
        /\ \A c \in Id : Passed(c)' <=> Passed(c)
    BY <1>0, <2>1, <2>3, Altered
  <2> QED BY <2>1, <2>2, <2>4, PassedOn DEF GatesOK
<1>2. ASSUME NEW t \in Id, Resolved(t) PROVE GatesOK'
  <2>1. /\ tasks' = tasks /\ UNCHANGED actions /\ top' = t /\ at' = "resolved"
        /\ LinksOf(t) \cap open = {} /\ tasks[t].status = "AWAITING_APPROVAL"
    BY <1>2 DEF Resolved, Take, AllResolved, Whole, Steady, ReadOK
  <2>2. /\ GateRows' /\ Id' = Id
        /\ Children(t)' = Children(t) /\ (IsFlow(t)' <=> IsFlow(t))
        /\ \A c \in Id : Passed(c)' <=> Passed(c)
    BY <1>0, <2>1, AltersNone, Altered
  <2>3. ASSUME IsFlow(t), NEW c \in Children(t) PROVE Passed(c)
    <3>1. Waits(t) /\ proposed \ open \subseteq reviewed
      BY <1>0, <2>1, <2>3 DEF GateRows
    <3>2. Made(c) \subseteq proposed
      BY DEF Made
    <3> QED BY <2>1, <3>1, <3>2 DEF Waits, Passed
  <2> QED BY <2>1, <2>2, <2>3, PassedOn DEF GatesOK
<1>3. CASE ResumeFlow \/ FlowResumes
  <2>1. /\ UNCHANGED <<actions, top>> /\ at \in {"resolved", "resume"} /\ at' \in {"resume", "step"}
        /\ top \in Id /\ IsFlow(top)
    BY <1>3 DEF ResumeFlow, FlowResumes, Goto, Whole, Inv, PlaceOK
  <2>2. \A c \in Children(top) : Passed(c)
    BY <2>1 DEF GatesOK, TopPassed
  <2>3. tasks[top].parent = 0 /\ tasks[top].kind # "step"
    BY <2>1 DEF Whole, Inv, RowsOK, IsFlow
  <2>4. Alters(top, "IN_PROGRESS") \/ (Alters(0, "PENDING") /\ 0 \notin Id)
    BY <1>0, <1>3, AltersSet, AltersNone DEF ResumeFlow, FlowResumes, TaskStatus
  <2>5. /\ GateRows' /\ Id' = Id
        /\ \A t \in Id : Children(t)' = Children(t) /\ (IsFlow(t)' <=> IsFlow(t))
        /\ \A c \in Id : Passed(c)' <=> Passed(c)
    BY <1>0, <2>1, <2>3, <2>4, Altered
  <2>6. PICK t \in Id : t = top
    BY <2>1
  <2> QED BY <2>1, <2>2, <2>5, <2>6, PassedOn DEF GatesOK
<1> QED BY <1>1, <1>2, <1>3

\* A run goes on: its answer tells in the row what it has proposed.
LEMMA RunGates ==
  ASSUME Whole, GatesOK, ~ DbFails, OriginalDone \/ RunReturns \/ Run
  PROVE  GatesOK'
<1>0. TypeOK /\ GateRows
  BY DEF Whole, Inv, GatesOK
<1>1. at \in Running =>
        /\ who \in Id /\ tasks[who].kind \in {"schedule", "step", "resume"}
        /\ at \in {"begin", "prepare", "loop"} => tasks[who].status \in {"PENDING", "IN_PROGRESS"}
  BY DEF Whole, Inv, PlaceOK, Steady, ServedOK, RunsFor, Running
<1>2. CASE OriginalDone
  <2>1. /\ at = "child" /\ at' = "begin" /\ UNCHANGED <<actions, top, who, linked>>
        /\ SetStatus(top, "COMPLETED") /\ top \in Id /\ ~ IsFlow(top)
        /\ tasks[top].parent = 0
    BY <1>2 DEF OriginalDone, Goto, AfterResume, Whole, Inv, PlaceOK, Steady, ServedOK
  <2>2. Alters(top, "COMPLETED") /\ tasks[top].kind # "step"
    BY <1>0, <2>1, AltersSet DEF Whole, Kinds, TaskStatus
  <2> QED BY <1>0, <2>1, <2>2, Altered, RunsOn DEF GatesOK
<1>3. CASE RunBegins
  <2>1. /\ at = "begin" /\ at' = "prepare" /\ UNCHANGED <<actions, top, who, linked>>
        /\ SetStatus(who, "IN_PROGRESS")
    BY <1>3 DEF RunBegins, Goto, MayNotSet
  <2>2. Alters(who, "IN_PROGRESS")
    BY <1>0, <2>1, AltersSet DEF TaskStatus
  <2> QED BY <1>0, <1>1, <2>1, <2>2, Altered, RunsOn DEF GatesOK, Running
<1>4. CASE RunPrepared \/ RunReturns
  <2>1. /\ UNCHANGED <<tasks, actions, top, who, linked>>
        /\ (at = "prepare" /\ at' = "loop") \/ (at = "distill" /\ at' = "returned")
    BY <1>4 DEF RunPrepared, RunReturns, Goto
  <2> QED BY <1>0, <2>1, AltersNone, Altered, RunsOn DEF GatesOK
<1>5. CASE RunUnprepared \/ RunThrows \/ DistillFails
  <2>1. RunUnprepared \/ RunThrows
    BY <1>5 DEF DistillFails
  <2>2. at' = "raised" /\ at \in Running /\ at # "distill" /\ UNCHANGED actions
    BY <2>1 DEF RunUnprepared, RunThrows, Goto, Running
  <2>3. Alters(who, "FAILED") \/ (Alters(0, "PENDING") /\ 0 \notin Id)
    BY <1>0, <2>1, AltersSet, AltersNone DEF RunUnprepared, RunThrows, MayNotSet, TaskStatus
  <2>4. GateRows'
    BY <1>0, <1>1, <2>2, <2>3, Altered DEF Running
  <2> QED BY <2>2, <2>4, PutAway DEF GatesOK
<1>6. CASE RunAnswers
  <2> DEFINE s == IF linked = {} THEN "COMPLETED" ELSE "AWAITING_APPROVAL"
  <2>1. /\ at = "loop" /\ at' = "distill" /\ UNCHANGED <<actions, top, who, linked>>
        /\ tasks' = [tasks EXCEPT ![who].status = s, ![who].links = @ \cup linked]
        /\ Made(who) \subseteq linked
    BY <1>6 DEF RunAnswers, Goto, GatesOK, RunTells
  <2>2. /\ who \in Id /\ tasks[who].status \in {"PENDING", "IN_PROGRESS"}
        /\ tasks[who].kind # "flow"
    BY <1>1, <2>1 DEF Running
  <2>3. tasks[who] \in TaskRow /\ tasks \in Seq(TaskRow)
    BY <1>0, <2>2 DEF TypeOK, Id
  <2>4. /\ Id' = Id
        /\ \A t \in Id : t # who => tasks'[t] = tasks[t]
    BY <2>1, <2>2, <2>3 DEF Id
  <2>5. /\ tasks'[who].kind = tasks[who].kind /\ tasks'[who].parent = tasks[who].parent
        /\ tasks'[who].step = tasks[who].step /\ tasks'[who].status = s
        /\ tasks'[who].links = tasks[who].links \cup linked
    BY <2>1, <2>2, <2>3 DEF Id, TaskRow
  <2>6. Alters(who, s)
    BY <2>4, <2>5 DEF Alters, Only
  <2>7. /\ GateRows' /\ Id' = Id
        /\ \A t \in Id : Children(t)' = Children(t) /\ (IsFlow(t)' <=> IsFlow(t))
        /\ \A c \in Id : Passed(c)' <=> Passed(c)
        /\ \A c : Made(c)' = Made(c)
    BY <1>0, <2>1, <2>2, <2>5, <2>6, Altered DEF IsFlow
  <2> QED BY <2>1, <2>5, <2>7, RunsOn DEF GatesOK
<1> QED BY <1>2, <1>3, <1>4, <1>5, <1>6 DEF Run

\* A row is put away: a workflow that is COMPLETED is behind all its gates.
LEMMA AwayGates ==
  ASSUME Whole, GatesOK, ~ DbFails, at # "rejected",
         \/ Crash \/ ScheduleAdvances \/ TaskResumed \/ StepsOver \/ StepRaises \/ Revert
         \/ \E t \in Id : FlowUnknown(t)
  PROVE  GatesOK'
<1>0. TypeOK /\ GateRows
  BY DEF Whole, Inv, GatesOK
<1>1. at' = "pick" /\ UNCHANGED actions
  BY DEF Crash, Stop, ScheduleAdvances, TaskResumed, StepsOver, StepRaises, Revert, Served,
     FlowUnknown, Take
<1>2. CASE Crash \/ ScheduleAdvances \/ TaskResumed
  <2>1. tasks' = tasks
    BY <1>2 DEF Crash, Stop, ScheduleAdvances, TaskResumed
  <2>2. GateRows'
    BY <1>0, <1>1, <2>1, AltersNone, Altered
  <2> QED BY <1>1, <2>2, PutAway DEF GatesOK
<1>3. CASE StepsOver \/ StepRaises
  <2>1. top \in Id /\ IsFlow(top) /\ tasks[top].parent = 0 /\ tasks[top].kind # "step"
    BY <1>3 DEF StepsOver, StepRaises, Whole, Inv, PlaceOK, RowsOK, TypeOK, Id, IsFlow
  <2>2. \/ SetStatus(top, "COMPLETED") /\ \A c \in Children(top) : Passed(c)
        \/ SetStatus(top, "FAILED")
    BY <1>3, <2>1 DEF StepsOver, StepRaises, GatesOK, TopPassed
  <2>3. GateRows'
    BY <1>0, <1>1, <2>1, <2>2, AltersSet, Altered DEF TaskStatus
  <2> QED BY <1>1, <2>3, PutAway DEF GatesOK
<1>4. ASSUME NEW t \in Id, FlowUnknown(t) PROVE GatesOK'
  <2>1. tasks[t].parent = 0 /\ tasks[t].kind # "step" /\ SetStatus(t, "FAILED")
    BY <1>4 DEF FlowUnknown, Take, Whole, Steady, ReadOK, Kinds
  <2>2. GateRows'
    BY <1>0, <1>1, <2>1, AltersSet, Altered DEF TaskStatus
  <2> QED BY <1>1, <2>2, PutAway DEF GatesOK
<1> QED BY <1>2, <1>3, <1>4 DEF Revert

\* The scheduler looks for rows, or nothing happens.
LEMMA StaysGates ==
  ASSUME Whole, GatesOK,
         \/ UNCHANGED vars \/ ComesDue \/ Tick \/ PhaseOver \/ \E t \in Id : StillWaiting(t)
  PROVE  GatesOK'
<1>1. UNCHANGED <<tasks, actions, at, top, who, linked>>
  BY DEF vars, scheduler, ComesDue, Tick, PhaseOver, StillWaiting
<1>2. TypeOK /\ GateRows
  BY DEF Whole, Inv, GatesOK
<1>3. /\ GateRows' /\ Id' = Id
      /\ \A t \in Id : Children(t)' = Children(t) /\ (IsFlow(t)' <=> IsFlow(t))
      /\ \A c \in Id : Passed(c)' <=> Passed(c)
      /\ \A c : Made(c)' = Made(c)
  BY <1>1, <1>2, AltersNone, Altered
<1>4. RunTells'
  BY <1>1, <1>3 DEF GatesOK, RunTells
<1>5. TopPassed'
  <2> SUFFICES ASSUME NEW t \in Id, t = top, IsFlow(t)
               PROVE  /\ Children(t)' = Children(t) /\ \A c \in Children(t) : c \in Id
    BY <1>1, <1>3 DEF GatesOK, TopPassed
  <2> QED BY <1>3 DEF Children
<1> QED BY <1>3, <1>4, <1>5 DEF GatesOK

LEMMA StepGates ==
  ASSUME Whole, FlowsTaken, PlaceTaken, GatesOK, [Next]_vars, "db" \notin Faults
  PROVE  GatesOK'
<1>0. ~ DbFails /\ at # "rejected"
  BY DEF DbFails, PlaceTaken
<1>1. CASE Environment
  BY <1>0, <1>1, JoinsGates, ReviewGates, ProposeGates, AwayGates, StaysGates DEF Environment
<1>2. CASE Serve
  BY <1>0, <1>2, JoinsGates, ReturnsGates, TakesGates, RunGates, AwayGates, StaysGates
  DEF Serve, ScheduleStartFails, StepStartFails, StepsOverFails, StepReturnFails, StepRaiseFails,
      FlowResumeFails, OriginalDoneOnly
<1>3. CASE Scheduling
  BY <1>0, <1>2, <1>3, RunGates, StaysGates DEF Scheduling, TickThrows
<1> QED BY <1>1, <1>3, StaysGates DEF Next

LEMMA InitGates == Init => GatesOK
<1> SUFFICES ASSUME Init PROVE GatesOK
  OBVIOUS
<1>1. Id = {} /\ proposed = {} /\ at = "pick" /\ top = 0
  BY DEF Init, Id
<1> QED BY <1>1 DEF GatesOK, GateRows, RunTells, TopPassed, GateHolds, Running

\* An approval gate holds (workflow-executor.ts, processAwaitingApprovalTasks): a workflow
\* has gone past a gated step, to a later step or to its end, only if every proposal of that
\* step's run has been reviewed, wherever agents fail, a tick is cut off or actions are put
\* to review again, as long as the queries of the gateway succeed (a run whose row cannot be
\* updated passes its gate).
THEOREM GatedSteps == ASSUME "db" \notin Faults PROVE Spec => []GateHolds
<1>1. GatesOK => GateHolds
  BY DEF GatesOK, GateRows
<1>2. Whole /\ FlowsTaken /\ PlaceTaken /\ GatesOK /\ [Next]_vars =>
        Whole' /\ FlowsTaken' /\ PlaceTaken' /\ GatesOK'
  BY StepWhole, RanGrows, StepTouches, FlowsStay, StepPlaceTaken, StepGates DEF Whole
<1> QED BY <1>1, <1>2, InitWhole, InitTaken, InitGates, PTL DEF Spec

-----------------------------------------------------------------------------
(***************************************************************************)
(* A task is resumed once: its first child stops the waiting.               *)
(***************************************************************************)
ResumeOK ==
  \A t \in Id : tasks[t].kind = "schedule" =>
     \/ Children(t) = {}
     \/ /\ tasks[t].status = "COMPLETED" \/ (top = t /\ at = "child")
        /\ \E c \in Id : Children(t) = {c}

\* A tick leaves a resume it has begun only by ending the task.
LEMMA ChildOn ==
  ASSUME [Next]_vars, at = "child", "db" \notin Faults, "crash" \notin Faults
  PROVE  \/ UNCHANGED <<top, at>>
         \/ OriginalDone
BY DEF Next, vars, scheduler, Environment, Trigger, ComesDue, Resolve, Retry, Propose, Crash,
   Scheduling, RunReturns, Tick, PhaseOver, TickThrows, DbFails, Run, RunBegins, RunPrepared,
   RunUnprepared, RunThrows, RunAnswers, DistillFails, Serve, ScheduleStarts, ScheduleStartFails,
   ScheduleAdvances, FlowUnknown, FlowStarts, StillWaiting, Resolved, Take, StepStarts,
   StepStartFails, StepsOver, StepsOverFails, StepPauses, StepReturns, StepReturnFails,
   StepRaises, StepRaiseFails, Revert, ResumeFlow, FlowResumes, FlowResumeFails, ResumeTask,
   OriginalDoneOnly, TaskResumed

\* The row that is added under a schedule's is the one the resume runs for.
LEMMA ChildAdded ==
  ASSUME Whole, [Next]_vars, NEW kind, NEW parent, NEW i, Joins(kind, parent, i),
         parent \in Id, tasks[parent].kind = "schedule"
  PROVE  at = "resolved" /\ top = parent /\ at' = "child" /\ top' = top
<1> USE DEF Whole
<1>1. at = "resolved" /\ top = parent
  BY DEF Joins, Inv, PlaceOK, IsFlow, TypeOK, Id
<1>2. tasks' # tasks
  BY Inserted DEF Joins, RowAdded, Inv
<1>3. /\ \A k \in {"flow", "unknown"} : ~ Trigger(k)
  <2>1. ASSUME NEW k \in {"flow", "unknown"}, Trigger(k) PROVE FALSE
    <3>1. tasks'[Len(tasks) + 1].parent = 0
      BY <2>1, AddedRow, Inserted DEF RowAdded, Inv
    <3>2. tasks'[Len(tasks) + 1].parent = parent
      BY Inserted DEF Joins, RowAdded, Inv
    <3> QED BY <3>1, <3>2 DEF Inv, TypeOK, Id
  <2> QED BY <2>1
<1>4. ResumeTask \/ ResumeFlow
  BY <1>1, <1>2, <1>3 DEF Next, vars, Environment, ComesDue, Resolve, Retry, Propose,
   Crash, Stop, Scheduling, RunReturns, Tick, PhaseOver, TickThrows, Run, RunBegins,
   RunPrepared, RunUnprepared, RunThrows, RunAnswers, DistillFails, Serve, ScheduleStarts,
   ScheduleStartFails, ScheduleAdvances, FlowUnknown, FlowStarts, StillWaiting, Resolved, Take,
   StepStarts, StepStartFails, StepsOver, StepsOverFails, StepPauses, StepReturns,
   StepReturnFails, StepRaises, StepRaiseFails, Revert, FlowResumes, FlowResumeFails,
   OriginalDone, OriginalDoneOnly, TaskResumed
<1> QED BY <1>1, <1>4 DEF ResumeTask, ResumeFlow, IsFlow

LEMMA StepResumes ==
  ASSUME Whole, ResumeOK, [Next]_vars, "db" \notin Faults, "crash" \notin Faults
  PROVE  ResumeOK'
<1>1. ASSUME NEW x, NEW s, Touches(x, s) PROVE ResumeOK'
  <2> SUFFICES ASSUME NEW t \in Id, tasks[t].kind = "schedule"
               PROVE  \/ Children(t)' = {}
                      \/ /\ tasks'[t].status = "COMPLETED" \/ (top' = t /\ at' = "child")
                         /\ \E c \in Id' : Children(t)' = {c}
    BY <1>1 DEF Touches, Only, ResumeOK
  <2>1. Children(t)' = Children(t) /\ Id' = Id
    <3>1. Only(x, s) /\ ran \subseteq ran'
      BY <1>1, RanGrows DEF Touches
    <3>2. Carries(t)
      BY <3>1, TouchCarries
    <3> QED BY <3>1, <3>2 DEF Only, Carries
  <2>2. CASE Children(t) = {}
    BY <2>1, <2>2
  <2>3. CASE tasks[t].status = "COMPLETED"
    BY <2>1, <2>3, <1>1 DEF Touches, Only, DbFails, ResumeOK
  <2>4. CASE top = t /\ at = "child" /\ \E c \in Id : Children(t) = {c}
    <3>1. CASE OriginalDone
      <4>1. tasks'[t].status = "COMPLETED"
        BY <2>4, <3>1, OnlySet DEF OriginalDone, AfterResume, Only, Whole, Inv, TaskStatus
      <4> QED BY <2>1, <2>4, <4>1
    <3> QED BY <2>1, <2>4, <3>1, ChildOn
  <2> QED BY <2>2, <2>3, <2>4 DEF ResumeOK
<1>2. ASSUME NEW kind, NEW parent, NEW i, Joins(kind, parent, i) PROVE ResumeOK'
  <2>1. PICK n : n = Len(tasks) + 1
    OBVIOUS
  <2>2. /\ n \notin Id /\ n # 0 /\ Id' = Id \cup {n}
        /\ tasks'[n].kind = kind /\ \A t \in Id : tasks'[t] = tasks[t]
        /\ Children(n) = {}
        /\ \A t : t # parent => Carries(t)
        /\ Children(parent)' = Children(parent) \cup {n}
    BY <1>2, <2>1, RanGrows, JoinCarries DEF Joins
  <2>3. ASSUME NEW t \in Id, tasks[t].kind = "schedule", t = parent
        PROVE  top' = t /\ at' = "child" /\ Children(t)' = {n}
    <3>1. at = "resolved" /\ top = t /\ at' = "child" /\ top' = top
      BY <1>2, <2>3, ChildAdded
    <3>2. tasks[t].status = "AWAITING_APPROVAL"
      BY <3>1 DEF Whole, Steady, ServedOK
    <3>3. Children(t) = {}
      BY <2>3, <3>1, <3>2 DEF ResumeOK
    <3> QED BY <2>2, <2>3, <3>1, <3>3
  <2>4. ASSUME NEW t \in Id, tasks[t].kind = "schedule", t # parent
        PROVE  \/ Children(t)' = {}
               \/ /\ tasks'[t].status = "COMPLETED" \/ (top' = t /\ at' = "child")
                  /\ \E c \in Id' : Children(t)' = {c}
    <3>1. Children(t)' = Children(t) /\ tasks'[t] = tasks[t]
      BY <2>2, <2>4 DEF Carries
    <3>2. at = "child" => at' = "child" /\ top' = top
      BY <1>2, <2>1, <2>2, ChildOn DEF OriginalDone, SetStatus, Id
    <3> QED BY <2>2, <2>4, <3>1, <3>2 DEF ResumeOK
  <2>5. kind = "schedule" => Children(n)' = {}
    <3>1. kind = "schedule" => parent # n
      BY <1>2, <2>2 DEF Joins
    <3> QED BY <2>2, <3>1 DEF Carries
  <2> QED BY <2>2, <2>3, <2>4, <2>5 DEF ResumeOK
<1> QED BY <1>1, <1>2, StepTouches DEF Whole, Touched

LEMMA InitResumes == Init => ResumeOK
BY DEF Init, ResumeOK, Id

LEMMA OnceResumed ==
  ASSUME Whole, ResumeOK
  PROVE  ResumedOnce
<1> SUFFICES ASSUME NEW t \in Id
             PROVE  /\ Cardinality({c \in Children(t) : tasks[c].kind = "resume"}) <= 1
                    /\ tasks[t].kind = "schedule" /\ Children(t) # {}
                         => tasks[t].status = "COMPLETED" \/ (top = t /\ at = "child")
  BY DEF ResumedOnce
<1>1. tasks[t].kind = "schedule" /\ Children(t) # {}
        => tasks[t].status = "COMPLETED" \/ (top = t /\ at = "child")
  BY DEF ResumeOK
<1> DEFINE R == {c \in Children(t) : tasks[c].kind = "resume"}
<1>2. R = {} \/ \E c : R = {c}
  <2>1. CASE tasks[t].kind = "schedule"
    BY <2>1 DEF ResumeOK
  <2>2. CASE tasks[t].kind # "schedule"
    <3>1. ASSUME NEW c \in R PROVE FALSE
      <4>1. c \in Id /\ tasks[c].parent = t /\ tasks[c].kind = "resume"
        BY <3>1 DEF Children
      <4> QED BY <2>2, <4>1 DEF Whole, Kinds
    <3> QED BY <3>1
  <2> QED BY <2>1, <2>2
<1>3. Cardinality(R) <= 1
  <2> HIDE DEF R
  <2>1. CASE R = {}
    <3>1. Cardinality(R) = 0
      BY <2>1, FS_EmptySet
    <3> QED BY <3>1
  <2>2. ASSUME NEW c, R = {c} PROVE Cardinality(R) <= 1
    <3>1. Cardinality({c}) = 1
      BY FS_Singleton
    <3> QED BY <2>2, <3>1
  <2> QED BY <1>2, <2>1, <2>2
<1> QED BY <1>1, <1>3

\* A task is resumed once, and it is COMPLETED before the agent goes on for it, whatever
\* agents fail and whichever actions are put to review again, as long as the queries of the
\* gateway succeed and it does not stop between creating the resume and ending the task
\* (processAwaitingApprovalTasks).
THEOREM OneResume == ASSUME "db" \notin Faults, "crash" \notin Faults PROVE Spec => []ResumedOnce
<1>1. Whole /\ ResumeOK => ResumedOnce
  BY OnceResumed
<1>2. Whole /\ ResumeOK /\ [Next]_vars => Whole' /\ ResumeOK'
  BY StepWhole, StepResumes
<1> QED BY <1>1, <1>2, InitWhole, InitResumes, PTL DEF Spec
=============================================================================
