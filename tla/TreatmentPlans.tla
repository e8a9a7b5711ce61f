---------------------------- MODULE TreatmentPlans --------------------------
(***************************************************************************)
(* TreatmentPlanService (apps/server/src/risks): the treatment plans of one *)
(* risk, and the actions of one of them, FirstPlan, whose completed share   *)
(* is the plan's progress.  Only the handlers' state changes are kept; the  *)
(* scores and the tolerance check decide only whether a creation is         *)
(* refused.                                                                 *)
(***************************************************************************)
EXTENDS Requests, Naturals, FiniteSets

CONSTANTS
  Plan,
  FirstPlan,    \* the one of them whose actions are modelled
  Task          \* its actions

VARIABLES
  plan,         \* Plan -> TreatmentStatus, "ABSENT" for no row
  task,         \* Task -> "ABSENT", "OPEN" (any status but COMPLETED), "COMPLETED"
  progress,     \* progressPercentage of FirstPlan
  reopened,     \* (history) a plan that was closed became active again
  fresh         \* (history) nothing since the last recalculation concerns progress

rows == <<plan, task, progress>>
vars == <<rows, reopened, fresh, requests>>

Active == {"DRAFT", "PROPOSED", "APPROVED", "IN_PROGRESS"}
Closed == {"COMPLETED", "CANCELLED"}

TypeOK ==
  /\ plan \in [Plan -> Active \cup Closed \cup {"ABSENT"}]
  /\ task \in [Task -> {"ABSENT", "OPEN", "COMPLETED"}]
  /\ progress \in 0 .. 100
  /\ reopened \in BOOLEAN /\ fresh \in BOOLEAN
  /\ request \in [Handler ->
       [op : {"idle", "create", "recalculate"}] \cup [op : {"store"}, share : 0 .. 100]]
  /\ overlapped \in BOOLEAN

Init ==
  /\ plan = [p \in Plan |-> "ABSENT"]
  /\ task = [t \in Task |-> "ABSENT"]
  /\ progress = 0
  /\ reopened = FALSE
  /\ fresh = TRUE
  /\ RequestsInit

ActivePlans == {p \in Plan : plan[p] \in Active}
Existing == {t \in Task : task[t] # "ABSENT"}
\* Mutant: any action that exists counts as done.
CompletedOrOpen == {t \in Task : task[t] # "ABSENT"}
Completed == {t \in Task : task[t] = "COMPLETED"}

\* Math.round(completed / total * 100), half rounded up.
\* Mutant: the half is lost from the divisor.
RoundedDouble(done, total) == (200 * done + total) \div total
Rounded(done, total) == (200 * done + total) \div (2 * total)

(***************************************************************************)
(* create: the check for an active plan, then the row.                      *)
(***************************************************************************)
\* Mutant: no look at what the risk has already.
CreateReadsNothing(h) ==
  /\ Reads(h, [op |-> "create"])
  /\ UNCHANGED <<rows, reopened, fresh>>

CreateReads(h) ==
  /\ ActivePlans = {}
  /\ Reads(h, [op |-> "create"])
  /\ UNCHANGED <<rows, reopened, fresh>>

Create(h, p, s) ==
  /\ Serves(h, "create")
  /\ plan[p] = "ABSENT"
  /\ plan' = [plan EXCEPT ![p] = s]
  /\ progress' = IF p = FirstPlan THEN 0 ELSE progress
  /\ Answers(h)
  /\ UNCHANGED <<task, reopened, fresh>>

(***************************************************************************)
(* approve, updateProgress, update and delete write a plan by id, whatever  *)
(* its status is; its actions are deleted with it.                          *)
(***************************************************************************)
Reopens(p, s) == reopened' = (reopened \/ (plan[p] \in Closed /\ s \in Active))

SetStatus(p, s) ==
  /\ plan[p] # "ABSENT"
  /\ plan' = [plan EXCEPT ![p] = s]
  /\ Reopens(p, s)
  /\ AtOnce

Approve(p) == SetStatus(p, "APPROVED") /\ UNCHANGED <<task, progress, fresh>>

Update(p, s) ==
  /\ SetStatus(p, s)
  /\ progress' \in IF p = FirstPlan THEN {progress, 50} ELSE {progress}
  /\ fresh' = (fresh /\ progress' = progress)
  /\ UNCHANGED task

UpdateProgress(p, percent) ==
  /\ SetStatus(p, IF percent >= 100 THEN "COMPLETED" ELSE "IN_PROGRESS")
  /\ IF p = FirstPlan
     THEN progress' = percent /\ fresh' = FALSE
     ELSE UNCHANGED <<progress, fresh>>
  /\ UNCHANGED task

Delete(p) ==
  /\ plan[p] # "ABSENT"
  /\ plan' = [plan EXCEPT ![p] = "ABSENT"]
  /\ task' = [t \in Task |-> IF p = FirstPlan THEN "ABSENT" ELSE task[t]]
  /\ UNCHANGED <<progress, reopened, fresh>> /\ AtOnce

(***************************************************************************)
(* Actions.  updateAction and deleteAction write the action, read all of    *)
(* the plan's, and store the share; createAction only creates.              *)
(***************************************************************************)
CreateAction(t, s) ==
  /\ plan[FirstPlan] # "ABSENT" /\ task[t] = "ABSENT"
  /\ task' = [task EXCEPT ![t] = s]
  /\ fresh' = FALSE
  /\ UNCHANGED <<plan, progress, reopened>> /\ AtOnce

Rewrites(h, t, s) ==
  /\ task[t] # "ABSENT"
  /\ task' = [task EXCEPT ![t] = s]
  /\ fresh' = FALSE
  /\ Reads(h, [op |-> "recalculate"])
  /\ UNCHANGED <<plan, progress, reopened>>

UpdateAction(h, t, s) == Rewrites(h, t, s)
DeleteAction(h, t) == Rewrites(h, t, "ABSENT")

Recalculate(h) ==
  /\ Serves(h, "recalculate")
  /\ IF Existing = {}
     THEN Answers(h)
     ELSE Continues(h, [op |-> "store",
            share |-> Rounded(Cardinality(Completed), Cardinality(Existing))])
  /\ UNCHANGED <<rows, reopened, fresh>>

Store(h) ==
  /\ Serves(h, "store")
  /\ plan[FirstPlan] # "ABSENT"
  /\ progress' = request[h].share
  /\ fresh' = TRUE
  /\ Answers(h)
  /\ UNCHANGED <<plan, task, reopened>>

BreaksOff(h) ==
  /\ request[h] # Idle
  /\ Answers(h)
  /\ UNCHANGED <<rows, reopened, fresh>>

Next ==
  \/ \E p \in Plan :
       \/ Approve(p) \/ Delete(p) \/ UpdateProgress(p, 50) \/ UpdateProgress(p, 100)
       \/ \E s \in Active \cup Closed : Update(p, s)
  \/ \E t \in Task, s \in {"OPEN", "COMPLETED"} : CreateAction(t, s)
  \/ \E h \in Handler :
       \/ CreateReads(h)
       \/ \E p \in Plan, s \in Active \cup Closed : Create(h, p, s)
       \/ \E t \in Task, s \in {"OPEN", "COMPLETED"} : UpdateAction(h, t, s)
       \/ \E t \in Task : DeleteAction(h, t)
       \/ Recalculate(h) \/ Store(h) \/ BreaksOff(h)

Spec == Init /\ [][Next]_vars

-----------------------------------------------------------------------------
\* A risk has one active plan at most ("prevent duplicates"), as long as
\* creations do not overlap and no closed plan is approved or updated back.
OneActivePlan ==
  ~overlapped /\ ~reopened => Cardinality(ActivePlans) <= 1

\* The progress a recalculation stored is the share of the actions that are completed,
\* within half a percent, when no other request overlapped it.  Of fewer than 200 actions
\* it is 100 only if all are completed, 0 only if none is.
ProgressIsShare ==
  ~overlapped /\ fresh /\ Existing # {} =>
    LET done == Cardinality(Completed)
        total == Cardinality(Existing)
    IN /\ 2 * total * progress \in 200 * done - total .. 200 * done + total
       /\ total < 200 =>
            /\ progress = 100 <=> \A t \in Existing : task[t] = "COMPLETED"
            /\ progress = 0 <=> \A t \in Existing : task[t] = "OPEN"
=============================================================================
