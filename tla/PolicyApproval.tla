--------------------------- MODULE PolicyApproval ---------------------------
(***************************************************************************)
(* ApprovalWorkflowService (apps/server/src/policies): a policy document is *)
(* approved in the ordered steps of a workflow, each of which a reviewer    *)
(* approves, rejects or hands on; and the job of PolicySchedulerService     *)
(* that escalates workflows with an overdue step.  One document, whose      *)
(* status other services write as well, without any workflow.  The client   *)
(* posts the orders of a workflow's steps, and the service stores any: with *)
(* gaps, several of one order, or none of order 1.  A step is a row         *)
(* <<workflow, stepOrder, copy>>, the copies telling apart the steps of one *)
(* order, those posted and those added by delegations.                      *)
(* The transactions of the service write the step, then the workflow, then  *)
(* the document, all by id, so two of them are never inside one another.    *)
(***************************************************************************)
EXTENDS Requests, Naturals, FiniteSets

CONSTANTS
  Workflow,     \* the workflows that can be started for the document
  Steps,        \* bound: the highest order that is posted
  MaxTwins,     \* bound: how many more steps of the same order may be posted
  MaxDelegations, \* bound: how many steps may be delegated
  NoStep        \* find() returned undefined

ASSUME StepsAssumption == 
  Steps \in Nat \ {0} /\ MaxTwins \in Nat /\ MaxDelegations \in Nat

Row == Workflow \X (1 .. Steps) \X (0 .. (MaxTwins + MaxDelegations))
ASSUME NoStepAssumption == NoStep \notin Row

VARIABLES
  document,     \* DocumentStatus of the document
  workflow,     \* Workflow -> WorkflowStatus, "ABSENT" before it is created
  current,      \* Workflow -> currentStepOrder
  step,         \* Row -> ApprovalStepStatus, "ABSENT" for no such row
  overdue,      \* workflows the stale-approval job found and has yet to escalate
  posted,       \* (history) Workflow -> the steps it was created with
  signed,       \* (history) <<w, o>>: a step of order o of w has been approved
  handed,       \* (history) Workflow -> which of its steps were delegated
  dropped,      \* (history) workflows with a delegation that broke off half-way
  direct        \* (history) the document's status is not one a workflow gave it

rows == <<document, workflow, current, step>>
history == <<posted, signed, handed, dropped, direct>>
vars == <<rows, overdue, history, requests>>

Wf(s) == s[1]
Order(s) == s[2]

\* DocumentStatus; the others are told apart from these only.
DocumentStatus == {"DRAFT", "PENDING_APPROVAL", "APPROVED", "OTHER"}
Active == {"PENDING", "IN_PROGRESS"}
Status == Active \cup {"ABSENT", "APPROVED", "REJECTED", "CANCELLED", "ESCALATED"}
StepStatus == {"ABSENT", "PENDING", "IN_REVIEW", "APPROVED", "REJECTED", "DELEGATED"}
Handed == {"only in review", "also decided", "also pending"}

Request ==
  [op : {"idle", "create"}]
    \cup [op : {"decide"}, step : Row, next : Row \cup {NoStep}]
    \cup [op : {"delegate", "clone"}, step : Row]
    \cup [op : {"cancel"}, workflow : Workflow]

TypeOK ==
  /\ document \in DocumentStatus
  /\ workflow \in [Workflow -> Status]
  /\ current \in [Workflow -> 1 .. Steps]
  /\ step \in [Row -> StepStatus]
  /\ overdue \subseteq Workflow
  /\ posted \in [Workflow -> SUBSET Row]
  /\ signed \subseteq Workflow \X (1 .. Steps)
  /\ handed \in [Workflow -> Handed]
  /\ dropped \subseteq Workflow
  /\ direct \in BOOLEAN
  /\ request \in [Handler -> Request]
  /\ overlapped \in BOOLEAN

Init ==
  /\ document = "DRAFT"
  /\ workflow = [w \in Workflow |-> "ABSENT"]
  /\ current = [w \in Workflow |-> 1]
  /\ step = [s \in Row |-> "ABSENT"]
  /\ overdue = {}
  /\ posted = [w \in Workflow |-> {}]
  /\ signed = {}
  /\ handed = [w \in Workflow |-> "only in review"]
  /\ dropped = {}
  /\ direct = TRUE
  /\ RequestsInit

(***************************************************************************)
(* createWorkflow: the check for an active workflow, then the transaction.  *)
(* Copies are numbered from 0.                                              *)
(***************************************************************************)
HasActive == \E w \in Workflow : workflow[w] \in Active

CreateReads(h) ==
  /\ ~HasActive
  /\ Reads(h, [op |-> "create"])
  /\ UNCHANGED <<rows, overdue, history>>

\* Mutants: every step, or none, is in review from the start.
InitialAll(s) == "IN_REVIEW"
InitialNone(s) == "PENDING"
Initial(s) == IF Order(s) = 1 THEN "IN_REVIEW" ELSE "PENDING"

StepsOf(w) == {s \in Row : Wf(s) = w /\ s[3] <= MaxTwins}
Numbered(S) == \A s \in S : \A c \in 0 .. s[3] : <<Wf(s), Order(s), c>> \in S

Create(h, w, S) ==
  /\ Serves(h, "create")
  /\ workflow[w] = "ABSENT"
  /\ S # {} /\ Numbered(S)
  /\ workflow' = [workflow EXCEPT ![w] = "IN_PROGRESS"]
  /\ step' = [s \in Row |->
       IF s \in S THEN Initial(s) ELSE step[s]]
  /\ document' = "PENDING_APPROVAL" /\ direct' = FALSE
  /\ posted' = [posted EXCEPT ![w] = S]
  /\ Answers(h)
  /\ UNCHANGED <<current, overdue, signed, handed, dropped>>

(***************************************************************************)
(* The document's status is written without a workflow: updateStatus (the   *)
(* status endpoint and the executors SUBMIT_POLICY_REVIEW, APPROVE_POLICY,  *)
(* PUBLISH_POLICY and RETIRE_POLICY), archiving, and the reviews, versions  *)
(* and change requests of the document.                                     *)
(***************************************************************************)
UpdateStatus(status) ==
  /\ document' = status /\ direct' = TRUE
  /\ AtOnce
  /\ UNCHANGED <<workflow, current, step, overdue, posted, signed, handed, dropped>>

(***************************************************************************)
(* processStep: the step is read with the steps of its workflow; the next   *)
(* one is looked up in what was read.  Rows of equal order come in any      *)
(* order.  The decision is used only when it is written, so it is chosen    *)
(* there.  APPROVE_WITH_CHANGES is an approval; DELEGATE sent here does     *)
(* what REQUEST_CHANGES does: it writes the status that was read.           *)
(***************************************************************************)
\* Mutant: any later step may be the next one.
FollowingAny(s) ==
  {t \in Row : Wf(t) = Wf(s) /\ Order(t) > Order(s) /\ step[t] # "ABSENT"}
Following(s) ==
  {t \in Row : Wf(t) = Wf(s) /\ Order(t) = Order(s) + 1 /\ step[t] # "ABSENT"}

DecisionReads(h, s) ==
  /\ step[s] = "IN_REVIEW"
  /\ \E next \in IF Following(s) = {} THEN {NoStep} ELSE Following(s) :
       Reads(h, [op |-> "decide", step |-> s, next |-> next])
  /\ UNCHANGED <<rows, overdue, history>>

Decides(h) ==
  /\ Serves(h, "decide")
  /\ Answers(h)
  /\ UNCHANGED <<overdue, posted, handed, dropped>>

Sign(s) == signed' = signed \cup {<<Wf(s), Order(s)>>}

Advance(h) ==
  LET s == request[h].step
      next == request[h].next
  IN /\ Decides(h)
     /\ next # NoStep
     /\ step' = [step EXCEPT ![s] = "APPROVED", ![next] = "IN_REVIEW"]
     /\ current' = [current EXCEPT ![Wf(s)] = Order(next)]
     /\ Sign(s)
     /\ UNCHANGED <<document, direct, workflow>>

Finish(h) ==
  LET s == request[h].step
  IN /\ Decides(h)
     /\ request[h].next = NoStep
     /\ step' = [step EXCEPT ![s] = "APPROVED"]
     /\ workflow' = [workflow EXCEPT ![Wf(s)] = "APPROVED"]
     /\ document' = "APPROVED" /\ direct' = FALSE
     /\ Sign(s)
     /\ UNCHANGED current

Reject(h) ==
  LET s == request[h].step
  IN /\ Decides(h)
     /\ step' = [step EXCEPT ![s] = "REJECTED"]
     /\ workflow' = [workflow EXCEPT ![Wf(s)] = "REJECTED"]
     /\ document' = "DRAFT" /\ direct' = FALSE
     /\ UNCHANGED <<current, signed>>

RequestChanges(h) ==
  /\ Decides(h)
  /\ step' = [step EXCEPT ![request[h].step] = "IN_REVIEW"]
  /\ UNCHANGED <<document, direct, workflow, current, signed>>

(***************************************************************************)
(* delegateStep: two queries, and no look at any status.                    *)
(***************************************************************************)
Clones == {t \in Row : step[t] # "ABSENT" /\ t \notin posted[Wf(t)]}
Delegating == {h \in Handler : request[h].op \in {"delegate", "clone"}}

HandedOn(w, status) ==
  IF status = "IN_REVIEW" \/ handed[w] = "also pending" THEN handed[w]
  ELSE IF status = "PENDING" THEN "also pending" ELSE "also decided"

DelegationReads(h, s) ==
  /\ step[s] # "ABSENT"
  /\ Cardinality(Clones) + Cardinality(Delegating) < MaxDelegations
  /\ Reads(h, [op |-> "delegate", step |-> s])
  /\ UNCHANGED <<rows, overdue, history>>

Delegate(h) ==
  LET s == request[h].step
  IN /\ Serves(h, "delegate")
     /\ step' = [step EXCEPT ![s] = "DELEGATED"]
     /\ handed' = [handed EXCEPT ![Wf(s)] = HandedOn(Wf(s), step[s])]
     /\ Continues(h, [op |-> "clone", step |-> s])
     /\ UNCHANGED <<document, direct, workflow, current, overdue, posted, signed, dropped>>

Clone(h, t) ==
  /\ Serves(h, "clone")
  /\ step[t] = "ABSENT"
  /\ Wf(t) = Wf(request[h].step) /\ Order(t) = Order(request[h].step)
  /\ step' = [step EXCEPT ![t] = "IN_REVIEW"]
  /\ Answers(h)
  /\ UNCHANGED <<document, workflow, current, overdue, history>>

(***************************************************************************)
(* cancelWorkflow; the steps keep their status.                             *)
(***************************************************************************)
CancelReads(h, w) ==
  /\ workflow[w] \in Active
  /\ Reads(h, [op |-> "cancel", workflow |-> w])
  /\ UNCHANGED <<rows, overdue, history>>

Cancel(h) ==
  /\ Serves(h, "cancel")
  /\ workflow' = [workflow EXCEPT ![request[h].workflow] = "CANCELLED"]
  /\ document' = "DRAFT" /\ direct' = FALSE
  /\ Answers(h)
  /\ UNCHANGED <<current, step, overdue, posted, signed, handed, dropped>>

(***************************************************************************)
(* The stale-approval job reads the overdue steps with their workflows and  *)
(* escalates one workflow after the other.  Which steps are overdue is any  *)
(* choice among those in review.                                            *)
(***************************************************************************)
InReview(w) == {s \in Row : Wf(s) = w /\ step[s] = "IN_REVIEW"}

FindStale ==
  /\ overdue = {}
  /\ \E found \in SUBSET {w \in Workflow : InReview(w) # {} /\ workflow[w] # "ESCALATED"} :
       found # {} /\ overdue' = found
  /\ UNCHANGED <<rows, history, requests>>

Escalate(w) ==
  /\ w \in overdue
  /\ workflow' = [workflow EXCEPT ![w] = "ESCALATED"]
  /\ overdue' = overdue \ {w}
  /\ UNCHANGED <<document, current, step, history, requests>>

\* The update fails: the job goes on with the next one.
EscalationFails(w) ==
  /\ w \in overdue
  /\ overdue' = overdue \ {w}
  /\ UNCHANGED <<rows, history, requests>>

\* A query rejects or the process stops: the request goes no further.
BreaksOff(h) ==
  /\ request[h] # Idle
  /\ dropped' = IF Serves(h, "clone") THEN dropped \cup {Wf(request[h].step)} ELSE dropped
  /\ Answers(h)
  /\ UNCHANGED <<rows, overdue, posted, signed, handed, direct>>

Next ==
  \/ \E h \in Handler :
       \/ CreateReads(h) \/ \E w \in Workflow : \E S \in SUBSET StepsOf(w) : Create(h, w, S)
       \/ \E s \in Row : DecisionReads(h, s)
       \/ Advance(h) \/ Finish(h) \/ Reject(h) \/ RequestChanges(h)
       \/ \E s \in Row : DelegationReads(h, s)
       \/ Delegate(h) \/ \E t \in Row : Clone(h, t)
       \/ \E w \in Workflow : CancelReads(h, w)
       \/ Cancel(h) \/ BreaksOff(h)
  \/ \E status \in DocumentStatus : UpdateStatus(status)
  \/ FindStale \/ \E w \in Workflow : Escalate(w) \/ EscalationFails(w)

Spec == Init /\ [][Next]_vars

-----------------------------------------------------------------------------
(***************************************************************************)
(* Properties.                                                              *)
(***************************************************************************)
Orders(w) == {Order(s) : s \in posted[w]}

\* Every order of workflow w that leads on from order 1 without a gap has been signed.
\* Delegating a step that is still PENDING makes the workflow jump to it.
FullySigned(w) ==
  \/ handed[w] = "also pending"
  \/ /\ 1 \in Orders(w)
     /\ \A o \in 1 .. Steps : 1 .. o \subseteq Orders(w) => <<w, o>> \in signed

\* A workflow approves its document only when a step of each order up to the first gap in
\* those it was created with has been approved, whatever requests overlap, unless a step
\* that was still PENDING was delegated.  (What comes after a gap is never asked for, and
\* a status written without a workflow needs no signature: the code enforces neither.)
SignedThroughout ==
  /\ document = "APPROVED" /\ ~direct => \E w \in Workflow : FullySigned(w)
  /\ \A w \in Workflow : workflow[w] = "APPROVED" => FullySigned(w)

\* A workflow in progress that was created with a step of order 1 can be decided: one of
\* its steps is in review, or a delegation is about to create one.  A delegation that
\* breaks off between its two queries is the exception: it leaves nobody to review.
Decidable ==
  \A w \in Workflow \ dropped :
    workflow[w] = "IN_PROGRESS" /\ 1 \in Orders(w) =>
      \/ InReview(w) # {}
      \/ \E h \in Handler : Serves(h, "clone") /\ Wf(request[h].step) = w

OneFirst(w) == \E s \in posted[w] : \A t \in posted[w] : Order(t) = 1 <=> t = s

\* When requests come one after the other and only steps in review are delegated, a
\* workflow created with one step of order 1 is, while in progress, where it says it is:
\* the only step in review is one of order currentStepOrder, and exactly the orders
\* before it are signed.
OneInReview ==
  \A w \in Workflow :
    workflow[w] = "IN_PROGRESS" /\ OneFirst(w) /\ ~overlapped /\ Quiet
      /\ handed[w] = "only in review" /\ w \notin dropped
    => /\ \E s \in Row : InReview(w) = {s} /\ Order(s) = current[w]
       /\ \A o \in 1 .. Steps : <<w, o>> \in signed <=> o < current[w]
=============================================================================
