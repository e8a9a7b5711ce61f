--------------------------- MODULE ChangeApproval ---------------------------
(***************************************************************************)
(* ChangeApprovalService (apps/server/src/itsm) for one change, with submit *)
(* and update of ChangeService: approvers are asked, each approves or       *)
(* rejects, and each answer may settle the change; an update writes any     *)
(* status whatever they answered.  A row of ChangeApproval belongs to an    *)
(* approver (@@unique([changeId, approverId])), so an approver can be asked *)
(* once.                                                                    *)
(***************************************************************************)
EXTENDS Requests, FiniteSets

CONSTANTS
  Approver,     \* the users that may be asked
  Required      \* those of them who are asked with isRequired

VARIABLES
  change,       \* ChangeStatus of the change
  approval,     \* Approver -> ApprovalStatus of its row, "ABSENT" for no row
  updated,      \* (history) the change has the status an update wrote
  asked,        \* (history) rows of required approvers came with the last asking
  cut           \* (history) a request broke off after its first write

rows == <<change, approval>>
history == <<updated, asked, cut>>
vars == <<rows, history, requests>>

\* ChangeStatus; the others are told apart from these only.
ChangeStatus == {"DRAFTED", "SUBMITTED", "PENDING_APPROVAL", "APPROVED", "REJECTED", "OTHER"}

Request ==
  [op : {"idle", "submit"}]
    \cup [op : {"found", "ask"}, of : SUBSET Approver]
    \cup [op : {"approve", "reject", "count", "rejects", "approves"}, of : Approver]

TypeOK ==
  /\ change \in ChangeStatus
  /\ approval \in [Approver -> {"ABSENT", "PENDING", "APPROVED", "REJECTED"}]
  /\ updated \in BOOLEAN /\ asked \in BOOLEAN /\ cut \in BOOLEAN
  /\ request \in [Handler -> Request]
  /\ overlapped \in BOOLEAN

Init ==
  /\ change = "DRAFTED"
  /\ approval = [a \in Approver |-> "ABSENT"]
  /\ updated = FALSE
  /\ asked = FALSE
  /\ cut = FALSE
  /\ RequestsInit

\* A request writes the status of the change.
Becomes(status) == change' = status /\ updated' = FALSE

\* ChangeService.update, also for the executors UPDATE_CHANGE, APPROVE_CHANGE,
\* REJECT_CHANGE, IMPLEMENT_CHANGE, COMPLETE_CHANGE and CANCEL_CHANGE: by id, and no look
\* at any status or approval.
Update(status) ==
  /\ change' = status
  /\ updated' = TRUE
  /\ AtOnce
  /\ UNCHANGED <<approval, asked, cut>>

\* ChangeService.submit: a check, then an update by id.
SubmitReads(h) ==
  /\ change = "DRAFTED"
  /\ Reads(h, [op |-> "submit"])
  /\ UNCHANGED <<rows, history>>

Submit(h) ==
  /\ Serves(h, "submit")
  /\ Becomes("SUBMITTED")
  /\ Answers(h)
  /\ UNCHANGED <<approval, asked, cut>>

(***************************************************************************)
(* requestApproval: whatever the status, the change becomes                 *)
(* PENDING_APPROVAL; then the rows are created, all or none.                *)
(***************************************************************************)
AskReads(h, A) ==
  /\ Reads(h, [op |-> "found", of |-> A])
  /\ UNCHANGED <<rows, history>>

Pend(h) ==
  /\ Serves(h, "found")
  /\ Becomes("PENDING_APPROVAL")
  /\ asked' = FALSE
  /\ Continues(h, [op |-> "ask", of |-> request[h].of])
  /\ UNCHANGED <<approval, cut>>

Ask(h) ==
  LET A == request[h].of
  IN /\ Serves(h, "ask")
     /\ \A a \in A : approval[a] = "ABSENT"
     /\ approval' = [a \in Approver |-> IF a \in A THEN "PENDING" ELSE approval[a]]
     /\ asked' = (asked \/ A \cap Required # {})
     /\ Answers(h)
     /\ UNCHANGED <<change, updated, cut>>

AskRefused(h) ==        \* the unique constraint
  /\ Serves(h, "ask")
  /\ \E a \in request[h].of : approval[a] # "ABSENT"
  /\ Answers(h)
  /\ UNCHANGED <<rows, history>>

(***************************************************************************)
(* approve: check, update of the row, count, update of the change.          *)
(***************************************************************************)
Goes(h, op) == Continues(h, [op |-> op, of |-> request[h].of])

ApproveReads(h, a) ==
  /\ approval[a] = "PENDING"
  /\ Reads(h, [op |-> "approve", of |-> a])
  /\ UNCHANGED <<rows, history>>

Approve(h) ==
  /\ Serves(h, "approve")
  /\ approval' = [approval EXCEPT ![request[h].of] = "APPROVED"]
  /\ Goes(h, "count")
  /\ UNCHANGED <<change, history>>

\* Mutant: the others who were asked count as well.
PendingOfAll == {a \in Approver : approval[a] = "PENDING"}
PendingRequired == {a \in Required : approval[a] = "PENDING"}

\* Mutant: one approval is enough.
CountsNothing(h) ==
  /\ Serves(h, "count")
  /\ Goes(h, "approves")
  /\ UNCHANGED <<rows, history>>

Count(h) ==
  /\ Serves(h, "count")
  /\ IF PendingRequired = {} THEN Goes(h, "approves") ELSE Answers(h)
  /\ UNCHANGED <<rows, history>>

ApproveChange(h) ==
  /\ Serves(h, "approves")
  /\ Becomes("APPROVED")
  /\ Answers(h)
  /\ UNCHANGED <<approval, asked, cut>>

(***************************************************************************)
(* reject: check, update of the row, and of the change if it was required.  *)
(***************************************************************************)
RejectReads(h, a) ==
  /\ approval[a] = "PENDING"
  /\ Reads(h, [op |-> "reject", of |-> a])
  /\ UNCHANGED <<rows, history>>

Reject(h) ==
  LET a == request[h].of
  IN /\ Serves(h, "reject")
     /\ approval' = [approval EXCEPT ![a] = "REJECTED"]
     /\ IF a \in Required THEN Goes(h, "rejects") ELSE Answers(h)
     /\ UNCHANGED <<change, history>>

RejectChange(h) ==
  /\ Serves(h, "rejects")
  /\ Becomes("REJECTED")
  /\ Answers(h)
  /\ UNCHANGED <<approval, asked, cut>>

\* A query rejects or the process stops.
BreaksOff(h) ==
  /\ request[h] # Idle
  /\ cut' = (cut \/ request[h].op \in {"count", "approves", "rejects"})
  /\ Answers(h)
  /\ UNCHANGED <<rows, updated, asked>>

Next ==
  \/ \E h \in Handler :
       \/ SubmitReads(h) \/ Submit(h)
       \/ \E A \in SUBSET Approver : AskReads(h, A)
       \/ Pend(h) \/ Ask(h) \/ AskRefused(h)
       \/ \E a \in Approver : ApproveReads(h, a) \/ RejectReads(h, a)
       \/ Approve(h) \/ Count(h) \/ ApproveChange(h)
       \/ Reject(h) \/ RejectChange(h)
       \/ BreaksOff(h)
  \/ \E status \in ChangeStatus : Update(status)

Spec == Init /\ [][Next]_vars

-----------------------------------------------------------------------------
(***************************************************************************)
(* Properties.                                                              *)
(***************************************************************************)
\* A change does not hang: as long as it is PENDING_APPROVAL and required approvers have
\* been asked, one of them has yet to answer, in whatever order the answers of several
\* approvers overlap with each other and with updates.  (An update that writes
\* PENDING_APPROVAL itself, a request that broke off after its first write, or an asking
\* that created no row, may leave it hanging.)
NeverHangs ==
  Quiet /\ change = "PENDING_APPROVAL" /\ asked /\ ~updated /\ ~cut => PendingRequired # {}

\* When requests come one after the other, a change has no required approver who has yet
\* to answer once it is APPROVED, unless an update wrote that: nothing asks it to wait.
ApprovedIsSettled ==
  Quiet /\ ~overlapped /\ change = "APPROVED" /\ ~updated => PendingRequired = {}

\* (Does not hold.)  The entry approve() writes to the history says "All required
\* approvals received": then no required approver has rejected a change that approve()
\* made APPROVED.  It counts only those who have not answered.
AllRequiredApproved ==
  ~overlapped /\ change = "APPROVED" /\ ~updated =>
    \A a \in Required : approval[a] # "REJECTED"
=============================================================================
