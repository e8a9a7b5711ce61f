-------------------------- MODULE CorrectiveAction --------------------------
(***************************************************************************)
(* NonconformityService (apps/server/src/audits) for one nonconformity: its *)
(* status and its corrective action plan (CAP), which is drafted,           *)
(* submitted, approved or rejected.  Each step of the CAP workflow reads    *)
(* the row, checks it and updates it by id.                                 *)
(***************************************************************************)
EXTENDS Requests

CONSTANTS
  User,
  NoUser        \* null, not a user

VARIABLES
  status,       \* NCStatus
  severity,     \* NCSeverity: an OBSERVATION needs no CAP
  cap,          \* CAPStatus
  draftedBy, rejectedBy, approvedBy     \* capDraftedById, ...

row == <<status, severity, cap, draftedBy, rejectedBy, approvedBy>>
vars == <<row, requests>>

NCStatus == {"DRAFT", "OPEN", "IN_PROGRESS", "CLOSED"}
Severity == {"MAJOR", "OBSERVATION"}
CAPStatus ==
  {"NOT_DEFINED", "DRAFT", "PENDING_APPROVAL", "APPROVED", "REJECTED", "NOT_REQUIRED"}
CapStep == {"saveCapDraft", "submitCap", "approveCap", "rejectCap", "markCapNotRequired"}

TypeOK ==
  /\ status \in NCStatus /\ severity \in Severity /\ cap \in CAPStatus
  /\ {draftedBy, rejectedBy, approvedBy} \subseteq User \cup {NoUser}
  /\ request \in [Handler -> [op : {"idle"}] \cup [op : CapStep, by : User]]
  /\ overlapped \in BOOLEAN

\* A DRAFT is what the listener of test.failed creates.
Init ==
  /\ status \in {"DRAFT", "OPEN"}
  /\ severity \in Severity
  /\ cap = "NOT_DEFINED"
  /\ draftedBy = NoUser /\ rejectedBy = NoUser /\ approvedBy = NoUser
  /\ RequestsInit

\* update writes what it is given, the status and the severity included.
Update(s, v) ==
  /\ status' = s /\ severity' = v
  /\ UNCHANGED <<cap, draftedBy, rejectedBy, approvedBy>> /\ AtOnce

Close ==
  /\ status' = "CLOSED"
  /\ UNCHANGED <<severity, cap, draftedBy, rejectedBy, approvedBy>> /\ AtOnce

\* Mutant: whoever drafted the plan may approve it.
AllowedToDrafter(op, u) ==
  CASE op = "saveCapDraft" -> cap \in {"NOT_DEFINED", "DRAFT", "REJECTED"}
    [] op = "submitCap" -> cap = "DRAFT"
    [] op \in {"approveCap", "rejectCap"} -> cap = "PENDING_APPROVAL"
    [] op = "markCapNotRequired" -> severity = "OBSERVATION"

\* What the five handlers check in the row they read.
Allowed(op, u) ==
  CASE op = "saveCapDraft" -> cap \in {"NOT_DEFINED", "DRAFT", "REJECTED"}
    [] op = "submitCap" -> cap = "DRAFT"
    [] op = "approveCap" -> cap = "PENDING_APPROVAL" /\ draftedBy # u
    [] op = "rejectCap" -> cap = "PENDING_APPROVAL"
    [] op = "markCapNotRequired" -> severity = "OBSERVATION"

CapReads(h, op, u) ==
  /\ Allowed(op, u)
  /\ Reads(h, [op |-> op, by |-> u])
  /\ UNCHANGED row

Writes(h, op) == Serves(h, op) /\ Answers(h)

SaveCapDraft(h) ==
  /\ Writes(h, "saveCapDraft")
  /\ cap' = "DRAFT" /\ draftedBy' = request[h].by /\ rejectedBy' = NoUser
  /\ UNCHANGED <<status, severity, approvedBy>>

SubmitCapForApproval(h) ==
  /\ Writes(h, "submitCap")
  /\ cap' = "PENDING_APPROVAL"
  /\ UNCHANGED <<status, severity, draftedBy, rejectedBy, approvedBy>>

ApproveCap(h) ==
  /\ Writes(h, "approveCap")
  /\ cap' = "APPROVED" /\ approvedBy' = request[h].by /\ status' = "IN_PROGRESS"
  /\ UNCHANGED <<severity, draftedBy, rejectedBy>>

RejectCap(h) ==
  /\ Writes(h, "rejectCap")
  /\ cap' = "REJECTED" /\ rejectedBy' = request[h].by /\ approvedBy' = NoUser
  /\ UNCHANGED <<status, severity, draftedBy>>

MarkCapNotRequired(h) ==
  /\ Writes(h, "markCapNotRequired")
  /\ cap' = "NOT_REQUIRED" /\ status' = "IN_PROGRESS"
  /\ UNCHANGED <<severity, draftedBy, rejectedBy, approvedBy>>

BreaksOff(h) ==
  /\ request[h] # Idle
  /\ Answers(h)
  /\ UNCHANGED row

Next ==
  \/ \E s \in NCStatus, v \in Severity : Update(s, v)
  \/ Close
  \/ \E h \in Handler :
       \/ \E op \in CapStep, u \in User : CapReads(h, op, u)
       \/ SaveCapDraft(h) \/ SubmitCapForApproval(h) \/ ApproveCap(h)
       \/ RejectCap(h) \/ MarkCapNotRequired(h) \/ BreaksOff(h)

Spec == Init /\ [][Next]_vars

-----------------------------------------------------------------------------
\* When requests come one after the other, an APPROVED plan was approved by
\* somebody else than the user who drafted it last, and its rejection, if it
\* ever had one, has been cleared by a later draft.
FourEyes ==
  cap = "APPROVED" /\ ~overlapped =>
    approvedBy \in User \ {draftedBy} /\ draftedBy \in User /\ rejectedBy = NoUser
=============================================================================
