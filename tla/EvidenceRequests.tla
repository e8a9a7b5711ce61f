-------------------------- MODULE EvidenceRequests --------------------------
(***************************************************************************)
(* EvidenceRequestService and EvidenceService (apps/server/src/evidence):   *)
(* one request for evidence, the evidence that can be submitted to it, and  *)
(* the review of each.  A fulfilment is a row <request, evidence>, unique,  *)
(* that is deleted with either.  Handlers read a row, check its status and  *)
(* write it by id; the write fails when the row is gone by then.  The rows  *)
(* exist from the beginning; a deleted one stays GONE.                      *)
(***************************************************************************)
EXTENDS Requests

CONSTANT Evidence

VARIABLES
  asked,        \* EvidenceRequestStatus of the request
  evidence,     \* Evidence -> EvidenceStatus
  fulfilled,    \* the evidence with a fulfilment
  lost,         \* (history) a fulfilment was deleted with its evidence
  approved,     \* (history) evidence that has been APPROVED
  archived,     \* (history) evidence that has been archived
  edited        \* (history) evidence changed after it had been APPROVED

rows == <<asked, evidence, fulfilled>>
history == <<lost, approved, archived, edited>>
vars == <<rows, history, requests>>

RequestStatus ==
  {"OPEN", "IN_PROGRESS", "SUBMITTED", "ACCEPTED", "REJECTED", "CANCELLED", "GONE"}
EvidenceStatus ==
  {"PENDING", "UNDER_REVIEW", "APPROVED", "REJECTED", "ARCHIVED", "GONE"}
Transition == {"startProgress", "accept", "reject"}
Review == {"submitForReview", "approve", "rejectEvidence", "update", "delete"}

TypeOK ==
  /\ asked \in RequestStatus
  /\ evidence \in [Evidence -> EvidenceStatus]
  /\ \A S \in {fulfilled, approved, archived, edited} : S \subseteq Evidence
  /\ lost \in BOOLEAN
  /\ request \in [Handler ->
       [op : {"idle"} \cup Transition]
         \cup [op : {"submit", "submitted"} \cup Review, of : Evidence]]
  /\ overlapped \in BOOLEAN

Init ==
  /\ asked = "OPEN"
  /\ evidence = [e \in Evidence |-> "PENDING"]
  /\ fulfilled = {} /\ approved = {} /\ archived = {} /\ edited = {}
  /\ lost = FALSE
  /\ RequestsInit

(***************************************************************************)
(* The request: startProgress, acceptSubmission, rejectSubmission.          *)
(***************************************************************************)
From(op) == IF op = "startProgress" THEN "OPEN" ELSE "SUBMITTED"
To(op) ==
  CASE op = "startProgress" -> "IN_PROGRESS"
    [] op = "accept" -> "ACCEPTED"
    [] op = "reject" -> "REJECTED"

TransitionReads(h, op) ==
  /\ asked = From(op)
  /\ Reads(h, [op |-> op])
  /\ UNCHANGED <<rows, history>>

Transit(h, op) ==
  /\ Serves(h, op)
  /\ asked # "GONE"
  /\ asked' = To(op)
  /\ Answers(h)
  /\ UNCHANGED <<evidence, fulfilled, history>>

\* cancel, and the deletion of the request.
Cancel ==
  /\ asked # "GONE"
  /\ asked' = "CANCELLED"
  /\ UNCHANGED <<evidence, fulfilled, history>> /\ AtOnce

DeleteRequest ==
  /\ asked # "GONE"
  /\ asked' = "GONE" /\ fulfilled' = {}
  /\ UNCHANGED <<evidence, history>> /\ AtOnce

(***************************************************************************)
(* submitEvidence, whatever the request's status: the fulfilment, then the  *)
(* status.                                                                  *)
(***************************************************************************)
\* Mutant: the status first.
SubmitsUnseen(h, e) ==
  /\ asked # "GONE" /\ evidence[e] # "GONE"
  /\ Reads(h, [op |-> "submitted", of |-> e])
  /\ UNCHANGED <<rows, history>>

SubmitReads(h, e) ==
  /\ asked # "GONE" /\ evidence[e] # "GONE"
  /\ Reads(h, [op |-> "submit", of |-> e])
  /\ UNCHANGED <<rows, history>>

Fulfil(h) ==
  LET e == request[h].of
  IN /\ Serves(h, "submit")
     /\ asked # "GONE" /\ evidence[e] # "GONE" /\ e \notin fulfilled
     /\ fulfilled' = fulfilled \cup {e}
     /\ Continues(h, [op |-> "submitted", of |-> e])
     /\ UNCHANGED <<asked, evidence, history>>

MarkSubmitted(h) ==
  /\ Serves(h, "submitted")
  /\ asked # "GONE"
  /\ asked' = "SUBMITTED"
  /\ Answers(h)
  /\ UNCHANGED <<evidence, fulfilled, history>>

(***************************************************************************)
(* The evidence: its review, update, deletion, and archive.                 *)
(***************************************************************************)
\* Mutant: an update or a deletion looks at no status.
AllowedAlways(op, e) ==
  CASE op = "submitForReview" -> evidence[e] = "PENDING"
    [] op \in {"approve", "rejectEvidence"} -> evidence[e] = "UNDER_REVIEW"
    [] op \in {"update", "delete"} -> evidence[e] # "GONE"

Allowed(op, e) ==
  CASE op = "submitForReview" -> evidence[e] = "PENDING"
    [] op \in {"approve", "rejectEvidence"} -> evidence[e] = "UNDER_REVIEW"
    [] op = "update" -> evidence[e] \notin {"APPROVED", "ARCHIVED", "GONE"}
    [] op = "delete" -> evidence[e] \notin {"APPROVED", "GONE"}

ReviewReads(h, op, e) ==
  /\ Allowed(op, e)
  /\ Reads(h, [op |-> op, of |-> e])
  /\ UNCHANGED <<rows, history>>

Reviewed(op) ==
  CASE op = "submitForReview" -> "UNDER_REVIEW"
    [] op = "approve" -> "APPROVED"
    [] op = "rejectEvidence" -> "REJECTED"

Writes(h, op) ==
  /\ Serves(h, op)
  /\ evidence[request[h].of] # "GONE"
  /\ Answers(h)

SetReview(h, op) ==
  LET e == request[h].of
  IN /\ Writes(h, op)
     /\ evidence' = [evidence EXCEPT ![e] = Reviewed(op)]
     /\ approved' = IF op = "approve" THEN approved \cup {e} ELSE approved
     /\ UNCHANGED <<asked, fulfilled, lost, archived, edited>>

Update(h) ==
  /\ Writes(h, "update")
  /\ edited' = edited \cup (approved \cap {request[h].of})
  /\ UNCHANGED <<rows, lost, approved, archived>>

Delete(h) ==
  LET e == request[h].of
  IN /\ Writes(h, "delete")
     /\ evidence' = [evidence EXCEPT ![e] = "GONE"]
     /\ fulfilled' = fulfilled \ {e}
     /\ lost' = (lost \/ e \in fulfilled)
     /\ UNCHANGED <<asked, approved, archived, edited>>

Archive(e) ==
  /\ evidence[e] # "GONE"
  /\ evidence' = [evidence EXCEPT ![e] = "ARCHIVED"]
  /\ archived' = archived \cup {e}
  /\ UNCHANGED <<asked, fulfilled, lost, approved, edited>> /\ AtOnce

\* A query rejects or the process stops.
BreaksOff(h) ==
  /\ request[h] # Idle
  /\ Answers(h)
  /\ UNCHANGED <<rows, history>>

Next ==
  \/ Cancel \/ DeleteRequest
  \/ \E e \in Evidence : Archive(e)
  \/ \E h \in Handler :
       \/ \E op \in Transition : TransitionReads(h, op) \/ Transit(h, op)
       \/ \E e \in Evidence : SubmitReads(h, e)
       \/ Fulfil(h) \/ MarkSubmitted(h)
       \/ \E e \in Evidence, op \in Review : ReviewReads(h, op, e)
       \/ \E op \in {"submitForReview", "approve", "rejectEvidence"} : SetReview(h, op)
       \/ Update(h) \/ Delete(h) \/ BreaksOff(h)

Spec == Init /\ [][Next]_vars

-----------------------------------------------------------------------------
(***************************************************************************)
(* Properties.                                                              *)
(***************************************************************************)
\* A request that was submitted, and then accepted or rejected, has evidence to
\* show for it, whatever requests overlap or break off: unless the evidence
\* was deleted, which took its fulfilment with it.
SubmittedHasEvidence ==
  asked \in {"SUBMITTED", "ACCEPTED", "REJECTED"} => fulfilled # {} \/ lost

\* When requests come one after the other, evidence that was approved stays as
\* it was approved ("Create a new version instead", "Archive it instead"): its
\* content is not updated, and it is still there and APPROVED, unless it has
\* been archived.
ApprovedEvidenceStands ==
  ~overlapped =>
    /\ edited = {}
    /\ \A e \in approved : evidence[e] = "APPROVED" \/ e \in archived
=============================================================================
