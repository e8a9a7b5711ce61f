----------------------------- MODULE SoaApproval ----------------------------
(***************************************************************************)
(* SOAService (apps/server/src/controls): the versions of an organisation's *)
(* Statement of Applicability.  Approving one takes two updates: the other  *)
(* approved versions become SUPERSEDED, then the version APPROVED.  No      *)
(* status is looked at; a version may be approved, resubmitted or deleted   *)
(* in any.  Handlers that only look whether the row exists and then write   *)
(* it by id are one step: if it was deleted in between, the write fails.    *)
(***************************************************************************)
EXTENDS Requests, Naturals, FiniteSets

CONSTANT Soa            \* the versions

VARIABLE soa            \* Soa -> SOAStatus, "ABSENT" for no row

vars == <<soa, requests>>

TypeOK ==
  /\ soa \in [Soa -> {"ABSENT", "DRAFT", "PENDING_REVIEW", "APPROVED", "SUPERSEDED"}]
  /\ request \in [Handler -> [op : {"idle"}] \cup [op : {"supersede", "approve"}, of : Soa]]
  /\ overlapped \in BOOLEAN

Init ==
  /\ soa = [v \in Soa |-> "ABSENT"]
  /\ RequestsInit

Approved == {v \in Soa : soa[v] = "APPROVED"}
Set(v, status) == soa' = [soa EXCEPT ![v] = status]

\* create, createFromControls and createNewVersion.
Create(v) ==
  /\ soa[v] = "ABSENT"
  /\ Set(v, "DRAFT")
  /\ AtOnce

SubmitForReview(v) ==
  /\ soa[v] # "ABSENT"
  /\ Set(v, "PENDING_REVIEW")
  /\ AtOnce

Delete(v) ==
  /\ soa[v] # "ABSENT"
  /\ Set(v, "ABSENT")
  /\ AtOnce

ApproveReads(h, v) ==
  /\ soa[v] # "ABSENT"
  /\ Reads(h, [op |-> "supersede", of |-> v])
  /\ UNCHANGED soa

\* Mutant: nothing is superseded.
SupersedesNone(h) ==
  /\ Serves(h, "supersede")
  /\ Continues(h, [op |-> "approve", of |-> request[h].of])
  /\ UNCHANGED soa

Supersede(h) ==
  LET v == request[h].of
  IN /\ Serves(h, "supersede")
     /\ soa' = [w \in Soa |->
          IF w # v /\ w \in Approved THEN "SUPERSEDED" ELSE soa[w]]
     /\ Continues(h, [op |-> "approve", of |-> v])

Approve(h) ==
  /\ Serves(h, "approve")
  /\ soa[request[h].of] # "ABSENT"
  /\ Set(request[h].of, "APPROVED")
  /\ Answers(h)

\* A query rejects (the row is gone, for one) or the process stops.
BreaksOff(h) ==
  /\ request[h] # Idle
  /\ Answers(h)
  /\ UNCHANGED soa

Next ==
  \/ \E v \in Soa : Create(v) \/ SubmitForReview(v) \/ Delete(v)
  \/ \E h \in Handler :
       \/ \E v \in Soa : ApproveReads(h, v)
       \/ Supersede(h) \/ Approve(h) \/ BreaksOff(h)

Spec == Init /\ [][Next]_vars

-----------------------------------------------------------------------------
\* At most one version is APPROVED when approvals come one after the other
\* ("any previously approved version is automatically superseded"), also when
\* one of them broke off; and never more than there are requests at a time.
OneApproved ==
  Cardinality(Approved) <= IF overlapped THEN Cardinality(Handler) ELSE 1
=============================================================================
