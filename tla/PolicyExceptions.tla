--------------------------- MODULE PolicyExceptions -------------------------
(***************************************************************************)
(* DocumentExceptionService (apps/server/src/policies) for one exception to *)
(* a policy, with the daily job that expires exceptions.  Each operation    *)
(* reads the status and then writes by id, whatever the row has become.     *)
(***************************************************************************)
EXTENDS Requests

VARIABLES
  status,       \* the exception's status column
  expired,      \* its expiryDate is past
  approved,     \* (history) it has been APPROVED
  ended         \* (history) it has been EXPIRED, REVOKED or CLOSED

vars == <<status, expired, approved, ended, requests>>

Ended == {"EXPIRED", "REVOKED", "CLOSED"}
Status == {"REQUESTED", "UNDER_REVIEW", "APPROVED", "ACTIVE"} \cup Ended
Operation == {"approve", "activate", "revoke", "close", "getExpired", "checkExceptionExpiry"}

TypeOK ==
  /\ status \in Status
  /\ expired \in BOOLEAN /\ approved \in BOOLEAN /\ ended \in BOOLEAN
  /\ request \in [Handler -> {Idle} \cup [op : Operation]]
  /\ overlapped \in BOOLEAN

Init ==
  /\ status = "REQUESTED"
  /\ expired \in BOOLEAN
  /\ approved = FALSE /\ ended = FALSE
  /\ RequestsInit

\* The statuses an operation accepts, and the one it writes.
Accepted ==
  [approve |-> {"REQUESTED", "UNDER_REVIEW"}, activate |-> {"APPROVED"},
   revoke |-> {"APPROVED", "ACTIVE"}, close |-> Status,
   getExpired |-> {"ACTIVE"}, checkExceptionExpiry |-> {"APPROVED"}]

Written ==
  [approve |-> "APPROVED", activate |-> "ACTIVE", revoke |-> "REVOKED", close |-> "CLOSED",
   getExpired |-> "EXPIRED", checkExceptionExpiry |-> "EXPIRED"]

\* Mutants: an exception is activated that nobody approved; an exception that has
\* ended is approved.
AcceptsUnapproved(op) ==
  IF op = "activate" THEN status \in {"REQUESTED", "APPROVED"}
  ELSE status \in Accepted[op] /\ (op \in {"getExpired", "checkExceptionExpiry"} => expired)
AcceptsEnded(op) ==
  /\ status \in Accepted[op] \cup (IF op = "approve" THEN Ended ELSE {})
  /\ op \in {"getExpired", "checkExceptionExpiry"} => expired

Accepts(op) ==
  /\ status \in Accepted[op]
  /\ op \in {"getExpired", "checkExceptionExpiry"} => expired

Look(h, op) ==
  /\ Accepts(op)
  /\ Reads(h, [op |-> op])
  /\ UNCHANGED <<status, expired, approved, ended>>

Write(h) ==
  /\ request[h] # Idle
  /\ status' = Written[request[h].op]
  /\ approved' = (approved \/ status' = "APPROVED")
  /\ ended' = (ended \/ status' \in Ended)
  /\ Answers(h)
  /\ UNCHANGED expired

BreaksOff(h) ==
  /\ request[h] # Idle
  /\ Answers(h)
  /\ UNCHANGED <<status, expired, approved, ended>>

Expire ==
  /\ ~expired
  /\ expired' = TRUE
  /\ UNCHANGED <<status, approved, ended, requests>>

Next ==
  \/ Expire
  \/ \E h \in Handler :
       (\E op \in Operation : Look(h, op)) \/ Write(h) \/ BreaksOff(h)

Spec == Init /\ [][Next]_vars

-----------------------------------------------------------------------------
\* No exception is in force, or has been, that nobody approved: not even when
\* operations overlap.
ActiveWasApproved == status = "ACTIVE" => approved

\* An exception that has ended does not come back, unless operations overlapped.
EndedStaysEnded == ended /\ ~overlapped => status \in Ended
=============================================================================
