---------------------------- MODULE ServiceProofs ---------------------------
(***************************************************************************)
(* Proofs about the services of the server that approve and replace: a      *)
(* change waits for somebody, what is in force was approved by somebody who *)
(* may, and what replaces its predecessor is alone in force.  Each is       *)
(* proved of the composition that is checked.                               *)
(***************************************************************************)
EXTENDS Components, TLAPS, FiniteSetTheorems, SequenceTheorems

(***************************************************************************)
(* Requests.                                                                *)
(***************************************************************************)
\* As long as no two requests overlapped, one at most is in service.
Alone ==
  ~overlapped =>
    \A g, h \in Handler : request[g] # Idle /\ request[h] # Idle => g = h

\* Request h arrives, or goes on: with r.
Turn(h, r) ==
  /\ request' = [request EXCEPT ![h] = r]
  /\ \/ overlapped' = (overlapped \/ ~Quiet)
     \/ request[h] # Idle /\ overlapped' = overlapped

LEMMA TurnTaken ==
  ASSUME NEW S, request \in [Handler -> S], NEW h \in Handler, NEW r \in S, Alone, Turn(h, r)
  PROVE  /\ request' \in [Handler -> S]
         /\ request'[h] = r
         /\ \A g \in Handler : g # h => request'[g] = request[g]
         /\ Alone'
         /\ overlapped => overlapped'
         /\ ~overlapped' => \A g \in Handler : g # h => request[g] = Idle
<1>1. /\ request' \in [Handler -> S]
      /\ request'[h] = r
      /\ \A g \in Handler : g # h => request'[g] = request[g]
  BY DEF Turn
<1>2. ~overlapped' => ~overlapped /\ \A g \in Handler : g # h => request[g] = Idle
  BY DEF Turn, Alone, Quiet
<1> QED BY <1>1, <1>2 DEF Alone

LEMMA AtOnceTaken ==
  ASSUME Alone, request' = request, overlapped' = (overlapped \/ ~Quiet)
  PROVE  /\ Alone'
         /\ ~overlapped' => ~overlapped /\ \A g \in Handler : request[g] = Idle
BY DEF Alone, Quiet

(***************************************************************************)
(* ChangeApproval.                                                          *)
(***************************************************************************)
LEMMA ChangeRequests ==
  /\ Changes!Idle \in Changes!Request
  /\ [op |-> "submit"] \in Changes!Request
  /\ \A A \in SUBSET Approver, o \in {"found", "ask"} :
       [op |-> o, of |-> A] \in Changes!Request
  /\ \A a \in Approver, o \in {"approve", "reject", "count", "rejects", "approves"} :
       [op |-> o, of |-> a] \in Changes!Request
BY DEF Changes!Request, Changes!Idle

LEMMA ChangeRequest ==
  ASSUME NEW r \in Changes!Request
  PROVE  /\ r.op \in {"found", "ask"} => r.of \in SUBSET Approver
         /\ r.op \in {"approve", "reject", "count", "rejects", "approves"} =>
              r.of \in Approver
BY DEF Changes!Request

\* A change that waits for nobody, and not because an update said so, has a request that
\* is about to settle it.
Settling ==
  change = "PENDING_APPROVAL" /\ changeAsked /\ ~changeUpdated /\ ~changeCut
    /\ Changes!PendingRequired = {} =>
    \E h \in Handler : request[h].op \in {"count", "approves", "rejects"}

\* As long as no two requests overlapped, a change that a request approved waits for nobody,
\* and approvers are asked of a change that waits.
Orderly ==
  ~overlapped =>
    /\ change = "APPROVED" /\ ~changeUpdated => Changes!PendingRequired = {}
    /\ \A h \in Handler :
         /\ request[h].op = "approves" => Changes!PendingRequired = {}
         /\ request[h].op = "ask" => change = "PENDING_APPROVAL"

ChangesInv == Changes!TypeOK /\ Settling /\ Alone /\ Orderly

LEMMA ChangesInit == Changes!Init => ChangesInv
<1> SUFFICES ASSUME Changes!Init PROVE ChangesInv
  OBVIOUS
<1> USE DEF Changes!Init, Changes!RequestsInit
<1>1. request \in [Handler -> Changes!Request]
  BY ChangeRequests
<1> QED
  BY <1>1 DEF ChangesInv, Changes!TypeOK, Settling, Alone, Orderly, Changes!ChangeStatus,
    Changes!Idle, Idle

LEMMA ChangesStep ==
  ASSUME ChangesInv, [Changes!Next]_(Changes!vars)
  PROVE  ChangesInv'
<1> USE RequiredAssumption DEF Changes!Idle, Idle, Changes!Serves, Changes!Goes, Changes!Continues,
      Changes!Answers, Changes!Reads, Changes!rows, Changes!history, Changes!Quiet, Changes!ChangeStatus,
      Changes!Becomes, Quiet
<1> DEFINE On(h, r) == r \in Changes!Request /\ Turn(h, r)
<1>0. Changes!TypeOK /\ request \in [Handler -> Changes!Request]
  BY DEF ChangesInv, Changes!TypeOK
<1>1. CASE UNCHANGED Changes!vars
  BY <1>1 DEF ChangesInv, Changes!TypeOK, Settling, Alone, Orderly, Changes!vars,
    Changes!PendingRequired, Changes!requests
<1>2. ASSUME NEW h \in Handler, Changes!SubmitReads(h) PROVE ChangesInv'
  <2>1. On(h, [op |-> "submit"])
    BY <1>0, <1>2, ChangeRequests, ChangeRequest DEF Changes!SubmitReads, Turn
  <2> QED
    BY <1>0, <1>2, <2>1, TurnTaken, ChangeRequest DEF ChangesInv, Changes!TypeOK, Settling, Orderly,
      Changes!SubmitReads, Changes!PendingRequired
<1>3. ASSUME NEW h \in Handler, Changes!Submit(h) PROVE ChangesInv'
  <2>1. On(h, Idle)
    BY <1>0, <1>3, ChangeRequests, ChangeRequest DEF Changes!Submit, Turn
  <2>2. Changes!TypeOK' /\ Alone'
    BY <1>0, <1>3, <2>1, TurnTaken DEF ChangesInv, Changes!TypeOK, Changes!Submit
  <2>3. Settling'
    <3>1. change' # "PENDING_APPROVAL"
      BY <1>3 DEF Changes!Submit
    <3> QED BY <3>1 DEF Settling
  <2>4. ~overlapped' => ~overlapped /\ \A g \in Handler : g # h => request'[g].op = "idle"
    <3>1. PICK r \in Changes!Request : r.op = "idle" /\ r = Idle /\ Turn(h, r)
      BY <2>1
    <3>2. Alone /\ request \in [Handler -> Changes!Request]
      BY <1>0 DEF ChangesInv
    <3>3. /\ overlapped => overlapped'
          /\ \A g \in Handler : g # h => request'[g] = request[g]
          /\ ~overlapped' => \A g \in Handler : g # h => request[g] = r
      BY <3>1, <3>2, TurnTaken
    <3> QED BY <3>1, <3>3
  <2>5. request'[h].op = "idle" /\ Changes!PendingRequired' = Changes!PendingRequired
    BY <1>0, <1>3 DEF Changes!Submit, Changes!PendingRequired
  <2>6. Orderly'
    BY <1>0, <1>3, <2>4, <2>5 DEF ChangesInv, Changes!Submit, Orderly
  <2> QED BY <2>2, <2>3, <2>6 DEF ChangesInv
<1>4. ASSUME NEW h \in Handler, NEW A \in SUBSET Approver, Changes!AskReads(h, A) PROVE ChangesInv'
  <2>1. On(h, [op |-> "found", of |-> A])
    BY <1>0, <1>4, ChangeRequests, ChangeRequest DEF Changes!AskReads, Turn
  <2> QED
    BY <1>0, <1>4, <2>1, TurnTaken, ChangeRequest DEF ChangesInv, Changes!TypeOK, Settling, Orderly,
      Changes!AskReads, Changes!PendingRequired
<1>5. ASSUME NEW h \in Handler, Changes!Pend(h) PROVE ChangesInv'
  <2>1. request[h] \in Changes!Request /\ request[h].op = "found"
    BY <1>0, <1>5 DEF Changes!Pend
  <2>2. request[h].of \in SUBSET Approver /\ request[h] # Idle
    BY <2>1, ChangeRequest
  <2>3. On(h, [op |-> "ask", of |-> request[h].of])
    BY <1>5, <2>2, ChangeRequests DEF Changes!Pend, Turn
  <2>4. Changes!TypeOK' /\ Alone'
    BY <1>0, <1>5, <2>2, <2>3, TurnTaken DEF ChangesInv, Changes!TypeOK, Changes!Pend
  <2>5. Settling'
    BY <1>0, <1>5, <2>1, <2>2, <2>3, TurnTaken DEF ChangesInv, Changes!TypeOK, Settling,
      Changes!Pend, Changes!PendingRequired
  <2>6. Orderly'
    BY <1>0, <1>5, <2>1, <2>2, <2>3, TurnTaken DEF ChangesInv, Changes!TypeOK, Orderly,
      Changes!Pend, Changes!PendingRequired
  <2> QED BY <2>4, <2>5, <2>6 DEF ChangesInv
<1>6. ASSUME NEW h \in Handler, Changes!Ask(h) PROVE ChangesInv'
  <2>1. On(h, Idle)
    BY <1>0, <1>6, ChangeRequests, ChangeRequest DEF Changes!Ask, Turn
  <2> QED
    BY <1>0, <1>6, <2>1, TurnTaken, ChangeRequest DEF ChangesInv, Changes!TypeOK, Settling, Orderly,
      Changes!Ask, Changes!PendingRequired
<1>7. ASSUME NEW h \in Handler, Changes!AskRefused(h) PROVE ChangesInv'
  <2>1. On(h, Idle)
    BY <1>0, <1>7, ChangeRequests, ChangeRequest DEF Changes!AskRefused, Turn
  <2> QED
    BY <1>0, <1>7, <2>1, TurnTaken, ChangeRequest DEF ChangesInv, Changes!TypeOK, Settling, Orderly,
      Changes!AskRefused, Changes!PendingRequired
<1>8. ASSUME NEW h \in Handler, NEW a \in Approver, Changes!ApproveReads(h, a) PROVE ChangesInv'
  <2>1. On(h, [op |-> "approve", of |-> a])
    BY <1>0, <1>8, ChangeRequests, ChangeRequest DEF Changes!ApproveReads, Turn
  <2> QED
    BY <1>0, <1>8, <2>1, TurnTaken, ChangeRequest DEF ChangesInv, Changes!TypeOK, Settling, Orderly,
      Changes!ApproveReads, Changes!PendingRequired
<1>9. ASSUME NEW h \in Handler, Changes!Approve(h) PROVE ChangesInv'
  <2>1. request[h] \in Changes!Request /\ request[h].op = "approve"
    BY <1>0, <1>9 DEF Changes!Approve
  <2>2. request[h].of \in Approver /\ request[h] # Idle
    BY <2>1, ChangeRequest
  <2>3. On(h, [op |-> "count", of |-> request[h].of])
    BY <1>9, <2>2, ChangeRequests DEF Changes!Approve, Turn
  <2>4. Changes!TypeOK' /\ Alone'
    BY <1>0, <1>9, <2>2, <2>3, TurnTaken DEF ChangesInv, Changes!TypeOK, Changes!Approve
  <2>5. Settling'
    BY <1>0, <1>9, <2>1, <2>2, <2>3, TurnTaken DEF ChangesInv, Changes!TypeOK, Settling,
      Changes!Approve, Changes!PendingRequired
  <2>6. Orderly'
    BY <1>0, <1>9, <2>1, <2>2, <2>3, TurnTaken DEF ChangesInv, Changes!TypeOK, Orderly,
      Changes!Approve, Changes!PendingRequired
  <2> QED BY <2>4, <2>5, <2>6 DEF ChangesInv
<1>10. ASSUME NEW h \in Handler, Changes!Count(h) PROVE ChangesInv'
  <2>1. request[h] \in Changes!Request /\ request[h].op = "count"
    BY <1>0, <1>10 DEF Changes!Count
  <2>2. request[h].of \in Approver /\ request[h] # Idle
    BY <2>1, ChangeRequest
  <2>3. On(h, (IF Changes!PendingRequired = {} THEN [op |-> "approves", of |-> request[h].of] ELSE Idle))
    BY <1>10, <2>2, ChangeRequests DEF Changes!Count, Turn
  <2>4. Changes!TypeOK' /\ Alone'
    BY <1>0, <1>10, <2>2, <2>3, TurnTaken DEF ChangesInv, Changes!TypeOK, Changes!Count
  <2>5. Settling'
    BY <1>0, <1>10, <2>1, <2>2, <2>3, TurnTaken DEF ChangesInv, Changes!TypeOK, Settling,
      Changes!Count, Changes!PendingRequired
  <2>6. Orderly'
    BY <1>0, <1>10, <2>1, <2>2, <2>3, TurnTaken DEF ChangesInv, Changes!TypeOK, Orderly,
      Changes!Count, Changes!PendingRequired
  <2> QED BY <2>4, <2>5, <2>6 DEF ChangesInv
<1>11. ASSUME NEW h \in Handler, Changes!ApproveChange(h) PROVE ChangesInv'
  <2>1. On(h, Idle)
    BY <1>0, <1>11, ChangeRequests, ChangeRequest DEF Changes!ApproveChange, Turn
  <2>2. Changes!TypeOK' /\ Alone'
    BY <1>0, <1>11, <2>1, TurnTaken DEF ChangesInv, Changes!TypeOK, Changes!ApproveChange
  <2>3. Settling'
    <3>1. change' # "PENDING_APPROVAL"
      BY <1>11 DEF Changes!ApproveChange
    <3> QED BY <3>1 DEF Settling
  <2>4. ~overlapped' => ~overlapped /\ \A g \in Handler : g # h => request'[g].op = "idle"
    <3>1. PICK r \in Changes!Request : r.op = "idle" /\ r = Idle /\ Turn(h, r)
      BY <2>1
    <3>2. Alone /\ request \in [Handler -> Changes!Request]
      BY <1>0 DEF ChangesInv
    <3>3. /\ overlapped => overlapped'
          /\ \A g \in Handler : g # h => request'[g] = request[g]
          /\ ~overlapped' => \A g \in Handler : g # h => request[g] = r
      BY <3>1, <3>2, TurnTaken
    <3> QED BY <3>1, <3>3
  <2>5. request'[h].op = "idle" /\ Changes!PendingRequired' = Changes!PendingRequired
    BY <1>0, <1>11 DEF Changes!ApproveChange, Changes!PendingRequired
  <2>6. Orderly'
    BY <1>0, <1>11, <2>4, <2>5 DEF ChangesInv, Changes!ApproveChange, Orderly
  <2> QED BY <2>2, <2>3, <2>6 DEF ChangesInv
<1>12. ASSUME NEW h \in Handler, NEW a \in Approver, Changes!RejectReads(h, a) PROVE ChangesInv'
  <2>1. On(h, [op |-> "reject", of |-> a])
    BY <1>0, <1>12, ChangeRequests, ChangeRequest DEF Changes!RejectReads, Turn
  <2> QED
    BY <1>0, <1>12, <2>1, TurnTaken, ChangeRequest DEF ChangesInv, Changes!TypeOK, Settling,
      Orderly, Changes!RejectReads, Changes!PendingRequired
<1>13. ASSUME NEW h \in Handler, Changes!Reject(h) PROVE ChangesInv'
  <2>1. request[h] \in Changes!Request /\ request[h].op = "reject"
    BY <1>0, <1>13 DEF Changes!Reject
  <2>2. request[h].of \in Approver /\ request[h] # Idle
    BY <2>1, ChangeRequest
  <2>3. On(h, (IF request[h].of \in Required THEN [op |-> "rejects", of |-> request[h].of] ELSE Idle))
    BY <1>13, <2>2, ChangeRequests DEF Changes!Reject, Turn
  <2>4. Changes!TypeOK' /\ Alone'
    BY <1>0, <1>13, <2>2, <2>3, TurnTaken DEF ChangesInv, Changes!TypeOK, Changes!Reject
  <2>5. Settling'
    BY <1>0, <1>13, <2>1, <2>2, <2>3, TurnTaken DEF ChangesInv, Changes!TypeOK, Settling,
      Changes!Reject, Changes!PendingRequired
  <2>6. Orderly'
    BY <1>0, <1>13, <2>1, <2>2, <2>3, TurnTaken DEF ChangesInv, Changes!TypeOK, Orderly,
      Changes!Reject, Changes!PendingRequired
  <2> QED BY <2>4, <2>5, <2>6 DEF ChangesInv
<1>14. ASSUME NEW h \in Handler, Changes!RejectChange(h) PROVE ChangesInv'
  <2>1. On(h, Idle)
    BY <1>0, <1>14, ChangeRequests, ChangeRequest DEF Changes!RejectChange, Turn
  <2>2. Changes!TypeOK' /\ Alone'
    BY <1>0, <1>14, <2>1, TurnTaken DEF ChangesInv, Changes!TypeOK, Changes!RejectChange
  <2>3. Settling'
    <3>1. change' # "PENDING_APPROVAL"
      BY <1>14 DEF Changes!RejectChange
    <3> QED BY <3>1 DEF Settling
  <2>4. ~overlapped' => ~overlapped /\ \A g \in Handler : g # h => request'[g].op = "idle"
    <3>1. PICK r \in Changes!Request : r.op = "idle" /\ r = Idle /\ Turn(h, r)
      BY <2>1
    <3>2. Alone /\ request \in [Handler -> Changes!Request]
      BY <1>0 DEF ChangesInv
    <3>3. /\ overlapped => overlapped'
          /\ \A g \in Handler : g # h => request'[g] = request[g]
          /\ ~overlapped' => \A g \in Handler : g # h => request[g] = r
      BY <3>1, <3>2, TurnTaken
    <3> QED BY <3>1, <3>3
  <2>5. request'[h].op = "idle" /\ Changes!PendingRequired' = Changes!PendingRequired
    BY <1>0, <1>14 DEF Changes!RejectChange, Changes!PendingRequired
  <2>6. Orderly'
    BY <1>0, <1>14, <2>4, <2>5 DEF ChangesInv, Changes!RejectChange, Orderly
  <2> QED BY <2>2, <2>3, <2>6 DEF ChangesInv
<1>15. ASSUME NEW h \in Handler, Changes!BreaksOff(h) PROVE ChangesInv'
  <2>1. On(h, Idle)
    BY <1>0, <1>15, ChangeRequests, ChangeRequest DEF Changes!BreaksOff, Turn
  <2> QED
    BY <1>0, <1>15, <2>1, TurnTaken, ChangeRequest DEF ChangesInv, Changes!TypeOK, Settling,
      Orderly, Changes!BreaksOff, Changes!PendingRequired
<1>16. ASSUME NEW s \in Changes!ChangeStatus, Changes!Update(s) PROVE ChangesInv'
  <2>1. /\ change' = s /\ changeUpdated' = TRUE /\ UNCHANGED <<request, approval, changeAsked, changeCut>>
        /\ overlapped' = (overlapped \/ ~Quiet) /\ Changes!PendingRequired' = Changes!PendingRequired
    BY <1>16 DEF Changes!Update, Changes!AtOnce, Changes!PendingRequired
  <2>2. Alone' /\ (~overlapped' => ~overlapped /\ \A g \in Handler : request[g] = Idle)
    BY <2>1, AtOnceTaken DEF ChangesInv
  <2>3. Changes!TypeOK'
    BY <1>0, <1>16, <2>1 DEF Changes!TypeOK, Changes!Request
  <2>4. Settling'
    BY <2>1 DEF Settling
  <2>5. Orderly'
    BY <2>1, <2>2 DEF Orderly
  <2> QED BY <2>2, <2>3, <2>4, <2>5 DEF ChangesInv
<1> QED
  BY <1>1, <1>2, <1>3, <1>4, <1>5, <1>6, <1>7, <1>8, <1>9, <1>10, <1>11, <1>12, <1>13, <1>14,
    <1>15, <1>16 DEF Changes!Next

LEMMA ChangesWait == ASSUME ChangesInv PROVE ChangeWaits
<1>1. Changes!NeverHangs
  BY DEF ChangesInv, Settling, Changes!NeverHangs, Changes!Quiet, Changes!Idle
<1>2. Changes!ApprovedIsSettled
  BY DEF ChangesInv, Orderly, Changes!ApprovedIsSettled
<1> QED BY <1>1, <1>2 DEF ChangeWaits

\* In every behaviour of a change, however its requests overlap with each other and with
\* updates, or break off: as long as a change waits to which requestApproval gave that
\* status, somebody has yet to answer, and one that approve() made APPROVED waits for
\* nobody.  Of a status that ChangeService.update writes nothing is claimed.
THEOREM ChangeSettles == Changes!Spec => []ChangeWaits
<1>1. Changes!Init => ChangesInv
  BY ChangesInit
<1>2. ChangesInv /\ [Changes!Next]_(Changes!vars) => ChangesInv'
  BY ChangesStep
<1>3. ChangesInv => ChangeWaits
  BY ChangesWait
<1> QED BY <1>1, <1>2, <1>3, PTL DEF Changes!Spec

\* The change in a composition.
PartsChange == IF subject = "changes" THEN ChangesInv ELSE change = "DRAFTED"

\* The same of the composition that is checked.
THEOREM ChangesSettle == PartsSpec => []ChangeWaits
<1>1. PartsInit => PartsChange
  BY ChangesInit DEF PartsInit, PartsChange, Changes!Init
<1>2. PartsChange /\ [PartsNext]_partsVars => PartsChange'
  <2> SUFFICES ASSUME PartsChange, [PartsNext]_partsVars PROVE PartsChange'
    OBVIOUS
  <2>1. subject' = subject
    BY DEF PartsNext, OthersKeep, partsVars
  <2>2. CASE subject = "changes"
    <3>1. [Changes!Next]_(Changes!vars)
      BY <2>2 DEF PartsNext, partsVars, changeVars, requests, Changes!vars, Changes!rows,
        Changes!history, Changes!requests
    <3> QED BY <2>1, <2>2, <3>1, ChangesStep DEF PartsChange
  <2>3. CASE subject # "changes"
    <3>1. change' = change
      BY <2>3 DEF PartsNext, OthersKeep, Keep, partsVars, changeVars
    <3> QED BY <2>1, <2>3, <3>1 DEF PartsChange
  <2> QED BY <2>2, <2>3
<1>3. PartsChange => ChangeWaits
  BY ChangesWait DEF PartsChange, ChangeWaits, Changes!NeverHangs, Changes!ApprovedIsSettled
<1> QED BY <1>1, <1>2, <1>3, PTL DEF PartsSpec

(***************************************************************************)
(* CorrectiveAction.                                                        *)
(***************************************************************************)
CapRequest == [op : {"idle"}] \cup [op : Caps!CapStep, by : User]

LEMMA CapRequests ==
  /\ Idle \in CapRequest
  /\ \A o \in Caps!CapStep, u \in User : [op |-> o, by |-> u] \in CapRequest
BY DEF CapRequest, Idle

LEMMA CapCarries ==
  ASSUME NEW r \in CapRequest, r.op # "idle"
  PROVE  r.by \in User
BY DEF CapRequest

\* As long as no two requests overlapped, a plan that has been drafted has a drafter
\* and no rejection, and the row is as the request in service has read it.
Drafted ==
  ~overlapped =>
    /\ cap \in {"DRAFT", "PENDING_APPROVAL", "APPROVED"} => draftedBy \in User /\ rejectedBy = None
    /\ cap = "APPROVED" => approvedBy \in User \ {draftedBy}
    /\ \A h \in Handler :
         /\ request[h].op = "submitCap" => cap = "DRAFT"
         /\ request[h].op \in {"approveCap", "rejectCap"} => cap = "PENDING_APPROVAL"
         /\ request[h].op = "approveCap" => request[h].by # draftedBy

CapsInv == Caps!TypeOK /\ Alone /\ Drafted

LEMMA CapsInit == Caps!Init => CapsInv
<1> SUFFICES ASSUME Caps!Init PROVE CapsInv
  OBVIOUS
<1> USE DEF Caps!Init, Caps!RequestsInit, Caps!Idle, Idle
<1>1. request \in [Handler -> CapRequest]
  BY CapRequests
<1> QED
  BY <1>1 DEF CapsInv, Caps!TypeOK, CapRequest, Alone, Drafted, Caps!NCStatus, Caps!CAPStatus

LEMMA CapsStep ==
  ASSUME CapsInv, [Caps!Next]_(Caps!vars)
  PROVE  CapsInv'
<1> USE DEF Caps!Idle, Idle, Caps!Serves, Caps!Continues, Caps!Answers, Caps!Reads,
      Caps!AtOnce, Caps!row, Caps!Quiet, Quiet, Caps!Writes
<1> DEFINE On(h, r) == r \in CapRequest /\ Turn(h, r)
<1>0. Caps!TypeOK /\ request \in [Handler -> CapRequest]
  BY DEF CapsInv, Caps!TypeOK, CapRequest
<1>1. CASE UNCHANGED Caps!vars
  BY <1>1 DEF CapsInv, Alone, Caps!TypeOK, CapRequest, Caps!CAPStatus,
    Caps!NCStatus, Drafted, Caps!vars, Caps!requests
<1>2. ASSUME NEW s \in Caps!NCStatus, NEW v \in Caps!Severity, Caps!Update(s, v) PROVE CapsInv'
  <2> QED
    BY <1>0, <1>2, AtOnceTaken DEF CapsInv, Caps!TypeOK, CapRequest,
      Caps!CAPStatus, Caps!NCStatus, Drafted, Caps!Update
<1>3. ASSUME Caps!Close PROVE CapsInv'
  <2> QED
    BY <1>0, <1>3, AtOnceTaken DEF CapsInv, Caps!TypeOK, CapRequest,
      Caps!CAPStatus, Caps!NCStatus, Drafted, Caps!Close
<1>4. ASSUME NEW h \in Handler, NEW op \in Caps!CapStep, NEW u \in User, Caps!CapReads(h, op, u)
      PROVE  CapsInv'
  <2>3. On(h, [op |-> op, by |-> u])
    BY <1>0, <1>4, CapRequests DEF Caps!CapReads, Turn, Caps!Allowed,
      Caps!CapStep
  <2>4. Caps!TypeOK'
    BY <1>0, <1>4, <2>3, TurnTaken DEF CapsInv, Caps!TypeOK, CapRequest,
      Caps!CAPStatus, Caps!NCStatus, Caps!CapReads, Caps!Allowed, Caps!CapStep
  <2>5. Alone'
    BY <1>0, <1>4, <2>3, TurnTaken DEF CapsInv, Caps!CapReads, Caps!Allowed,
      Caps!CapStep
  <2>6. Drafted'
    BY <1>0, <1>4, <2>3, TurnTaken DEF CapsInv, Drafted, Caps!TypeOK,
      Caps!CapReads, Caps!Allowed, Caps!CapStep
  <2> QED BY <2>4, <2>5, <2>6 DEF CapsInv
<1>5. ASSUME NEW h \in Handler, Caps!SaveCapDraft(h) PROVE CapsInv'
  <2>1. request[h] \in CapRequest /\ request[h].op = "saveCapDraft"
    BY <1>0, <1>5 DEF Caps!SaveCapDraft
  <2>2. request[h].by \in User /\ request[h] # Idle
    BY <2>1, CapCarries
  <2>3. On(h, Idle)
    BY <1>0, <1>5, <2>2, CapRequests DEF Caps!SaveCapDraft, Turn
  <2>4. Caps!TypeOK'
    BY <1>0, <1>5, <2>1, <2>2, <2>3, TurnTaken DEF CapsInv, Caps!TypeOK,
      CapRequest, Caps!CAPStatus, Caps!NCStatus, Caps!SaveCapDraft
  <2>5. Alone'
    BY <1>0, <1>5, <2>1, <2>2, <2>3, TurnTaken DEF CapsInv, Caps!SaveCapDraft
  <2>6. Drafted'
    BY <1>0, <1>5, <2>1, <2>2, <2>3, TurnTaken DEF CapsInv, Drafted,
      Caps!TypeOK, Caps!SaveCapDraft
  <2> QED BY <2>4, <2>5, <2>6 DEF CapsInv
<1>6. ASSUME NEW h \in Handler, Caps!SubmitCapForApproval(h) PROVE CapsInv'
  <2>1. request[h] \in CapRequest /\ request[h].op = "submitCap"
    BY <1>0, <1>6 DEF Caps!SubmitCapForApproval
  <2>2. request[h].by \in User /\ request[h] # Idle
    BY <2>1, CapCarries
  <2>3. On(h, Idle)
    BY <1>0, <1>6, <2>2, CapRequests DEF Caps!SubmitCapForApproval, Turn
  <2>4. Caps!TypeOK'
    BY <1>0, <1>6, <2>1, <2>2, <2>3, TurnTaken DEF CapsInv, Caps!TypeOK,
      CapRequest, Caps!CAPStatus, Caps!NCStatus, Caps!SubmitCapForApproval
  <2>5. Alone'
    BY <1>0, <1>6, <2>1, <2>2, <2>3, TurnTaken DEF CapsInv,
      Caps!SubmitCapForApproval
  <2>6. Drafted'
    BY <1>0, <1>6, <2>1, <2>2, <2>3, TurnTaken DEF CapsInv, Drafted,
      Caps!TypeOK, Caps!SubmitCapForApproval
  <2> QED BY <2>4, <2>5, <2>6 DEF CapsInv
<1>7. ASSUME NEW h \in Handler, Caps!ApproveCap(h) PROVE CapsInv'
  <2>1. request[h] \in CapRequest /\ request[h].op = "approveCap"
    BY <1>0, <1>7 DEF Caps!ApproveCap
  <2>2. request[h].by \in User /\ request[h] # Idle
    BY <2>1, CapCarries
  <2>3. On(h, Idle)
    BY <1>0, <1>7, <2>2, CapRequests DEF Caps!ApproveCap, Turn
  <2>4. Caps!TypeOK'
    BY <1>0, <1>7, <2>1, <2>2, <2>3, TurnTaken DEF CapsInv, Caps!TypeOK,
      CapRequest, Caps!CAPStatus, Caps!NCStatus, Caps!ApproveCap
  <2>5. Alone'
    BY <1>0, <1>7, <2>1, <2>2, <2>3, TurnTaken DEF CapsInv, Caps!ApproveCap
  <2>6. Drafted'
    BY <1>0, <1>7, <2>1, <2>2, <2>3, TurnTaken DEF CapsInv, Drafted,
      Caps!TypeOK, Caps!ApproveCap
  <2> QED BY <2>4, <2>5, <2>6 DEF CapsInv
<1>8. ASSUME NEW h \in Handler, Caps!RejectCap(h) PROVE CapsInv'
  <2>1. request[h] \in CapRequest /\ request[h].op = "rejectCap"
    BY <1>0, <1>8 DEF Caps!RejectCap
  <2>2. request[h].by \in User /\ request[h] # Idle
    BY <2>1, CapCarries
  <2>3. On(h, Idle)
    BY <1>0, <1>8, <2>2, CapRequests DEF Caps!RejectCap, Turn
  <2>4. Caps!TypeOK'
    BY <1>0, <1>8, <2>1, <2>2, <2>3, TurnTaken DEF CapsInv, Caps!TypeOK,
      CapRequest, Caps!CAPStatus, Caps!NCStatus, Caps!RejectCap
  <2>5. Alone'
    BY <1>0, <1>8, <2>1, <2>2, <2>3, TurnTaken DEF CapsInv, Caps!RejectCap
  <2>6. Drafted'
    BY <1>0, <1>8, <2>1, <2>2, <2>3, TurnTaken DEF CapsInv, Drafted,
      Caps!TypeOK, Caps!RejectCap
  <2> QED BY <2>4, <2>5, <2>6 DEF CapsInv
<1>9. ASSUME NEW h \in Handler, Caps!MarkCapNotRequired(h) PROVE CapsInv'
  <2>1. request[h] \in CapRequest /\ request[h].op = "markCapNotRequired"
    BY <1>0, <1>9 DEF Caps!MarkCapNotRequired
  <2>2. request[h].by \in User /\ request[h] # Idle
    BY <2>1, CapCarries
  <2>3. On(h, Idle)
    BY <1>0, <1>9, <2>2, CapRequests DEF Caps!MarkCapNotRequired, Turn
  <2>4. Caps!TypeOK'
    BY <1>0, <1>9, <2>1, <2>2, <2>3, TurnTaken DEF CapsInv, Caps!TypeOK,
      CapRequest, Caps!CAPStatus, Caps!NCStatus, Caps!MarkCapNotRequired
  <2>5. Alone'
    BY <1>0, <1>9, <2>1, <2>2, <2>3, TurnTaken DEF CapsInv,
      Caps!MarkCapNotRequired
  <2>6. Drafted'
    BY <1>0, <1>9, <2>1, <2>2, <2>3, TurnTaken DEF CapsInv, Drafted,
      Caps!TypeOK, Caps!MarkCapNotRequired
  <2> QED BY <2>4, <2>5, <2>6 DEF CapsInv
<1>10. ASSUME NEW h \in Handler, Caps!BreaksOff(h) PROVE CapsInv'
  <2>3. On(h, Idle)
    BY <1>0, <1>10, CapRequests DEF Caps!BreaksOff, Turn
  <2> QED
    BY <1>0, <1>10, <2>3, TurnTaken DEF CapsInv, Caps!TypeOK, CapRequest,
      Caps!CAPStatus, Caps!NCStatus, Drafted, Caps!BreaksOff
<1> QED
  BY <1>1, <1>2, <1>3, <1>4, <1>5, <1>6, <1>7, <1>8, <1>9, <1>10 DEF Caps!Next

(***************************************************************************)
(* PolicyExceptions.                                                        *)
(***************************************************************************)
ExceptionRequest == {Idle} \cup [op : Exceptions!Operation]

LEMMA ExceptionRequests ==
  /\ Idle \in ExceptionRequest
  /\ \A o \in Exceptions!Operation : [op |-> o] \in ExceptionRequest
BY DEF ExceptionRequest

LEMMA ExceptionCarries ==
  ASSUME NEW r \in ExceptionRequest, r # Idle
  PROVE  r.op \in Exceptions!Operation
BY DEF ExceptionRequest

\* What the operations accept and write, one by one.
LEMMA Accepting ==
  /\ Exceptions!Accepted["approve"] = {"REQUESTED", "UNDER_REVIEW"}
  /\ Exceptions!Accepted["activate"] = {"APPROVED"}
BY DEF Exceptions!Accepted

LEMMA Writing ==
  /\ Exceptions!Written["approve"] = "APPROVED"
  /\ Exceptions!Written["activate"] = "ACTIVE"
  /\ \A o \in Exceptions!Operation \ {"approve", "activate"} :
       Exceptions!Written[o] \in Exceptions!Ended
BY DEF Exceptions!Written, Exceptions!Operation, Exceptions!Ended

\* What is approved, or about to be activated, has been approved.
OnceApproved ==
  /\ exceptionStatus \in {"APPROVED", "ACTIVE"} => exceptionApproved
  /\ \A h \in Handler : request[h].op = "activate" => exceptionApproved

\* As long as no two requests overlapped, an exception that ended stays so, and is not
\* about to be approved or activated.
Over ==
  exceptionEnded /\ ~overlapped =>
    /\ exceptionStatus \in Exceptions!Ended
    /\ \A h \in Handler : request[h].op \notin {"approve", "activate"}

ExceptionsInv == Exceptions!TypeOK /\ Alone /\ OnceApproved /\ Over

LEMMA ExceptionsInit == Exceptions!Init => ExceptionsInv
<1> SUFFICES ASSUME Exceptions!Init PROVE ExceptionsInv
  OBVIOUS
<1> USE DEF Exceptions!Init, Exceptions!RequestsInit, Exceptions!Idle, Idle
<1> QED
  BY DEF ExceptionsInv, Exceptions!TypeOK, Alone, OnceApproved, Over, Exceptions!Status

LEMMA ExceptionsStep ==
  ASSUME ExceptionsInv, [Exceptions!Next]_(Exceptions!vars)
  PROVE  ExceptionsInv'
<1> USE Accepting, Writing DEF Exceptions!Idle, Idle, Exceptions!Continues, Exceptions!Answers,
  Exceptions!Reads, Exceptions!Quiet, Quiet
<1> DEFINE On(h, r) == r \in ExceptionRequest /\ Turn(h, r)
<1>0. Exceptions!TypeOK /\ request \in [Handler -> ExceptionRequest]
  BY DEF ExceptionsInv, Exceptions!TypeOK, ExceptionRequest
<1>1. CASE UNCHANGED Exceptions!vars
  BY <1>1 DEF ExceptionsInv, Alone, Exceptions!TypeOK, ExceptionRequest,
    OnceApproved, Over, Exceptions!Ended, Exceptions!vars, Exceptions!requests
<1>2. ASSUME Exceptions!Expire PROVE ExceptionsInv'
  BY <1>2 DEF ExceptionsInv, Exceptions!TypeOK, Alone, OnceApproved, Over, Exceptions!Expire,
    Exceptions!requests
<1>3. ASSUME NEW h \in Handler, NEW op \in Exceptions!Operation, Exceptions!Look(h, op)
      PROVE  ExceptionsInv'
  <2>3. On(h, [op |-> op])
    BY <1>0, <1>3, ExceptionRequests DEF Exceptions!Look, Turn,
      Exceptions!Accepts
  <2>4. Exceptions!TypeOK'
    BY <1>0, <1>3, <2>3, TurnTaken DEF ExceptionsInv, Exceptions!TypeOK,
      ExceptionRequest, Exceptions!Look, Exceptions!Accepts
  <2>5. Alone'
    BY <1>0, <1>3, <2>3, TurnTaken DEF ExceptionsInv, Exceptions!Look,
      Exceptions!Accepts
  <2>6. OnceApproved'
    BY <1>0, <1>3, <2>3, TurnTaken DEF ExceptionsInv, OnceApproved,
      Exceptions!TypeOK, Exceptions!Look, Exceptions!Accepts
  <2>7. Over'
    BY <1>0, <1>3, <2>3, TurnTaken DEF ExceptionsInv, Over, Exceptions!TypeOK,
      Exceptions!Ended, Exceptions!Look, Exceptions!Accepts
  <2> QED BY <2>4, <2>5, <2>6, <2>7 DEF ExceptionsInv
<1>4. ASSUME NEW h \in Handler, Exceptions!Write(h) PROVE ExceptionsInv'
  <2>1. request[h].op \in Exceptions!Operation /\ On(h, Idle)
    BY <1>0, <1>4, ExceptionCarries, ExceptionRequests DEF Exceptions!Write, Turn
  <2>2. CASE request[h].op = "approve"
    BY <1>0, <1>4, <2>1, <2>2, TurnTaken DEF ExceptionsInv, Exceptions!TypeOK,
      Exceptions!Status, OnceApproved, Over, Exceptions!Ended, Exceptions!Write, Idle
  <2>3. CASE request[h].op = "activate"
    BY <1>0, <1>4, <2>1, <2>3, TurnTaken DEF ExceptionsInv, Exceptions!TypeOK,
      Exceptions!Status, OnceApproved, Over, Exceptions!Ended, Exceptions!Write, Idle
  <2>4. CASE request[h].op \notin {"approve", "activate"}
    BY <1>0, <1>4, <2>1, <2>4, TurnTaken DEF ExceptionsInv, Exceptions!TypeOK,
      Exceptions!Status, OnceApproved, Over, Exceptions!Ended, Exceptions!Write, Idle
  <2> QED BY <2>2, <2>3, <2>4
<1>5. ASSUME NEW h \in Handler, Exceptions!BreaksOff(h) PROVE ExceptionsInv'
  <2>3. On(h, Idle)
    BY <1>0, <1>5, ExceptionRequests DEF Exceptions!BreaksOff, Turn, Idle
  <2> QED
    BY <1>0, <1>5, <2>3, TurnTaken DEF ExceptionsInv, Exceptions!TypeOK,
      ExceptionRequest, OnceApproved, Over, Exceptions!Ended,
      Exceptions!BreaksOff, Idle
<1> QED
  BY <1>1, <1>2, <1>3, <1>4, <1>5 DEF Exceptions!Next

(***************************************************************************)
(* What is in force was approved.                                           *)
(***************************************************************************)
LEMMA CapsApproved == ASSUME CapsInv PROVE Caps!FourEyes
BY DEF CapsInv, Drafted, Caps!FourEyes

LEMMA ExceptionsApproved ==
  ASSUME ExceptionsInv
  PROVE  Exceptions!ActiveWasApproved /\ Exceptions!EndedStaysEnded
BY DEF ExceptionsInv, OnceApproved, Over, Exceptions!ActiveWasApproved, Exceptions!EndedStaysEnded

\* A corrective action plan is approved by somebody else than its drafter, and not after
\* it was rejected, unless requests overlapped.
THEOREM CapsFourEyes == Caps!Spec => []Caps!FourEyes
<1>1. Caps!Init => CapsInv
  BY CapsInit
<1>2. CapsInv /\ [Caps!Next]_(Caps!vars) => CapsInv'
  BY CapsStep
<1>3. CapsInv => Caps!FourEyes
  BY CapsApproved
<1> QED BY <1>1, <1>2, <1>3, PTL DEF Caps!Spec

\* An exception is in force only after it was approved, however operations overlap, and
\* does not come back after it ended, unless they do.
THEOREM ExceptionsInForce ==
  Exceptions!Spec => [](Exceptions!ActiveWasApproved /\ Exceptions!EndedStaysEnded)
<1>1. Exceptions!Init => ExceptionsInv
  BY ExceptionsInit
<1>2. ExceptionsInv /\ [Exceptions!Next]_(Exceptions!vars) => ExceptionsInv'
  BY ExceptionsStep
<1>3. ExceptionsInv => Exceptions!ActiveWasApproved /\ Exceptions!EndedStaysEnded
  BY ExceptionsApproved
<1> QED BY <1>1, <1>2, <1>3, PTL DEF Exceptions!Spec

\* The two in a composition.
PartsApproved ==
  /\ IF subject = "caps" THEN CapsInv ELSE cap = "NOT_DEFINED"
  /\ IF subject = "exceptions" THEN ExceptionsInv
     ELSE exceptionStatus = "REQUESTED" /\ exceptionEnded = FALSE

\* The same of the composition that is checked.
THEOREM InForceApproved == PartsSpec => []ApprovedFirst
<1>1. PartsInit => PartsApproved
  BY CapsInit, ExceptionsInit DEF PartsInit, PartsApproved, Caps!Init, Exceptions!Init
<1>2. PartsApproved /\ [PartsNext]_partsVars => PartsApproved'
  <2> SUFFICES ASSUME PartsApproved, [PartsNext]_partsVars PROVE PartsApproved'
    OBVIOUS
  <2>1. subject' = subject
    BY DEF PartsNext, OthersKeep, partsVars
  <2>2. (IF subject = "caps" THEN CapsInv ELSE cap = "NOT_DEFINED")'
    <3>1. CASE subject = "caps"
      <4>1. [Caps!Next]_(Caps!vars)
        BY <3>1 DEF PartsNext, partsVars, capVars, requests, Caps!vars, Caps!row, Caps!requests
      <4> QED BY <2>1, <3>1, <4>1, CapsStep DEF PartsApproved
    <3>2. CASE subject # "caps"
      BY <2>1, <3>2 DEF PartsApproved, PartsNext, OthersKeep, Keep, partsVars, capVars
    <3> QED BY <3>1, <3>2
  <2>3. (IF subject = "exceptions" THEN ExceptionsInv
         ELSE exceptionStatus = "REQUESTED" /\ exceptionEnded = FALSE)'
    <3>1. CASE subject = "exceptions"
      <4>1. [Exceptions!Next]_(Exceptions!vars)
        BY <3>1 DEF PartsNext, partsVars, exceptionVars, requests, Exceptions!vars,
          Exceptions!requests
      <4> QED BY <2>1, <3>1, <4>1, ExceptionsStep DEF PartsApproved
    <3>2. CASE subject # "exceptions"
      BY <2>1, <3>2 DEF PartsApproved, PartsNext, OthersKeep, Keep, partsVars, exceptionVars
    <3> QED BY <3>1, <3>2
  <2> QED BY <2>2, <2>3 DEF PartsApproved
<1>3. PartsApproved => ApprovedFirst
  BY CapsApproved, ExceptionsApproved DEF PartsApproved, ApprovedFirst, Caps!FourEyes,
    Exceptions!ActiveWasApproved, Exceptions!EndedStaysEnded
<1> QED BY <1>1, <1>2, <1>3, PTL DEF PartsSpec

(***************************************************************************)
(* SoaApproval.                                                             *)
(***************************************************************************)
LEMMA SameCount ==
  /\ \A S : Soas!Cardinality(S) = Cardinality(S)
  /\ \A S : Plans!Cardinality(S) = Cardinality(S)
  /\ \A S : Sessions!Cardinality(S) = Cardinality(S)
BY DEF Soas!Cardinality, Plans!Cardinality, Sessions!Cardinality, Cardinality

\* A set whose members are all the same has one or none.
LEMMA AtMostOne ==
  ASSUME NEW S, \A x, y \in S : x = y
  PROVE  /\ Cardinality(S) = IF S = {} THEN 0 ELSE 1
         /\ Cardinality(S) <= 1
<1>1. CASE S = {}
  BY <1>1, FS_EmptySet
<1>2. ASSUME NEW x \in S PROVE Cardinality(S) = 1
  <2>1. S = {x}
    OBVIOUS
  <2> QED BY <2>1, FS_Singleton
<1> QED BY <1>1, <1>2

SoaStep == [op : {"idle"}] \cup [op : {"supersede", "approve"}, of : Soa]

LEMMA SoaSteps ==
  /\ Idle \in SoaStep
  /\ \A o \in {"supersede", "approve"}, v \in Soa : [op |-> o, of |-> v] \in SoaStep
BY DEF SoaStep, Idle

LEMMA SoaCarries ==
  ASSUME NEW r \in SoaStep, r.op # "idle"
  PROVE  r.op \in {"supersede", "approve"} /\ r.of \in Soa
BY DEF SoaStep

\* The requests that superseded the others and are to approve their version, and those.
Approving == {h \in Handler : request[h].op = "approve"}
ToApprove == {request[h].of : h \in Approving}

\* There are no more versions approved or about to be than there are requests; as long as
\* no two overlapped, what is approved while a request is to approve is its version.
Superseding ==
  /\ IsFiniteSet(Soas!Approved \cup ToApprove)
  /\ Cardinality(Soas!Approved \cup ToApprove) <= Cardinality(Handler)
  /\ ~overlapped =>
       /\ \A v, w \in Soas!Approved : v = w
       /\ \A h \in Approving : Soas!Approved \subseteq {request[h].of}

SoasInv == Soas!TypeOK /\ Alone /\ Superseding

LEMMA OfBound ==
  ASSUME NEW r, NEW H \in SUBSET Handler
  PROVE  LET S == {r[h].of : h \in H}
         IN IsFiniteSet(S) /\ Cardinality(S) <= Cardinality(Handler)
<1> DEFINE S == {r[h].of : h \in H}
           f == [h \in H |-> r[h].of]
<1>1. IsFiniteSet(H) /\ Cardinality(H) <= Cardinality(Handler)
  BY HandlersAssumption, FS_Subset
<1>2. f \in Surjection(H, S)
  <2>1. f \in [H -> S] /\ \A v \in S : \E h \in H : f[h] = v
    OBVIOUS
  <2> QED BY <2>1 DEF Surjection
<1>3. IsFiniteSet(S) /\ Cardinality(S) <= Cardinality(H)
  BY <1>1, <1>2, FS_Surjection
<1>4. Cardinality(S) \in Nat /\ Cardinality(H) \in Nat /\ Cardinality(Handler) \in Nat
  BY <1>1, <1>3, HandlersAssumption, FS_CardinalityType
<1> QED BY <1>1, <1>3, <1>4

LEMMA FewerApproved ==
  ASSUME Superseding, (Soas!Approved \cup ToApprove)' \subseteq Soas!Approved \cup ToApprove
  PROVE  IsFiniteSet(Soas!Approved \cup ToApprove)' /\ (Cardinality(Soas!Approved \cup ToApprove) <= Cardinality(Handler))'
<1> DEFINE S == Soas!Approved \cup ToApprove
<1>1. IsFiniteSet(S') /\ Cardinality(S') <= Cardinality(S)
  BY FS_Subset DEF Superseding
<1>2. Cardinality(S') \in Nat /\ Cardinality(S) \in Nat /\ Cardinality(Handler) \in Nat
  BY <1>1, HandlersAssumption, FS_CardinalityType DEF Superseding
<1> QED BY <1>1, <1>2 DEF Superseding

LEMMA SoasInit == Soas!Init => SoasInv
<1> SUFFICES ASSUME Soas!Init PROVE SoasInv
  OBVIOUS
<1>1. Soas!Approved = {} /\ ToApprove = {} /\ Soas!Approved \cup ToApprove = ToApprove
  BY DEF Soas!Init, Soas!RequestsInit, Soas!Idle, Soas!Approved, ToApprove, Approving
<1>2. Soas!TypeOK /\ Alone
  BY DEF Soas!Init, Soas!RequestsInit, Soas!Idle, Idle, Soas!TypeOK, Alone
<1>3. IsFiniteSet(ToApprove) /\ Cardinality(ToApprove) <= Cardinality(Handler)
  BY OfBound DEF ToApprove, Approving
<1> QED BY <1>1, <1>2, <1>3 DEF SoasInv, Superseding

LEMMA SoasStep ==
  ASSUME SoasInv, [Soas!Next]_(Soas!vars)
  PROVE  SoasInv'
<1> USE DEF Idle, Soas!Idle, Soas!Serves, Soas!Continues, Soas!Answers,
      Soas!Reads, Soas!AtOnce, Soas!Quiet, Quiet, Soas!Set
<1> DEFINE On(h, r) == r \in SoaStep /\ Turn(h, r)
<1>0. Soas!TypeOK /\ request \in [Handler -> SoaStep]
  BY DEF SoasInv, Soas!TypeOK, SoaStep
<1>1. CASE UNCHANGED Soas!vars
  BY <1>1 DEF SoasInv, Alone, Soas!TypeOK, SoaStep, Superseding,
    Soas!Approved, Approving, ToApprove, Soas!vars, Soas!requests
<1>2. ASSUME NEW v \in Soa, Soas!Create(v) PROVE SoasInv'
  <2>1. Soas!TypeOK'
    BY <1>0, <1>2 DEF Soas!TypeOK, Soas!Create
  <2>2. Alone' /\ (~overlapped' => ~overlapped /\ \A g \in Handler : request[g].op = "idle")
    BY <1>2, AtOnceTaken DEF SoasInv, Soas!Create
  <2>3. Soas!Approved' \subseteq Soas!Approved /\ request' = request
    BY <1>0, <1>2 DEF Soas!Approved, Soas!Create, Soas!TypeOK
  <2>4. ToApprove' = ToApprove /\ Approving' = Approving
    BY <2>3 DEF ToApprove, Approving
  <2>5. Superseding'
    BY <2>2, <2>3, <2>4, FewerApproved DEF SoasInv, Superseding
  <2> QED BY <2>1, <2>2, <2>5 DEF SoasInv
<1>3. ASSUME NEW v \in Soa, Soas!SubmitForReview(v) PROVE SoasInv'
  <2>1. Soas!TypeOK'
    BY <1>0, <1>3 DEF Soas!TypeOK, Soas!SubmitForReview
  <2>2. Alone' /\ (~overlapped' => ~overlapped /\ \A g \in Handler : request[g].op = "idle")
    BY <1>3, AtOnceTaken DEF SoasInv, Soas!SubmitForReview
  <2>3. Soas!Approved' \subseteq Soas!Approved /\ request' = request
    BY <1>0, <1>3 DEF Soas!Approved, Soas!SubmitForReview, Soas!TypeOK
  <2>4. ToApprove' = ToApprove /\ Approving' = Approving
    BY <2>3 DEF ToApprove, Approving
  <2>5. Superseding'
    BY <2>2, <2>3, <2>4, FewerApproved DEF SoasInv, Superseding
  <2> QED BY <2>1, <2>2, <2>5 DEF SoasInv
<1>4. ASSUME NEW v \in Soa, Soas!Delete(v) PROVE SoasInv'
  <2>1. Soas!TypeOK'
    BY <1>0, <1>4 DEF Soas!TypeOK, Soas!Delete
  <2>2. Alone' /\ (~overlapped' => ~overlapped /\ \A g \in Handler : request[g].op = "idle")
    BY <1>4, AtOnceTaken DEF SoasInv, Soas!Delete
  <2>3. Soas!Approved' \subseteq Soas!Approved /\ request' = request
    BY <1>0, <1>4 DEF Soas!Approved, Soas!Delete, Soas!TypeOK
  <2>4. ToApprove' = ToApprove /\ Approving' = Approving
    BY <2>3 DEF ToApprove, Approving
  <2>5. Superseding'
    BY <2>2, <2>3, <2>4, FewerApproved DEF SoasInv, Superseding
  <2> QED BY <2>1, <2>2, <2>5 DEF SoasInv
<1>5. ASSUME NEW h \in Handler, NEW v \in Soa, Soas!ApproveReads(h, v) PROVE SoasInv'
  <2> DEFINE r == [op |-> "supersede", of |-> v]
  <2>1. On(h, r) /\ r.op = "supersede" /\ request[h].op = "idle" /\ soa' = soa
    BY <1>5, SoaSteps DEF Soas!ApproveReads, Turn
  <2> HIDE DEF r
  <2>2. /\ Alone'
        /\ request' \in [Handler -> SoaStep] /\ request'[h] = r
        /\ \A g \in Handler : g # h => request'[g] = request[g]
        /\ ~overlapped' => ~overlapped /\ \A g \in Handler : g # h => request[g].op = "idle"
    BY <1>0, <1>5, <2>1, TurnTaken DEF SoasInv, Soas!ApproveReads
  <2>3. Soas!TypeOK'
    BY <1>0, <1>5, <2>1, <2>2 DEF Soas!TypeOK, Soas!ApproveReads, SoaStep
  <2>4. Soas!Approved' = Soas!Approved /\ Approving' = Approving /\ ToApprove' = ToApprove
    BY <2>1, <2>2 DEF Soas!Approved, Approving, ToApprove
  <2>5. \A g \in Approving' : request'[g] = request[g]
    BY <2>1, <2>2 DEF Approving
  <2>6. Superseding'
    BY <2>2, <2>4, <2>5, FewerApproved DEF SoasInv, Superseding
  <2> QED BY <2>2, <2>3, <2>6 DEF SoasInv
<1>6. ASSUME NEW h \in Handler, Soas!Supersede(h) PROVE SoasInv'
  <2> DEFINE v == request[h].of
             r == [op |-> "approve", of |-> v]
  <2>1. v \in Soa /\ request[h].op = "supersede"
    BY <1>0, <1>6, SoaCarries DEF Soas!Supersede
  <2>2. On(h, r) /\ r.op = "approve" /\ r.of = v
    BY <1>6, <2>1, SoaSteps DEF Soas!Supersede, Turn
  <2> HIDE DEF r
  <2>3. /\ Alone'
        /\ request' \in [Handler -> SoaStep] /\ request'[h] = r
        /\ \A g \in Handler : g # h => request'[g] = request[g]
        /\ ~overlapped' => ~overlapped /\ \A g \in Handler : g # h => request[g].op = "idle"
    BY <1>0, <1>6, <2>2, TurnTaken DEF SoasInv, Soas!Supersede
  <2>4. Soas!TypeOK'
    BY <1>0, <1>6, <2>3 DEF Soas!TypeOK, Soas!Supersede, SoaStep
  <2>5. Soas!Approved' \subseteq {v}
    BY <1>6 DEF Soas!Approved, Soas!Supersede
  <2>6. h \in Approving' /\ v \in ToApprove'
    BY <2>2, <2>3 DEF Approving, ToApprove
  <2>7. (Soas!Approved \cup ToApprove)' = ToApprove'
    BY <2>5, <2>6
  <2>8. IsFiniteSet(ToApprove') /\ Cardinality(ToApprove') <= Cardinality(Handler)
    BY OfBound DEF ToApprove, Approving
  <2>9. ~overlapped' => \A g \in Approving' : g = h
    BY <2>3 DEF Approving
  <2>10. Superseding'
    BY <2>2, <2>3, <2>5, <2>7, <2>8, <2>9 DEF Superseding
  <2> QED BY <2>3, <2>4, <2>10 DEF SoasInv
<1>7. ASSUME NEW h \in Handler, Soas!Approve(h) PROVE SoasInv'
  <2> DEFINE v == request[h].of
  <2>1. v \in Soa /\ request[h].op = "approve"
    BY <1>0, <1>7, SoaCarries DEF Soas!Approve
  <2> DEFINE r == Idle
  <2>2. On(h, r) /\ r.op = "idle"
    BY <1>7, <2>1, SoaSteps DEF Soas!Approve, Turn
  <2> HIDE DEF r
  <2>3. /\ Alone'
        /\ request' \in [Handler -> SoaStep] /\ request'[h] = r
        /\ \A g \in Handler : g # h => request'[g] = request[g]
        /\ ~overlapped' => ~overlapped /\ \A g \in Handler : g # h => request[g].op = "idle"
    BY <1>0, <1>7, <2>2, TurnTaken DEF SoasInv, Soas!Approve
  <2>4. Soas!TypeOK'
    BY <1>0, <1>7, <2>1, <2>3 DEF Soas!TypeOK, Soas!Approve, SoaStep
  <2>5. Soas!Approved' = Soas!Approved \cup {v}
    BY <1>0, <1>7, <2>1 DEF Soas!Approved, Soas!Approve, Soas!TypeOK
  <2>6. h \in Approving /\ v \in ToApprove /\ Approving' = Approving \ {h} /\ ToApprove' \subseteq ToApprove
    BY <2>1, <2>2, <2>3 DEF Approving, ToApprove
  <2>7. (Soas!Approved \cup ToApprove)' \subseteq Soas!Approved \cup ToApprove
    BY <2>5, <2>6
  <2>8. ~overlapped' => Approving' = {} /\ Soas!Approved' = {v}
    BY <2>2, <2>3, <2>5, <2>6 DEF SoasInv, Superseding, Approving
  <2>9. Superseding'
    BY <2>7, <2>8, FewerApproved DEF SoasInv, Superseding
  <2> QED BY <2>3, <2>4, <2>9 DEF SoasInv
<1>8. ASSUME NEW h \in Handler, Soas!BreaksOff(h) PROVE SoasInv'
  <2> DEFINE r == Idle
  <2>2. On(h, r) /\ r.op = "idle" /\ soa' = soa
    BY <1>8, SoaSteps DEF Soas!BreaksOff, Turn
  <2> HIDE DEF r
  <2>3. /\ Alone'
        /\ request' \in [Handler -> SoaStep] /\ request'[h] = r
        /\ \A g \in Handler : g # h => request'[g] = request[g]
        /\ ~overlapped' => ~overlapped /\ \A g \in Handler : g # h => request[g].op = "idle"
    BY <1>0, <1>8, <2>2, TurnTaken DEF SoasInv, Soas!BreaksOff
  <2>4. Soas!TypeOK'
    BY <1>0, <1>8, <2>2, <2>3 DEF Soas!TypeOK, Soas!BreaksOff, SoaStep
  <2>5. Soas!Approved' = Soas!Approved
    BY <2>2 DEF Soas!Approved
  <2>6. Approving' = Approving \ {h} /\ ToApprove' \subseteq ToApprove /\ \A g \in Approving' : request'[g] = request[g]
    BY <2>2, <2>3 DEF Approving, ToApprove
  <2>7. Superseding'
    BY <2>3, <2>5, <2>6, FewerApproved DEF SoasInv, Superseding
  <2> QED BY <2>3, <2>4, <2>7 DEF SoasInv
<1> QED
  BY <1>1, <1>2, <1>3, <1>4, <1>5, <1>6, <1>7, <1>8 DEF Soas!Next

LEMMA SoasOne == SoasInv => Soas!OneApproved
<1> SUFFICES ASSUME SoasInv PROVE Soas!OneApproved
  OBVIOUS
<1>1. CASE overlapped
  <2> DEFINE S == Soas!Approved \cup ToApprove
  <2>1. IsFiniteSet(Soas!Approved) /\ Cardinality(Soas!Approved) <= Cardinality(S)
    BY FS_Subset DEF SoasInv, Superseding
  <2>2. Cardinality(Soas!Approved) \in Nat /\ Cardinality(S) \in Nat /\ Cardinality(Handler) \in Nat
    BY <2>1, HandlersAssumption, FS_CardinalityType DEF SoasInv, Superseding
  <2>3. Cardinality(Soas!Approved) <= Cardinality(Handler)
    BY <2>1, <2>2 DEF SoasInv, Superseding
  <2> QED BY <1>1, <2>3, SameCount DEF Soas!OneApproved
<1>2. CASE ~overlapped
  <2>1. Cardinality(Soas!Approved) <= 1
    BY <1>2, AtMostOne DEF SoasInv, Superseding
  <2> QED BY <1>2, <2>1, SameCount DEF Soas!OneApproved
<1> QED BY <1>1, <1>2


\* As TurnTaken, whatever the requests' records are.
LEMMA TurnDone ==
  ASSUME DOMAIN request = Handler, NEW h \in Handler, NEW r, Alone, Turn(h, r)
  PROVE  /\ DOMAIN request' = Handler
         /\ request'[h] = r
         /\ \A g \in Handler : g # h => request'[g] = request[g]
         /\ Alone'
         /\ ~overlapped' => ~overlapped /\ \A g \in Handler : g # h => request[g] = Idle
<1>1. /\ DOMAIN request' = Handler
      /\ request'[h] = r
      /\ \A g \in Handler : g # h => request'[g] = request[g]
  BY DEF Turn
<1>2. ~overlapped' => ~overlapped /\ \A g \in Handler : g # h => request[g] = Idle
  BY DEF Turn, Alone, Quiet
<1> QED BY <1>1, <1>2 DEF Alone

(***************************************************************************)
(* TreatmentPlans.                                                          *)
(***************************************************************************)
PlanStatus == Plans!Active \cup Plans!Closed \cup {"ABSENT"}

\* As long as creations do not overlap and no closed plan becomes active again, one plan is
\* active, and none while a request is to create one.
OneActive ==
  /\ DOMAIN request = Handler /\ plan \in [Plan -> PlanStatus]
  /\ ~overlapped /\ ~reopened =>
       /\ \A p, q \in Plans!ActivePlans : p = q
       /\ \A h \in Handler : request[h].op = "create" => Plans!ActivePlans = {}

PlansInv == Alone /\ OneActive

LEMMA PlansInit == Plans!Init => PlansInv
<1> SUFFICES ASSUME Plans!Init PROVE PlansInv
  OBVIOUS
<1>1. Plans!ActivePlans = {} /\ DOMAIN request = Handler /\ plan \in [Plan -> PlanStatus]
  BY DEF Plans!Init, Plans!RequestsInit, Plans!ActivePlans, Plans!Active, PlanStatus
<1>2. Alone
  BY DEF Plans!Init, Plans!RequestsInit, Plans!Idle, Idle, Alone
<1> QED BY <1>1, <1>2 DEF PlansInv, OneActive

\* A plan is written between the awaits of the requests.
LEMMA PlanSet ==
  ASSUME PlansInv, NEW p \in Plan, NEW s \in PlanStatus, plan[p] \in Plans!Active \/ s \notin Plans!Active \/ reopened',
         plan' = [plan EXCEPT ![p] = s], reopened => reopened',
         request' = request, overlapped' = (overlapped \/ ~Quiet)
  PROVE  PlansInv'
<1>1. Alone' /\ (~overlapped' => ~overlapped /\ \A g \in Handler : request[g] = Idle)
  BY AtOnceTaken DEF PlansInv
<1>2. DOMAIN request' = Handler /\ plan' \in [Plan -> PlanStatus]
  BY DEF PlansInv, OneActive
<1>3. ~reopened' => Plans!ActivePlans' \subseteq Plans!ActivePlans
  BY DEF PlansInv, OneActive, Plans!ActivePlans
<1>4. OneActive'
  BY <1>1, <1>2, <1>3 DEF PlansInv, OneActive
<1> QED BY <1>1, <1>4 DEF PlansInv

\* A request goes on, and no plan is written.
LEMMA PlanKept ==
  ASSUME PlansInv, NEW h \in Handler, NEW r, Turn(h, r), r.op = "create" => Plans!ActivePlans = {},
         UNCHANGED <<plan, reopened>>
  PROVE  PlansInv'
<1>1. /\ DOMAIN request' = Handler /\ Alone'
      /\ request'[h] = r
      /\ \A g \in Handler : g # h => request'[g] = request[g]
      /\ ~overlapped' => ~overlapped
  BY TurnDone DEF PlansInv, OneActive
<1>2. Plans!ActivePlans' = Plans!ActivePlans
  BY DEF Plans!ActivePlans
<1>3. OneActive'
  BY <1>1, <1>2 DEF PlansInv, OneActive
<1> QED BY <1>1, <1>3 DEF PlansInv

LEMMA PlansStep ==
  ASSUME PlansInv, [Plans!Next]_(Plans!vars)
  PROVE  PlansInv'
<1> USE DEF Idle, Plans!Idle, Plans!Serves, Plans!Continues, Plans!Answers,
      Plans!Reads, Plans!AtOnce, Plans!Quiet, Plans!rows
<1>1. CASE UNCHANGED Plans!vars
  BY <1>1 DEF PlansInv, OneActive, Alone, Plans!vars, Plans!requests, Plans!ActivePlans
<1>2. ASSUME NEW p \in Plan, NEW s \in PlanStatus, Plans!SetStatus(p, s) PROVE PlansInv'
  <2>1. /\ plan' = [plan EXCEPT ![p] = s] /\ reopened' = (reopened \/ (plan[p] \in Plans!Closed /\ s \in Plans!Active))
        /\ request' = request /\ overlapped' = (overlapped \/ ~Quiet) /\ plan[p] # "ABSENT"
    BY <1>2 DEF Plans!SetStatus, Plans!Reopens, Quiet
  <2>2. plan[p] \in Plans!Active \/ plan[p] \in Plans!Closed
    BY <2>1 DEF PlansInv, OneActive, PlanStatus
  <2> QED BY <2>1, <2>2, PlanSet
<1>3. ASSUME NEW p \in Plan, Plans!Delete(p) PROVE PlansInv'
  <2>1. /\ plan' = [plan EXCEPT ![p] = "ABSENT"] /\ reopened' = reopened
        /\ request' = request /\ overlapped' = (overlapped \/ ~Quiet)
    BY <1>3 DEF Plans!Delete, Quiet
  <2> QED BY <2>1, PlanSet DEF Plans!Active, PlanStatus
<1>4. ASSUME NEW t \in Task, NEW s, Plans!CreateAction(t, s) PROVE PlansInv'
  <2>1. UNCHANGED <<plan, reopened, request>> /\ overlapped' = (overlapped \/ ~Quiet)
    BY <1>4 DEF Plans!CreateAction, Quiet
  <2>2. Alone' /\ (~overlapped' => ~overlapped)
    BY <2>1, AtOnceTaken DEF PlansInv
  <2> QED BY <2>1, <2>2 DEF PlansInv, OneActive, Plans!ActivePlans
<1>5. ASSUME NEW h \in Handler, Plans!CreateReads(h) PROVE PlansInv'
  <2>1. Turn(h, [op |-> "create"]) /\ Plans!ActivePlans = {} /\ UNCHANGED <<plan, reopened>>
    BY <1>5 DEF Plans!CreateReads, Turn, Quiet
  <2> QED BY <2>1, PlanKept
<1>6. ASSUME NEW h \in Handler, NEW p \in Plan, NEW s \in PlanStatus, Plans!Create(h, p, s)
      PROVE  PlansInv'
  <2>1. /\ Turn(h, Idle) /\ request[h].op = "create" /\ plan' = [plan EXCEPT ![p] = s]
        /\ UNCHANGED <<reopened, overlapped>>
    BY <1>6 DEF Plans!Create, Turn
  <2>2. /\ DOMAIN request' = Handler /\ Alone'
        /\ \A g \in Handler : ~overlapped' => request'[g].op = "idle"
    BY <2>1, TurnDone DEF PlansInv, OneActive
  <2>3. ~overlapped /\ ~reopened => Plans!ActivePlans' \subseteq {p}
    BY <2>1 DEF PlansInv, OneActive, Plans!ActivePlans
  <2>4. plan' \in [Plan -> PlanStatus]
    BY <2>1 DEF PlansInv, OneActive
  <2> QED BY <2>1, <2>2, <2>3, <2>4 DEF PlansInv, OneActive
<1>7. ASSUME NEW h \in Handler, NEW t \in Task, NEW s, Plans!Rewrites(h, t, s) PROVE PlansInv'
  <2>1. Turn(h, [op |-> "recalculate"]) /\ UNCHANGED <<plan, reopened>>
    BY <1>7 DEF Plans!Rewrites, Turn, Quiet
  <2> QED BY <2>1, PlanKept
<1>8. ASSUME NEW h \in Handler, Plans!Recalculate(h) PROVE PlansInv'
  <2> DEFINE share == Plans!Rounded(Plans!Cardinality(Plans!Completed), Plans!Cardinality(Plans!Existing))
  <2>1. PICK r : r \in {Idle, [op |-> "store", share |-> share]} /\ Turn(h, r) /\ UNCHANGED <<plan, reopened>>
    BY <1>8 DEF Plans!Recalculate, Turn
  <2> QED BY <2>1, PlanKept
<1>9. ASSUME NEW h \in Handler, Plans!Store(h) \/ Plans!BreaksOff(h) PROVE PlansInv'
  <2>1. Turn(h, Idle) /\ UNCHANGED <<plan, reopened>>
    BY <1>9 DEF Plans!Store, Plans!BreaksOff, Turn
  <2> QED BY <2>1, PlanKept
<1>10. /\ Plans!Active \cup Plans!Closed \subseteq PlanStatus
       /\ {"APPROVED", "COMPLETED", "IN_PROGRESS"} \subseteq PlanStatus
  BY DEF PlanStatus, Plans!Active, Plans!Closed
<1> QED
  BY <1>1, <1>10, <1>2, <1>3, <1>4, <1>5, <1>6, <1>7, <1>8, <1>9 DEF Plans!Next, Plans!Approve,
    Plans!Update, Plans!UpdateProgress, Plans!UpdateAction, Plans!DeleteAction

LEMMA PlansOne == PlansInv => Plans!OneActivePlan
BY SameCount, AtMostOne DEF PlansInv, OneActive, Plans!OneActivePlan


(***************************************************************************)
(* AuthSessions.                                                            *)
(***************************************************************************)
\* As long as no two requests overlapped, no session is valid before the first sign-in, and
\* one until the second, unless it is being rotated, or it ended; a session that is to
\* be revoked is valid, and one is rotated when none is.
Rotated ==
  /\ DOMAIN request = Handler /\ DOMAIN session = Session /\ logins \in 0 .. 2
  /\ ~overlapped =>
       /\ logins = 0 => Sessions!Valid = {}
       /\ logins <= 1 => \A s, u \in Sessions!Valid : s = u
       /\ logins = 1 /\ Sessions!Valid = {} =>
            ended \/ \E h \in Handler : request[h].op = "rotate"
       /\ \A h \in Handler : request[h].op = "revoke" => request[h].of \in Sessions!Valid
       /\ \A h \in Handler : request[h].op = "rotate" =>
            logins # 0 /\ (logins = 1 => Sessions!Valid = {})

SessionsInv == Alone /\ Rotated

LEMMA SessionsInit == Sessions!Init => SessionsInv
<1> SUFFICES ASSUME Sessions!Init PROVE SessionsInv
  OBVIOUS
<1>1. /\ Sessions!Valid = {} /\ DOMAIN request = Handler /\ DOMAIN session = Session
      /\ \A h \in Handler : request[h].op = "idle"
  BY DEF Sessions!Init, Sessions!RequestsInit, Sessions!Idle, Sessions!Valid
<1>2. Alone
  BY DEF Sessions!Init, Sessions!RequestsInit, Sessions!Idle, Idle, Alone
<1> QED BY <1>1, <1>2 DEF SessionsInv, Rotated, Sessions!Init

\* A request goes on, and no session is written.
LEMMA SessionKept ==
  ASSUME SessionsInv, NEW h \in Handler, NEW r, Turn(h, r), request[h].op # "rotate", r.op # "rotate",
         r.op = "revoke" => r.of \in Sessions!Valid, UNCHANGED <<session, ended, logins>>
  PROVE  SessionsInv'
<1>1. /\ DOMAIN request' = Handler /\ Alone'
      /\ request'[h] = r
      /\ \A g \in Handler : g # h => request'[g] = request[g]
      /\ ~overlapped' => ~overlapped
  BY TurnDone DEF SessionsInv, Rotated
<1>2. Sessions!Valid' = Sessions!Valid
  BY DEF Sessions!Valid
<1>3. \A g \in Handler : request[g].op = "rotate" => request'[g].op = "rotate"
  BY <1>1
<1>4. \A g \in Handler : request'[g].op = "rotate" => request[g].op = "rotate"
  BY <1>1
<1>5. \A g \in Handler : request'[g].op = "revoke" /\ ~overlapped' => request'[g].of \in Sessions!Valid
  BY <1>1 DEF SessionsInv, Rotated
<1>6. Rotated'
  BY <1>1, <1>2, <1>3, <1>4, <1>5 DEF SessionsInv, Rotated
<1> QED BY <1>1, <1>6 DEF SessionsInv

LEMMA SessionsStep ==
  ASSUME SessionsInv, [Sessions!Next]_(Sessions!vars)
  PROVE  SessionsInv'
<1> USE DEF Idle, Sessions!Idle, Sessions!Serves, Sessions!Continues, Sessions!Answers,
      Sessions!Reads, Sessions!AtOnce, Sessions!Quiet, Sessions!rows, Sessions!history
<1>1. CASE UNCHANGED Sessions!vars
  BY <1>1 DEF SessionsInv, Rotated, Alone, Sessions!vars, Sessions!requests, Sessions!Valid
<1>2. ASSUME NEW h \in Handler,
             \/ Sessions!WrongPassword(h) \/ Sessions!Fail(h)
             \/ Sessions!RightPassword(h) \/ Sessions!Reset(h)
      PROVE  SessionsInv'
  <2>1. \E r : /\ r.op \in {"idle", "fail", "reset", "open"} /\ Turn(h, r) /\ request[h].op # "rotate"
               /\ UNCHANGED <<session, ended, logins>>
    <3>1. CASE Sessions!WrongPassword(h)
      <4> DEFINE r == [op |-> "fail", attempts |-> Sessions!Capped(attempts + 1)]
      <4>1. Turn(h, r) /\ request[h].op # "rotate" /\ UNCHANGED <<session, ended, logins>>
        BY <3>1 DEF Sessions!WrongPassword, Turn, Quiet
      <4>2. r.op = "fail"
        OBVIOUS
      <4> QED BY <4>1, <4>2
    <3>2. CASE Sessions!Fail(h)
      <4>1. Turn(h, Idle) /\ request[h].op # "rotate" /\ UNCHANGED <<session, ended, logins>>
        BY <3>2 DEF Sessions!Fail, Turn
      <4> QED BY <4>1
    <3>3. CASE Sessions!RightPassword(h)
      <4> DEFINE r == [op |-> IF attempts > 0 \/ locked THEN "reset" ELSE "open"]
      <4>1. Turn(h, r) /\ request[h].op # "rotate" /\ UNCHANGED <<session, ended, logins>>
        BY <3>3 DEF Sessions!RightPassword, Turn, Quiet
      <4>2. r.op \in {"reset", "open"}
        OBVIOUS
      <4> QED BY <4>1, <4>2
    <3>4. CASE Sessions!Reset(h)
      <4>1. Turn(h, [op |-> "open"]) /\ request[h].op # "rotate" /\ UNCHANGED <<session, ended, logins>>
        BY <3>4 DEF Sessions!Reset, Turn
      <4> QED BY <4>1
    <3> QED BY <1>2, <3>1, <3>2, <3>3, <3>4
  <2> QED BY <2>1, SessionKept
<1>3. ASSUME NEW h \in Handler, NEW s \in Session, Sessions!RefreshReads(h, s) PROVE SessionsInv'
  <2> DEFINE r == [op |-> "revoke", of |-> s]
  <2>1. Turn(h, r) /\ request[h].op # "rotate" /\ UNCHANGED <<session, ended, logins>>
    BY <1>3 DEF Sessions!RefreshReads, Turn, Quiet
  <2>2. r.op = "revoke" /\ r.of \in Sessions!Valid
    BY <1>3 DEF Sessions!RefreshReads, Sessions!Valid
  <2> HIDE DEF r
  <2> QED BY <2>1, <2>2, SessionKept
<1>4. ASSUME NEW h \in Handler, NEW s \in Session, Sessions!Open(h, s) PROVE SessionsInv'
  <2>1. /\ Turn(h, Idle) /\ request[h].op = "open" /\ session' = [session EXCEPT ![s] = "VALID"]
        /\ logins' = (IF logins < 2 THEN logins + 1 ELSE logins) /\ overlapped' = overlapped
    BY <1>4 DEF Sessions!Open, Turn
  <2>2. /\ DOMAIN request' = Handler /\ Alone'
        /\ \A g \in Handler : ~overlapped' => request'[g].op = "idle"
    BY <2>1, TurnDone DEF SessionsInv, Rotated
  <2>3. Sessions!Valid' = Sessions!Valid \cup {s} /\ DOMAIN session' = Session
    BY <2>1 DEF SessionsInv, Rotated, Sessions!Valid
  <2>4. logins' \in 1 .. 2 /\ (logins' = 1 => logins = 0)
    BY <2>1 DEF SessionsInv, Rotated
  <2>5. ~overlapped /\ logins' = 1 => Sessions!Valid' = {s}
    BY <2>3, <2>4 DEF SessionsInv, Rotated
  <2> QED BY <2>1, <2>2, <2>3, <2>4, <2>5 DEF SessionsInv, Rotated
<1>5. ASSUME NEW h \in Handler, Sessions!Revoke(h) PROVE SessionsInv'
  <2> DEFINE u == request[h].of
             r == [op |-> "rotate", of |-> u]
  <2>1. /\ Turn(h, r) /\ r.op = "rotate" /\ request[h].op = "revoke"
        /\ session' = [session EXCEPT ![u] = "REVOKED"] /\ UNCHANGED <<ended, logins, overlapped>>
    BY <1>5 DEF Sessions!Revoke, Turn
  <2> HIDE DEF r
  <2>2. /\ DOMAIN request' = Handler /\ Alone' /\ request'[h] = r
        /\ \A g \in Handler : ~overlapped' /\ g # h => request'[g].op = "idle"
    BY <2>1, TurnDone DEF SessionsInv, Rotated
  <2>3. Sessions!Valid' \subseteq Sessions!Valid \ {u} /\ DOMAIN session' = Session
    BY <2>1 DEF SessionsInv, Rotated, Sessions!Valid
  <2>4. ~overlapped => u \in Sessions!Valid
    BY <2>1 DEF SessionsInv, Rotated
  <2>5. ~overlapped => logins # 0 /\ (logins = 1 => Sessions!Valid' = {})
    BY <2>3, <2>4 DEF SessionsInv, Rotated
  <2> QED BY <2>1, <2>2, <2>3, <2>5 DEF SessionsInv, Rotated
<1>6. ASSUME NEW h \in Handler, NEW s \in Session, Sessions!Rotate(h, s) PROVE SessionsInv'
  <2>1. /\ Turn(h, Idle) /\ request[h].op = "rotate" /\ session' = [session EXCEPT ![s] = "VALID"]
        /\ UNCHANGED <<ended, logins, overlapped>>
    BY <1>6 DEF Sessions!Rotate, Turn
  <2>2. /\ DOMAIN request' = Handler /\ Alone'
        /\ \A g \in Handler : ~overlapped' => request'[g].op = "idle"
    BY <2>1, TurnDone DEF SessionsInv, Rotated
  <2>3. Sessions!Valid' = Sessions!Valid \cup {s} /\ DOMAIN session' = Session
    BY <2>1 DEF SessionsInv, Rotated, Sessions!Valid
  <2>4. ~overlapped => logins # 0 /\ (logins = 1 => Sessions!Valid' = {s})
    BY <2>1, <2>3 DEF SessionsInv, Rotated
  <2> QED BY <2>1, <2>2, <2>3, <2>4 DEF SessionsInv, Rotated
<1>7. ASSUME NEW s \in Session, Sessions!Logout(s) PROVE SessionsInv'
  <2>1. /\ session' = [session EXCEPT ![s] = "REVOKED"] /\ ended' /\ UNCHANGED <<logins, request>>
        /\ overlapped' = (overlapped \/ ~Quiet)
    BY <1>7 DEF Sessions!Logout, Quiet
  <2>2. Alone' /\ (~overlapped' => ~overlapped /\ \A g \in Handler : request'[g].op = "idle")
    BY <2>1, AtOnceTaken DEF SessionsInv
  <2>3. Sessions!Valid' \subseteq Sessions!Valid /\ DOMAIN session' = Session
    BY <2>1 DEF SessionsInv, Rotated, Sessions!Valid
  <2> QED BY <2>1, <2>2, <2>3 DEF SessionsInv, Rotated
<1>8. ASSUME NEW h \in Handler, Sessions!BreaksOff(h) PROVE SessionsInv'
  <2>1. /\ Turn(h, Idle) /\ UNCHANGED <<session, logins, overlapped>>
        /\ ended' = (ended \/ request[h].op = "rotate")
    BY <1>8 DEF Sessions!BreaksOff, Turn
  <2>2. /\ DOMAIN request' = Handler /\ Alone'
        /\ \A g \in Handler : ~overlapped' => request'[g].op = "idle"
        /\ \A g \in Handler : ~overlapped' /\ g # h => request[g].op = "idle"
    BY <2>1, TurnDone DEF SessionsInv, Rotated
  <2>3. Sessions!Valid' = Sessions!Valid /\ DOMAIN session' = Session
    BY <2>1 DEF SessionsInv, Rotated, Sessions!Valid
  <2>4. ~overlapped /\ logins = 1 /\ Sessions!Valid = {} => ended'
    BY <2>1, <2>2 DEF SessionsInv, Rotated
  <2> QED BY <2>1, <2>2, <2>3, <2>4 DEF SessionsInv, Rotated
<1> QED BY <1>1, <1>2, <1>3, <1>4, <1>5, <1>6, <1>7, <1>8 DEF Sessions!Next

LEMMA SessionsOne == SessionsInv => Sessions!OneSessionPerLogin
<1> SUFFICES ASSUME SessionsInv, Sessions!Quiet, ~overlapped, logins = 1
             PROVE  Cardinality(Sessions!Valid) = 1 \/ (ended /\ Sessions!Valid = {})
  BY SameCount DEF Sessions!OneSessionPerLogin
<1>1. \A h \in Handler : request[h].op # "rotate"
  <2>1. ASSUME NEW h \in Handler PROVE request[h].op # "rotate"
    <3>1. request[h] = [op |-> "idle"]
      BY DEF Sessions!Quiet, Sessions!Idle
    <3> QED BY <3>1
  <2> QED BY <2>1
<1>2. \A s, u \in Sessions!Valid : s = u
  BY DEF SessionsInv, Rotated
<1> QED BY <1>1, <1>2, AtMostOne DEF SessionsInv, Rotated


(***************************************************************************)
(* ScenarioControls.                                                        *)
(***************************************************************************)
Writes == {"unmarkToLink", "link", "unmarkToUpdate", "update", "unlink"}
ControlStep ==
  {Idle} \cup [op : Writes, of : Control, primary : BOOLEAN]
    \cup [op : {"promote"}, of : Control] \cup [op : {"first"}]

LEMMA ControlSteps ==
  /\ Idle \in ControlStep /\ [op |-> "first"] \in ControlStep
  /\ \A c \in Control : [op |-> "promote", of |-> c] \in ControlStep
  /\ \A o \in Writes, c \in Control, p \in BOOLEAN :
       [op |-> o, of |-> c, primary |-> p] \in ControlStep
BY DEF ControlStep

LEMMA ControlCarries ==
  ASSUME NEW r \in ControlStep
  PROVE  /\ r.op \in Writes => r.of \in Control /\ r.primary \in BOOLEAN
         /\ r.op \in Writes => \E o \in Writes, c \in Control, p \in BOOLEAN :
                                 r = [op |-> o, of |-> c, primary |-> p]
         /\ r.op = "promote" => r.of \in Control
BY DEF ControlStep, Writes, Idle

\* No link is primary.
NoPrimary == \A i \in DOMAIN links : ~links[i].primary

\* A request that is about to mark a control.
Marks(r) ==
  \/ r.op \in {"link", "update"} /\ r.primary
  \/ r.op \in {"first", "promote"}

\* What a request has read or done still holds of the links.
Fits(r) ==
  /\ r.op \in {"unmarkToLink", "unmarkToUpdate"} => r.primary
  /\ (r.op = "link" /\ r.primary) \/ r.op \in {"first", "promote"} => NoPrimary
  /\ r.op = "update" /\ r.primary =>
       \A i \in DOMAIN links : links[i].primary => links[i].control = r.of
  /\ r.op = "unlink" =>
       \A i \in DOMAIN links : links[i].control = r.of => links[i].primary = r.primary

LinkedOnce == \A i, j \in DOMAIN links : links[i].control = links[j].control => i = j
MarkedOnce == \A i, j \in DOMAIN links : links[i].primary /\ links[j].primary => i = j

\* A control is linked once.  As long as no two requests overlapped, one link is primary,
\* a request that is about to mark a control has taken the mark from the others, and one that
\* removes a link knows whether it is primary; a scenario that had a primary control has
\* one as long as it has controls, or a request is about to mark it.
Linking ==
  /\ LinkedOnce
  /\ marked => links # <<>>
  /\ ~overlapped =>
       /\ MarkedOnce
       /\ \A h \in Handler : Fits(request[h])
       /\ marked /\ ~linkCut => ~NoPrimary \/ \E h \in Handler : Marks(request[h])

ControlsInv == Controls!TypeOK /\ Alone /\ Linking

LEMMA LinkAt ==
  ASSUME links \in Seq(Controls!Link)
  PROVE  \A i \in DOMAIN links :
           i \in Nat /\ links[i] \in Controls!Link /\ links[i].control \in Control /\ links[i].primary \in BOOLEAN
<1>1. \A i \in DOMAIN links : i \in Nat /\ links[i] \in Controls!Link
  OBVIOUS
<1> QED BY <1>1 DEF Controls!Link

LEMMA OfAt ==
  ASSUME NEW c \in Controls!Linked
  PROVE  Controls!Of(c) \in DOMAIN links /\ links[Controls!Of(c)].control = c
BY DEF Controls!Of, Controls!Linked

LEMMA UnmarkedLinks ==
  ASSUME links \in Seq(Controls!Link)
  PROVE  /\ Controls!Unmarked \in Seq(Controls!Link) /\ DOMAIN Controls!Unmarked = DOMAIN links
         /\ \A i \in DOMAIN links : /\ Controls!Unmarked[i].control = links[i].control
                                    /\ ~Controls!Unmarked[i].primary
<1>1. \A i \in DOMAIN links :
        /\ [links[i] EXCEPT !.primary = FALSE] \in Controls!Link
        /\ [links[i] EXCEPT !.primary = FALSE].control = links[i].control
        /\ ~[links[i] EXCEPT !.primary = FALSE].primary
  <2> SUFFICES ASSUME NEW i \in DOMAIN links
               PROVE  /\ [links[i] EXCEPT !.primary = FALSE] \in Controls!Link
                      /\ [links[i] EXCEPT !.primary = FALSE].control = links[i].control
                      /\ ~[links[i] EXCEPT !.primary = FALSE].primary
    OBVIOUS
  <2>1. links[i] \in Controls!Link
    OBVIOUS
  <2> QED BY <2>1 DEF Controls!Link
<1>2. Len(links) \in Nat /\ DOMAIN links = 1 .. Len(links)
  OBVIOUS
<1>3. Controls!Unmarked \in [1 .. Len(links) -> Controls!Link]
  BY <1>1, <1>2 DEF Controls!Unmarked
<1>4. Controls!Unmarked \in Seq(Controls!Link)
  BY <1>2, <1>3
<1> QED BY <1>1, <1>2, <1>3, <1>4 DEF Controls!Unmarked

LEMMA MarkedLinks ==
  ASSUME links \in Seq(Controls!Link), NEW c \in Controls!Linked, NEW p \in BOOLEAN
  PROVE  LET k == Controls!Of(c)
             m == Controls!Marked(c, p)
         IN /\ m \in Seq(Controls!Link) /\ DOMAIN m = DOMAIN links
            /\ m[k].control = c /\ m[k].primary = p
            /\ \A i \in DOMAIN links : i # k => m[i] = links[i]
<1> DEFINE k == Controls!Of(c)
           l == [links[k] EXCEPT !.primary = p]
<1>1. k \in DOMAIN links /\ links[k].control = c /\ links[k] \in Controls!Link
  BY OfAt, LinkAt
<1>2. l \in Controls!Link /\ l.control = c /\ l.primary = p
  BY <1>1 DEF Controls!Link
<1>3. Controls!Marked(c, p) = [links EXCEPT ![k] = l]
  BY DEF Controls!Marked
<1> HIDE DEF k, l
<1>4. [links EXCEPT ![k] = l] \in Seq(Controls!Link)
  BY <1>1, <1>2
<1> QED BY <1>1, <1>2, <1>3, <1>4 DEF k

\* What is left when a link is removed: the links before it and after it.
LEMMA RemovedLinks ==
  ASSUME links \in Seq(Controls!Link), NEW k \in DOMAIN links
  PROVE  LET m == Controls!RemoveAt(links, k)
         IN /\ m \in Seq(Controls!Link)
            /\ DOMAIN m = 1 .. Len(links) - 1 /\ (m = <<>> <=> Len(links) = 1)
            /\ \A i \in DOMAIN m : /\ i < k => m[i] = links[i]
                                   /\ i >= k => m[i] = links[i + 1]
<1> DEFINE n == Len(links)
           a == SubSeq(links, 1, k - 1)
           b == SubSeq(links, k + 1, n)
<1>1. n \in Nat /\ k \in 1 .. n
  OBVIOUS
<1>2. a \in Seq(Controls!Link) /\ Len(a) = k - 1 /\ \A i \in 1 .. k - 1 : a[i] = links[i]
  BY <1>1
<1>3. b \in Seq(Controls!Link) /\ Len(b) = n - k /\ \A i \in 1 .. n - k : b[i] = links[k + i]
  BY <1>1
<1> HIDE DEF a, b, n
<1>4. /\ a \o b \in Seq(Controls!Link) /\ Len(a \o b) = n - 1
      /\ \A i \in 1 .. n - 1 : /\ i < k => (a \o b)[i] = a[i]
                               /\ i >= k => (a \o b)[i] = b[i - (k - 1)]
  <2>1. a \o b \in Seq(Controls!Link) /\ Len(a \o b) = Len(a) + Len(b)
    BY <1>2, <1>3, ConcatProperties
  <2>2. \A i \in 1 .. Len(a) + Len(b) :
          (a \o b)[i] = IF i <= Len(a) THEN a[i] ELSE b[i - Len(a)]
    BY <1>2, <1>3, ConcatProperties
  <2>3. Len(a) = k - 1 /\ Len(a) + Len(b) = n - 1
    BY <1>1, <1>2, <1>3
  <2> QED BY <1>1, <2>1, <2>2, <2>3
<1>5. \A i \in 1 .. n - 1 : /\ i < k => (a \o b)[i] = links[i]
                            /\ i >= k => (a \o b)[i] = links[i + 1]
  <2> SUFFICES ASSUME NEW i \in 1 .. n - 1
               PROVE  /\ i < k => (a \o b)[i] = links[i]
                      /\ i >= k => (a \o b)[i] = links[i + 1]
    OBVIOUS
  <2>1. CASE i < k
    BY <1>1, <1>2, <1>4, <2>1
  <2>2. CASE i >= k
    <3>1. i - (k - 1) \in 1 .. n - k /\ k + (i - (k - 1)) = i + 1
      BY <1>1, <2>2
    <3>2. b[i - (k - 1)] = links[k + (i - (k - 1))]
      BY <1>3, <3>1
    <3>3. (a \o b)[i] = b[i - (k - 1)]
      BY <1>4, <2>2
    <3> QED BY <1>1, <2>2, <3>1, <3>2, <3>3
  <2> QED BY <1>1, <2>1, <2>2
<1>6. Controls!RemoveAt(links, k) = a \o b
  BY DEF Controls!RemoveAt, a, b, n
<1>7. DOMAIN (a \o b) = 1 .. n - 1 /\ (a \o b = <<>> <=> n = 1)
  BY <1>1, <1>4
<1> QED BY <1>4, <1>5, <1>6, <1>7 DEF n

LEMMA ControlsInit == Controls!Init => ControlsInv
<1> SUFFICES ASSUME Controls!Init PROVE ControlsInv
  OBVIOUS
<1>1. /\ links = <<>> /\ ~marked /\ DOMAIN links = {}
      /\ \A h \in Handler : request[h] = Idle /\ request[h].op = "idle"
  BY DEF Controls!Init, Controls!RequestsInit, Controls!Idle, Idle
<1>2. Controls!TypeOK
  <2>1. links \in Seq(Controls!Link)
    BY <1>1
  <2>2. request = [h \in Handler |-> Controls!Idle]
    BY DEF Controls!Init, Controls!RequestsInit
  <2>3. \A S : request \in [Handler -> {Controls!Idle} \cup S]
    BY <2>2
  <2> QED BY <2>1, <2>3 DEF Controls!Init, Controls!RequestsInit, Controls!TypeOK
<1> QED BY <1>1, <1>2 DEF ControlsInv, Alone, Linking, LinkedOnce, MarkedOnce, Fits

LEMMA ControlsTyped ==
  Controls!TypeOK <=> /\ links \in Seq(Controls!Link) /\ marked \in BOOLEAN /\ linkCut \in BOOLEAN
                      /\ request \in [Handler -> ControlStep] /\ overlapped \in BOOLEAN
<1>1. ControlStep =
        {Controls!Idle} \cup [op : {"unmarkToLink", "link", "unmarkToUpdate", "update"},
                              of : Control, primary : BOOLEAN]
          \cup [op : {"unlink"}, of : Control, primary : BOOLEAN]
          \cup [op : {"promote"}, of : Control] \cup [op : {"first"}]
  BY DEF ControlStep, Writes, Idle, Controls!Idle
<1> QED BY <1>1 DEF Controls!TypeOK

\* What is to be shown of a request that goes on with r.
LEMMA LinkingTurn ==
  ASSUME ControlsInv, NEW h \in Handler, NEW r \in ControlStep, Turn(h, r),
         links' \in Seq(Controls!Link), marked' \in BOOLEAN, linkCut' \in BOOLEAN, overlapped' \in BOOLEAN,
         LinkedOnce', marked' => links' # <<>>,
         ~overlapped' => /\ MarkedOnce' /\ Fits(r)'
                         /\ marked' /\ ~linkCut' => ~NoPrimary' \/ Marks(r)
  PROVE  ControlsInv'
<1>1. request \in [Handler -> ControlStep] /\ Alone
  BY ControlsTyped DEF ControlsInv
<1>2. /\ request' \in [Handler -> ControlStep] /\ request'[h] = r
      /\ Alone' /\ (~overlapped' => \A g \in Handler : g # h => request'[g] = Idle)
  BY <1>1, TurnTaken
<1>3. Controls!TypeOK'
  <2>1. (Controls!TypeOK <=> /\ links \in Seq(Controls!Link) /\ marked \in BOOLEAN /\ linkCut \in BOOLEAN
                             /\ request \in [Handler -> ControlStep] /\ overlapped \in BOOLEAN)'
    BY ControlsTyped, PTL
  <2>2. Controls!Link' = Controls!Link /\ ControlStep' = ControlStep
    BY DEF Controls!Link, ControlStep, Writes, Idle
  <2> QED BY <1>2, <2>1, <2>2
<1>4. ~overlapped' => \A g \in Handler : Fits(request[g])'
  <2> SUFFICES ASSUME ~overlapped', NEW g \in Handler PROVE Fits(request[g])'
    OBVIOUS
  <2>1. CASE g = h
    BY <1>2, <2>1 DEF Fits
  <2>2. CASE g # h
    BY <1>2, <2>2 DEF Fits, Idle
  <2> QED BY <2>1, <2>2
<1>5. Marks(r) => \E g \in Handler : Marks(request[g])'
  BY <1>2 DEF Marks
<1> QED BY <1>2, <1>3, <1>4, <1>5 DEF ControlsInv, Linking


\* A request that reads, or goes on, and writes no link.
LEMMA LinksRead ==
  ASSUME ControlsInv, NEW h \in Handler, NEW r \in ControlStep, Turn(h, r), Fits(r),
         overlapped' \in BOOLEAN, UNCHANGED <<links, marked>>, linkCut' \in BOOLEAN,
         marked /\ ~linkCut' /\ Marks(request[h]) => ~NoPrimary \/ Marks(r),
         linkCut => linkCut'
  PROVE  ControlsInv'
<1>1. links \in Seq(Controls!Link) /\ marked \in BOOLEAN /\ Linking
  BY ControlsTyped DEF ControlsInv
<1>2. ~overlapped' => ~overlapped /\ \A g \in Handler : g # h => request[g] = Idle
  <2>1. request \in [Handler -> ControlStep] /\ Alone
    BY ControlsTyped DEF ControlsInv
  <2> QED BY <2>1, TurnTaken
<1>3. Fits(r)' /\ (LinkedOnce' <=> LinkedOnce) /\ (MarkedOnce' <=> MarkedOnce) /\ (NoPrimary' <=> NoPrimary)
  BY DEF Fits, LinkedOnce, MarkedOnce, NoPrimary
<1>4. ~overlapped' /\ marked' /\ ~linkCut' => ~NoPrimary' \/ Marks(r)
  <2> SUFFICES ASSUME ~overlapped', marked', ~linkCut' PROVE ~NoPrimary \/ Marks(r)
    BY <1>3
  <2>1. ~NoPrimary \/ \E g \in Handler : Marks(request[g])
    BY <1>1, <1>2 DEF Linking
  <2>2. \A g \in Handler : Marks(request[g]) => g = h
    BY <1>2 DEF Marks, Idle
  <2> QED BY <2>1, <2>2
<1>5. links' \in Seq(Controls!Link)'
  BY <1>1 DEF Controls!Link
<1>6. Controls!Link' = Controls!Link
  BY DEF Controls!Link
<1>7. LinkedOnce' /\ (marked' => links' # <<>>) /\ (~overlapped' => MarkedOnce')
  BY <1>1, <1>2, <1>3 DEF Linking
<1> QED BY <1>1, <1>3, <1>4, <1>5, <1>6, <1>7, LinkingTurn

\* A link that a request marks: it is the only one, if the mark had been taken from the others.
LEMMA LinkMarked ==
  ASSUME links \in Seq(Controls!Link), LinkedOnce, NEW c \in Controls!Linked, NEW p \in BOOLEAN,
         links' = Controls!Marked(c, p)
  PROVE  /\ links' \in Seq(Controls!Link) /\ links' # <<>> /\ LinkedOnce'
         /\ p /\ (\A i \in DOMAIN links : links[i].primary => links[i].control = c) =>
              MarkedOnce' /\ ~NoPrimary'
         /\ ~p /\ MarkedOnce => MarkedOnce'
         /\ ~p /\ ~NoPrimary /\ c \notin Controls!Primary => ~NoPrimary'
<1> DEFINE k == Controls!Of(c)
<1>1. /\ links' \in Seq(Controls!Link) /\ DOMAIN links' = DOMAIN links
      /\ k \in DOMAIN links /\ links[k].control = c
      /\ links'[k].control = c /\ links'[k].primary = p
      /\ \A i \in DOMAIN links : i # k => links'[i] = links[i]
  BY MarkedLinks, OfAt
<1> HIDE DEF k
<1>2. links' # <<>>
  BY <1>1
<1>3. \A i \in DOMAIN links : links'[i].control = links[i].control
  BY <1>1
<1>4. LinkedOnce'
  BY <1>1, <1>3 DEF LinkedOnce
<1>5. p /\ (\A i \in DOMAIN links : links[i].primary => links[i].control = c) =>
        MarkedOnce' /\ ~NoPrimary'
  <2> SUFFICES ASSUME p, \A i \in DOMAIN links : links[i].primary => links[i].control = c
               PROVE  MarkedOnce' /\ ~NoPrimary'
    OBVIOUS
  <2>1. \A i \in DOMAIN links : links[i].primary => i = k
    BY <1>1 DEF LinkedOnce
  <2>2. \A i \in DOMAIN links' : links'[i].primary => i = k
    BY <1>1, <2>1
  <2>3. MarkedOnce'
    BY <2>2 DEF MarkedOnce
  <2>4. ~NoPrimary'
    BY <1>1 DEF NoPrimary
  <2> QED BY <2>3, <2>4
<1>6. ~p /\ MarkedOnce => MarkedOnce'
  BY <1>1 DEF MarkedOnce
<1>7. ~p /\ ~NoPrimary /\ c \notin Controls!Primary => ~NoPrimary'
  BY <1>1 DEF NoPrimary, Controls!Primary
<1> QED BY <1>1, <1>2, <1>4, <1>5, <1>6, <1>7

LEMMA ControlsStep ==
  ASSUME ControlsInv, [Controls!Next]_(Controls!vars)
  PROVE  ControlsInv'
<1> USE DEF Controls!Idle, Idle, Controls!Serves, Controls!Continues, Controls!Answers,
  Controls!Reads, Controls!Quiet, Quiet
<1>0. /\ links \in Seq(Controls!Link) /\ marked \in BOOLEAN /\ linkCut \in BOOLEAN
      /\ request \in [Handler -> ControlStep] /\ overlapped \in BOOLEAN /\ Linking
  BY ControlsTyped DEF ControlsInv
<1>a. Controls!Link' = Controls!Link
  BY DEF Controls!Link
<1>b. \A h \in Handler : ~overlapped => Fits(request[h])
  BY <1>0 DEF Linking
<1>1. CASE UNCHANGED Controls!vars
  BY <1>1 DEF ControlsInv, Controls!TypeOK, Controls!Link, Alone, Linking, LinkedOnce,
    MarkedOnce, Fits, NoPrimary, Marks, Controls!vars, Controls!requests
<1>2. ASSUME NEW h \in Handler, NEW c \in Control, NEW p \in BOOLEAN, Controls!LinkReads(h, c, p)
      PROVE  ControlsInv'
  <2> DEFINE r == [op |-> IF p THEN "unmarkToLink" ELSE "link", of |-> c, primary |-> p]
  <2>1. Turn(h, r) /\ overlapped' \in BOOLEAN /\ UNCHANGED <<links, marked, linkCut>> /\ request[h].op = "idle"
    BY <1>0, <1>2 DEF Controls!LinkReads, Turn
  <2>2. r \in ControlStep /\ (r.op = "unmarkToLink" => r.primary)
        /\ (r.op = "link" => ~r.primary) /\ r.op \in {"unmarkToLink", "link"}
    BY ControlSteps DEF Writes
  <2> HIDE DEF r
  <2>3. Fits(r)
    BY <2>2 DEF Fits
  <2> QED BY <1>0, <2>1, <2>2, <2>3, LinksRead DEF Marks
<1>3. ASSUME NEW h \in Handler, NEW c \in Control, NEW p \in BOOLEAN, Controls!UpdateReads(h, c, p)
      PROVE  ControlsInv'
  <2>1. PICK o \in {"unmarkToUpdate", "update"} :
          /\ o = IF p /\ c \notin Controls!Primary THEN "unmarkToUpdate" ELSE "update"
          /\ Turn(h, [op |-> o, of |-> c, primary |-> p])
    BY <1>3 DEF Controls!UpdateReads, Turn
  <2> DEFINE r == [op |-> o, of |-> c, primary |-> p]
  <2>2. /\ Turn(h, r) /\ overlapped' \in BOOLEAN /\ UNCHANGED <<links, marked, linkCut>>
        /\ request[h].op = "idle" /\ (~overlapped' => ~overlapped)
    BY <1>0, <1>3, <2>1 DEF Controls!UpdateReads
  <2>3. r \in ControlStep /\ r.op = o /\ r.of = c /\ r.primary = p
    BY ControlSteps DEF Writes
  <2> HIDE DEF r
  <2>4. CASE overlapped'
    <3>1. r.op # "unlink" /\ r.op # "link" /\ r.op # "first" /\ r.op # "promote"
      BY <2>1, <2>3
    <3>2. \A g \in Handler : g = g
      OBVIOUS
    <3> QED
      BY <1>0, <1>a, <2>2, <2>3, <2>4, LinkingTurn DEF Linking, LinkedOnce
  <2>5. CASE ~overlapped'
    <3>1. MarkedOnce
      BY <1>0, <2>2, <2>5 DEF Linking
    <3>2. Fits(r)
      BY <2>1, <2>3, <3>1 DEF Fits, MarkedOnce, Controls!Primary
    <3> QED BY <1>0, <2>2, <2>3, <3>2, LinksRead DEF Marks
  <2> QED BY <2>4, <2>5
<1>4. ASSUME NEW h \in Handler, NEW c \in Control, Controls!UnlinkReads(h, c) PROVE ControlsInv'
  <2>1. PICK p \in BOOLEAN :
          (p <=> c \in Controls!Primary) /\ Turn(h, [op |-> "unlink", of |-> c, primary |-> p])
    <3>1. (c \in Controls!Primary) \in BOOLEAN
      OBVIOUS
    <3>2. Turn(h, [op |-> "unlink", of |-> c, primary |-> c \in Controls!Primary])
      BY <1>4 DEF Controls!UnlinkReads, Turn
    <3> QED BY <3>1, <3>2
  <2> DEFINE r == [op |-> "unlink", of |-> c, primary |-> p]
  <2>2. /\ Turn(h, r) /\ overlapped' \in BOOLEAN /\ UNCHANGED <<links, marked, linkCut>>
        /\ request[h].op = "idle"
    BY <1>0, <1>4, <2>1 DEF Controls!UnlinkReads
  <2>3. r \in ControlStep /\ r.op = "unlink" /\ r.of = c /\ r.primary = p
    BY ControlSteps DEF Writes
  <2> HIDE DEF r
  <2>4. \A i \in DOMAIN links : links[i].control = c => links[i].primary = p
    <3> SUFFICES ASSUME NEW i \in DOMAIN links, links[i].control = c PROVE links[i].primary = p
      OBVIOUS
    <3>1. links[i].primary \in BOOLEAN
      BY <1>0, LinkAt
    <3>2. links[i].primary <=> c \in Controls!Primary
      BY <1>0 DEF Controls!Primary, Linking, LinkedOnce
    <3> QED BY <2>1, <3>1, <3>2
  <2>5. Fits(r)
    BY <2>3, <2>4 DEF Fits
  <2> QED BY <1>0, <2>2, <2>3, <2>5, LinksRead DEF Marks
<1>5. ASSUME NEW h \in Handler, Controls!Unmark(h) PROVE ControlsInv'
  <2>1. request[h] \in ControlStep /\ request[h].op \in Writes /\ request[h] # Idle
    BY <1>0, <1>5 DEF Controls!Unmark, Writes
  <2>2. PICK o \in Writes, c \in Control, p \in BOOLEAN : request[h] = [op |-> o, of |-> c, primary |-> p]
    BY <2>1, ControlCarries
  <2>3. o \in {"unmarkToLink", "unmarkToUpdate"}
    BY <1>5, <2>2 DEF Controls!Unmark
  <2> DEFINE q == IF o = "unmarkToLink" THEN "link" ELSE "update"
             r == [op |-> q, of |-> c, primary |-> p]
  <2>4. [request[h] EXCEPT !.op = IF @ = "unmarkToLink" THEN "link" ELSE "update"] = r
    BY <2>2
  <2>5. /\ Turn(h, r) /\ UNCHANGED <<marked, linkCut, overlapped>> /\ links' = Controls!Unmarked
    BY <1>5, <2>1, <2>4 DEF Controls!Unmark, Turn
  <2>6. r \in ControlStep /\ r.op = q /\ r.op \in {"link", "update"} /\ r.primary = p
    BY ControlSteps DEF Writes
  <2>7. ~overlapped => p
    BY <1>b, <2>2, <2>3 DEF Fits
  <2> HIDE DEF r, q
  <2>8. /\ links' \in Seq(Controls!Link) /\ DOMAIN links' = DOMAIN links
        /\ \A i \in DOMAIN links : links'[i].control = links[i].control /\ ~links'[i].primary
    BY <1>0, <2>5, UnmarkedLinks
  <2>9. LinkedOnce' /\ MarkedOnce' /\ NoPrimary' /\ (marked' => links' # <<>>)
    BY <1>0, <2>5, <2>8 DEF Linking, LinkedOnce, MarkedOnce, NoPrimary
  <2>10. Fits(r)'
    BY <2>6, <2>9 DEF Fits, NoPrimary
  <2>11. ~overlapped => Marks(r)
    BY <2>6, <2>7 DEF Marks
  <2> QED BY <1>0, <2>5, <2>6, <2>8, <2>9, <2>10, <2>11, LinkingTurn
<1>6. ASSUME NEW h \in Handler, Controls!Create(h) PROVE ControlsInv'
  <2>1. request[h] \in ControlStep /\ request[h].op = "link" /\ request[h] # Idle
    BY <1>0, <1>6 DEF Controls!Create
  <2>2. PICK c \in Control, p \in BOOLEAN : request[h].of = c /\ request[h].primary = p
    BY <2>1, ControlCarries DEF Writes
  <2> DEFINE new == [control |-> c, primary |-> p]
             n == Len(links)
  <2>3. /\ Turn(h, Idle) /\ UNCHANGED <<linkCut, overlapped>>
        /\ links' = Append(links, new) /\ marked' = (marked \/ p) /\ c \notin Controls!Linked
    BY <1>6, <2>1, <2>2 DEF Controls!Create, Turn
  <2>4. new \in Controls!Link /\ new.control = c /\ new.primary = p
    BY DEF Controls!Link
  <2> HIDE DEF new
  <2>5. n \in Nat /\ DOMAIN links = 1 .. n
    BY <1>0
  <2>6. /\ links' \in Seq(Controls!Link) /\ DOMAIN links' = 1 .. n + 1 /\ links'[n + 1] = new
        /\ \A i \in 1 .. n : links'[i] = links[i]
    BY <1>0, <2>3, <2>4
  <2> HIDE DEF n
  <2>7. links' # <<>> /\ marked' \in BOOLEAN
    BY <1>0, <2>3, <2>5, <2>6
  <2>8. LinkedOnce'
    BY <1>0, <2>3, <2>4, <2>5, <2>6 DEF Linking, LinkedOnce, Controls!Linked
  <2>9. ~overlapped /\ p => NoPrimary
    BY <1>b, <2>1, <2>2 DEF Fits
  <2>10. ~overlapped => MarkedOnce'
    BY <1>0, <2>4, <2>5, <2>6, <2>9 DEF Linking, MarkedOnce, NoPrimary
  <2>11. (~NoPrimary => ~NoPrimary') /\ (p => ~NoPrimary')
    BY <2>4, <2>5, <2>6 DEF NoPrimary
  <2>12. ~overlapped /\ marked /\ ~linkCut /\ ~p => ~NoPrimary
    <3>1. ~overlapped => \A g \in Handler : g # h => request[g] = Idle
      BY <2>1 DEF ControlsInv, Alone
    <3>2. ~overlapped => \A g \in Handler : Marks(request[g]) => g = h
      BY <3>1 DEF Marks
    <3>3. ~p => ~Marks(request[h])
      BY <2>1, <2>2 DEF Marks
    <3> QED BY <1>0, <3>2, <3>3 DEF Linking
  <2>13. Fits(Idle)' /\ Idle \in ControlStep
    BY ControlSteps DEF Fits
  <2> QED BY <1>0, <2>3, <2>6, <2>7, <2>8, <2>10, <2>11, <2>12, <2>13, LinkingTurn
<1>7. ASSUME NEW h \in Handler, Controls!Update(h) PROVE ControlsInv'
  <2>1. request[h] \in ControlStep /\ request[h].op = "update" /\ request[h] # Idle
    BY <1>0, <1>7 DEF Controls!Update
  <2>2. PICK c \in Control, p \in BOOLEAN : request[h].of = c /\ request[h].primary = p
    BY <2>1, ControlCarries DEF Writes
  <2>3. /\ Turn(h, Idle) /\ UNCHANGED <<linkCut, overlapped>> /\ c \in Controls!Linked
        /\ links' = Controls!Marked(c, p) /\ marked' = (p \/ (marked /\ c \notin Controls!Primary))
    BY <1>7, <2>1, <2>2 DEF Controls!Update, Turn
  <2>4. LinkedOnce
    BY <1>0 DEF Linking
  <2>5. /\ links' \in Seq(Controls!Link) /\ links' # <<>> /\ LinkedOnce'
        /\ p /\ (\A i \in DOMAIN links : links[i].primary => links[i].control = c) =>
             MarkedOnce' /\ ~NoPrimary'
        /\ ~p /\ MarkedOnce => MarkedOnce'
        /\ ~p /\ ~NoPrimary /\ c \notin Controls!Primary => ~NoPrimary'
    BY <1>0, <2>3, <2>4, LinkMarked
  <2>6. ~overlapped => MarkedOnce
    BY <1>0 DEF Linking
  <2>7. ~overlapped /\ p => \A i \in DOMAIN links : links[i].primary => links[i].control = c
    BY <1>b, <2>1, <2>2 DEF Fits
  <2>8. ~overlapped /\ marked /\ ~linkCut /\ ~p => ~NoPrimary
    <3>1. ~overlapped => \A g \in Handler : g # h => request[g] = Idle
      BY <2>1 DEF ControlsInv, Alone
    <3>2. ~overlapped => \A g \in Handler : Marks(request[g]) => g = h
      BY <3>1 DEF Marks
    <3>3. ~p => ~Marks(request[h])
      BY <2>1, <2>2 DEF Marks
    <3> QED BY <1>0, <3>2, <3>3 DEF Linking
  <2>9. Fits(Idle)' /\ Idle \in ControlStep
    BY ControlSteps DEF Fits
  <2>10. marked' \in BOOLEAN /\ (marked' => links' # <<>>)
    BY <1>0, <2>3, <2>5
  <2>11. ~overlapped => MarkedOnce'
    BY <2>5, <2>6, <2>7
  <2>12. ~overlapped /\ marked' /\ ~linkCut => ~NoPrimary'
    BY <2>3, <2>5, <2>7, <2>8
  <2> QED BY <1>0, <2>3, <2>5, <2>9, <2>10, <2>11, <2>12, LinkingTurn
<1>8. ASSUME NEW h \in Handler, Controls!Unlink(h) PROVE ControlsInv'
  <2>1. request[h] \in ControlStep /\ request[h].op = "unlink" /\ request[h] # Idle
    BY <1>0, <1>8 DEF Controls!Unlink
  <2>2. PICK c \in Control, p \in BOOLEAN : request[h].of = c /\ request[h].primary = p
    BY <2>1, ControlCarries DEF Writes
  <2> DEFINE r == IF p THEN [op |-> "first"] ELSE Idle
             n == Len(links)
  <2>3. PICK k \in DOMAIN links : links[k].control = c /\ links' = Controls!RemoveAt(links, k)
    BY <1>8, <2>2, OfAt DEF Controls!Unlink
  <2>4. Turn(h, r) /\ UNCHANGED <<linkCut, overlapped>> /\ marked' = (marked /\ links' # <<>>)
    BY <1>8, <2>1, <2>2 DEF Controls!Unlink, Turn
  <2>5. r \in ControlStep /\ (p => r.op = "first") /\ (~p => r.op = "idle")
    BY ControlSteps
  <2> HIDE DEF r
  <2>6. n \in Nat /\ DOMAIN links = 1 .. n /\ k \in 1 .. n
    BY <1>0
  <2>7. /\ links' \in Seq(Controls!Link) /\ DOMAIN links' = 1 .. n - 1
        /\ \A i \in 1 .. n - 1 : /\ i < k => links'[i] = links[i]
                                 /\ i >= k => links'[i] = links[i + 1]
    BY <1>0, <2>3, RemovedLinks
  <2> HIDE DEF n
  <2> DEFINE at(i) == IF i < k THEN i ELSE i + 1
  <2>8. \A i \in 1 .. n - 1 : at(i) \in 1 .. n /\ at(i) # k /\ links'[i] = links[at(i)]
    BY <2>6, <2>7
  <2>9. \A i, j \in 1 .. n - 1 : at(i) = at(j) => i = j
    BY <2>6
  <2>10. \A i \in 1 .. n : i # k => \E j \in 1 .. n - 1 : at(j) = i
    <3> SUFFICES ASSUME NEW i \in 1 .. n, i # k PROVE \E j \in 1 .. n - 1 : at(j) = i
      OBVIOUS
    <3>1. CASE i < k
      BY <2>6, <3>1
    <3>2. CASE i > k
      <4>1. i - 1 \in 1 .. n - 1 /\ at(i - 1) = i
        BY <2>6, <3>2
      <4> QED BY <4>1
    <3> QED BY <2>6, <3>1, <3>2
  <2> HIDE DEF at
  <2>11. LinkedOnce' /\ (MarkedOnce => MarkedOnce')
    BY <1>0, <2>6, <2>7, <2>8, <2>9 DEF Linking, LinkedOnce, MarkedOnce
  <2>12. ~overlapped => /\ MarkedOnce
                        /\ links[k].primary = p
    BY <1>0, <1>b, <2>1, <2>2, <2>3 DEF Linking, Fits
  <2>13. ~overlapped /\ p => NoPrimary'
    BY <2>6, <2>7, <2>8, <2>12 DEF NoPrimary, MarkedOnce
  <2>14. ~overlapped /\ ~p /\ ~NoPrimary => ~NoPrimary'
    <3> SUFFICES ASSUME ~overlapped, ~p, ~NoPrimary PROVE ~NoPrimary'
      OBVIOUS
    <3>1. PICK i \in 1 .. n : links[i].primary
      BY <2>6 DEF NoPrimary
    <3>2. PICK j \in 1 .. n - 1 : at(j) = i
      BY <2>10, <2>12, <3>1
    <3>3. links'[j].primary
      BY <2>8, <3>1, <3>2
    <3> QED BY <2>7, <3>3 DEF NoPrimary
  <2>15. ~overlapped /\ marked /\ ~linkCut => ~NoPrimary
    <3>1. ~overlapped => \A g \in Handler : g # h => request[g] = Idle
      BY <2>1 DEF ControlsInv, Alone
    <3>2. ~overlapped => \A g \in Handler : ~Marks(request[g])
      BY <2>1, <3>1 DEF Marks
    <3> QED BY <1>0, <3>2 DEF Linking
  <2>16. (p => Marks(r)) /\ (~overlapped => Fits(r)')
    BY <2>5, <2>13 DEF Marks, Fits
  <2>17. marked' \in BOOLEAN /\ (marked' => links' # <<>> /\ marked)
    BY <1>0, <2>4
  <2> QED BY <1>0, <2>4, <2>5, <2>7, <2>11, <2>12, <2>14, <2>15, <2>16, <2>17, LinkingTurn
<1>9. ASSUME NEW h \in Handler, Controls!First(h) PROVE ControlsInv'
  <2>1. /\ request[h].op = "first" /\ UNCHANGED <<links, marked, linkCut, overlapped>>
        /\ (~overlapped => NoPrimary)
    BY <1>b, <1>9 DEF Controls!First, Fits
  <2>2. CASE links = <<>>
    <3>1. Turn(h, Idle) /\ Idle \in ControlStep /\ Fits(Idle)
      BY <1>9, <2>1, <2>2, ControlSteps DEF Controls!First, Turn, Fits
    <3>2. ~marked
      BY <1>0, <2>2 DEF Linking
    <3> QED BY <1>0, <2>1, <3>1, <3>2, LinksRead
  <2>3. CASE links # <<>>
    <3>1. 1 \in DOMAIN links
      BY <1>0, <2>3
    <3>2. PICK c \in Control : c = links[1].control
      BY <1>0, <3>1, LinkAt
    <3> DEFINE r == [op |-> "promote", of |-> c]
    <3>3. Turn(h, r) /\ r \in ControlStep /\ r.op = "promote"
      BY <1>9, <2>1, <2>3, <3>2, ControlSteps DEF Controls!First, Turn
    <3> HIDE DEF r
    <3>4. Marks(r) /\ (~overlapped => Fits(r))
      BY <2>1, <3>3 DEF Marks, Fits
    <3>5. /\ links' \in Seq(Controls!Link) /\ LinkedOnce' /\ (marked' => links' # <<>>)
          /\ (~overlapped => MarkedOnce' /\ Fits(r)')
      BY <1>0, <2>1, <3>4 DEF Linking, LinkedOnce, MarkedOnce, Fits, NoPrimary
    <3> QED BY <1>0, <2>1, <3>3, <3>4, <3>5, LinkingTurn
  <2> QED BY <2>2, <2>3
<1>10. ASSUME NEW h \in Handler, Controls!Promote(h) PROVE ControlsInv'
  <2>1. PICK c \in Control : request[h].op = "promote" /\ request[h].of = c
    BY <1>0, <1>10, ControlCarries DEF Controls!Promote
  <2>2. /\ Turn(h, Idle) /\ UNCHANGED <<marked, linkCut, overlapped>> /\ c \in Controls!Linked
        /\ links' = Controls!Marked(c, TRUE)
    BY <1>10, <2>1 DEF Controls!Promote, Turn
  <2>3. LinkedOnce /\ (~overlapped => NoPrimary)
    BY <1>0, <1>b, <2>1 DEF Linking, Fits
  <2>4. ~overlapped => \A i \in DOMAIN links : links[i].primary => links[i].control = c
    BY <2>3 DEF NoPrimary
  <2>5. /\ links' \in Seq(Controls!Link) /\ links' # <<>> /\ LinkedOnce'
        /\ (~overlapped => MarkedOnce' /\ ~NoPrimary')
    BY <1>0, <2>2, <2>3, <2>4, LinkMarked
  <2>6. Fits(Idle)' /\ Idle \in ControlStep
    BY ControlSteps DEF Fits
  <2> QED BY <1>0, <2>2, <2>5, <2>6, LinkingTurn
<1>11. ASSUME NEW h \in Handler, Controls!BreaksOff(h) PROVE ControlsInv'
  <2>1. Turn(h, Idle) /\ UNCHANGED <<links, marked, overlapped>> /\ linkCut' = TRUE
    BY <1>11 DEF Controls!BreaksOff, Turn
  <2>2. Fits(Idle) /\ Idle \in ControlStep
    BY ControlSteps DEF Fits
  <2> QED BY <1>0, <2>1, <2>2, LinksRead
<1> QED
  BY <1>1, <1>2, <1>3, <1>4, <1>5, <1>6, <1>7, <1>8, <1>9, <1>10, <1>11 DEF Controls!Next

LEMMA ControlsOne == ControlsInv => Controls!OnePrimary /\ Controls!PrimaryIsReplaced
<1> SUFFICES ASSUME ControlsInv PROVE Controls!OnePrimary /\ Controls!PrimaryIsReplaced
  OBVIOUS
<1>1. Controls!OnePrimary
  BY DEF ControlsInv, Linking, MarkedOnce, Controls!OnePrimary, Controls!Primary
<1>2. Controls!PrimaryIsReplaced
  <2> SUFFICES ASSUME Controls!Quiet, ~overlapped, ~linkCut, marked PROVE Controls!Primary # {}
    BY DEF Controls!PrimaryIsReplaced
  <2>1. \A h \in Handler : request[h] = [op |-> "idle"]
    BY DEF Controls!Quiet, Controls!Idle
  <2>2. \A h \in Handler : ~Marks(request[h])
    <3> SUFFICES ASSUME NEW h \in Handler PROVE ~Marks(request[h])
      OBVIOUS
    <3>1. request[h].op = "idle"
      BY <2>1
    <3> QED BY <3>1 DEF Marks
  <2>3. ~NoPrimary
    BY <2>2 DEF ControlsInv, Linking
  <2> QED BY <2>3 DEF NoPrimary, Controls!Primary
<1> QED BY <1>1, <1>2

(***************************************************************************)
(* The composition: what is in force.                                       *)
(***************************************************************************)
\* Nothing is in force before it is approved, planned, opened or marked.
LEMMA NothingInForce ==
  /\ soa = [v \in Soa |-> "ABSENT"] => Soas!OneApproved
  /\ plan = [p \in Plan |-> "ABSENT"] => Plans!OneActivePlan
  /\ logins = 0 => Sessions!OneSessionPerLogin
  /\ links = <<>> /\ ~marked => Controls!OnePrimary /\ Controls!PrimaryIsReplaced
<1>1. Soas!Cardinality({}) = 0 /\ Plans!Cardinality({}) = 0 /\ Soas!Cardinality(Handler) \in Nat
  BY SameCount, FS_EmptySet, HandlersAssumption, FS_CardinalityType
<1>2. ASSUME soa = [v \in Soa |-> "ABSENT"] PROVE Soas!OneApproved
  <2>1. Soas!Approved = {}
    BY <1>2 DEF Soas!Approved
  <2> QED BY <1>1, <2>1 DEF Soas!OneApproved
<1>3. ASSUME plan = [p \in Plan |-> "ABSENT"] PROVE Plans!OneActivePlan
  <2>1. Plans!ActivePlans = {}
    BY <1>3 DEF Plans!ActivePlans, Plans!Active
  <2> QED BY <1>1, <2>1 DEF Plans!OneActivePlan
<1>4. logins = 0 => Sessions!OneSessionPerLogin
  BY DEF Sessions!OneSessionPerLogin
<1>5. ASSUME links = <<>>, ~marked PROVE Controls!OnePrimary /\ Controls!PrimaryIsReplaced
  <2>1. Controls!Primary = {}
    <3>1. DOMAIN links = {}
      BY <1>5
    <3> QED BY <3>1 DEF Controls!Primary
  <2> QED BY <1>5, <2>1 DEF Controls!OnePrimary, Controls!PrimaryIsReplaced
<1> QED BY <1>2, <1>3, <1>4, <1>5

\* The invariant of the Statements of Applicability, the plans, the sessions and the links,
\* where they are the subject; the others' rows are as they were at the start.
PartsInForce ==
  /\ IF subject = "soas" THEN SoasInv
     ELSE soa = [v \in Soa |-> "ABSENT"]
  /\ IF subject = "plans" THEN PlansInv
     ELSE plan = [p \in Plan |-> "ABSENT"]
  /\ IF subject = "sessions" THEN SessionsInv
     ELSE logins = 0
  /\ IF subject = "controls" THEN ControlsInv
     ELSE links = <<>> /\ ~marked

\* One of what replaces its predecessor is in force, in every behaviour of the composition:
\* a version of the Statement of Applicability, a risk's treatment plan, a sign-in's session,
\* the primary control of a scenario, which is replaced when it is unlinked.
THEOREM OneForce == PartsSpec => []OneInForce
<1>1. PartsInit => PartsInForce
  BY SoasInit, PlansInit, SessionsInit, ControlsInit DEF PartsInit,
    PartsInForce, Soas!Init, Plans!Init, Sessions!Init, Controls!Init
<1>2. PartsInForce /\ [PartsNext]_partsVars => PartsInForce'
  <2> SUFFICES ASSUME PartsInForce, [PartsNext]_partsVars PROVE PartsInForce'
    OBVIOUS
  <2>1. subject' = subject
    BY DEF PartsNext, OthersKeep, partsVars
  <2>2. (IF subject = "soas" THEN SoasInv
        ELSE soa = [v \in Soa |-> "ABSENT"])'
    <3>1. CASE subject = "soas"
      <4>1. [Soas!Next]_(Soas!vars)
        BY <3>1 DEF PartsNext, partsVars, soaVars, requests, Soas!vars,
          Soas!requests
      <4> QED BY <2>1, <3>1, <4>1, SoasStep DEF PartsInForce
    <3>2. CASE subject # "soas"
      BY <2>1, <3>2 DEF PartsInForce, PartsNext, OthersKeep, Keep, partsVars,
        soaVars
    <3> QED BY <3>1, <3>2
  <2>3. (IF subject = "plans" THEN PlansInv
        ELSE plan = [p \in Plan |-> "ABSENT"])'
    <3>1. CASE subject = "plans"
      <4>1. [Plans!Next]_(Plans!vars)
        BY <3>1 DEF PartsNext, partsVars, planVars, requests, Plans!vars,
          Plans!rows, Plans!requests
      <4> QED BY <2>1, <3>1, <4>1, PlansStep DEF PartsInForce
    <3>2. CASE subject # "plans"
      BY <2>1, <3>2 DEF PartsInForce, PartsNext, OthersKeep, Keep, partsVars,
        planVars
    <3> QED BY <3>1, <3>2
  <2>4. (IF subject = "sessions" THEN SessionsInv
        ELSE logins = 0)'
    <3>1. CASE subject = "sessions"
      <4>1. [Sessions!Next]_(Sessions!vars)
        BY <3>1 DEF PartsNext, partsVars, sessionVars, requests,
          Sessions!vars, Sessions!rows, Sessions!history, Sessions!requests
      <4> QED BY <2>1, <3>1, <4>1, SessionsStep DEF PartsInForce
    <3>2. CASE subject # "sessions"
      BY <2>1, <3>2 DEF PartsInForce, PartsNext, OthersKeep, Keep, partsVars,
        sessionVars
    <3> QED BY <3>1, <3>2
  <2>5. (IF subject = "controls" THEN ControlsInv
        ELSE links = <<>> /\ ~marked)'
    <3>1. CASE subject = "controls"
      <4>1. [Controls!Next]_(Controls!vars)
        BY <3>1 DEF PartsNext, partsVars, controlVars, requests,
          Controls!vars, Controls!requests
      <4> QED BY <2>1, <3>1, <4>1, ControlsStep DEF PartsInForce
    <3>2. CASE subject # "controls"
      BY <2>1, <3>2 DEF PartsInForce, PartsNext, OthersKeep, Keep, partsVars,
        controlVars
    <3> QED BY <3>1, <3>2
  <2> QED BY <2>2, <2>3, <2>4, <2>5 DEF PartsInForce
<1>3. PartsInForce => OneInForce
  BY NothingInForce, SoasOne, PlansOne, SessionsOne, ControlsOne DEF PartsInForce, OneInForce
<1> QED BY <1>1, <1>2, <1>3, PTL DEF PartsSpec
=============================================================================
