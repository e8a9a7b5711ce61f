----------------------------- MODULE RecordProofs ---------------------------
(***************************************************************************)
(* Proofs about the records the server's services keep: what counts as done *)
(* is there, the numbers given out are free, and what is stored of other    *)
(* rows agrees with them.                                                   *)
(***************************************************************************)
EXTENDS ServiceProofs, FiniteSetTheorems, WellFoundedInduction,
  SequenceTheorems

(***************************************************************************)
(* EvidenceRequests.                                                        *)
(***************************************************************************)
Reviews == {"submit", "submitted"} \cup Evidences!Review
EvidenceStep == [op : {"idle"} \cup Evidences!Transition] \cup [op : Reviews, of : Evidence]

LEMMA EvidenceSteps ==
  /\ Idle \in EvidenceStep
  /\ \A o \in Evidences!Transition : [op |-> o] \in EvidenceStep
  /\ \A o \in Reviews, e \in Evidence : [op |-> o, of |-> e] \in EvidenceStep
BY DEF EvidenceStep, Idle

LEMMA EvidenceCarries ==
  ASSUME NEW r \in EvidenceStep
  PROVE  r.op \in Reviews => r.of \in Evidence
BY DEF EvidenceStep, Reviews, Evidences!Transition, Evidences!Review

\* What was submitted, or is about to be said so, is there, or was.
Shown ==
  /\ evidenceRequest \in {"SUBMITTED", "ACCEPTED", "REJECTED"} => fulfilled # {} \/ lost
  /\ \A h \in Handler :
       request[h].op \in {"submitted", "accept", "reject"} =>
         fulfilled # {} \/ lost \/ evidenceRequest = "GONE"

\* As long as no two requests overlapped, approved evidence stands, archived evidence
\* is not approved again, and neither is about to be reviewed or updated.
Stands ==
  ~overlapped =>
    /\ edited = {}
    /\ \A e \in approved : evidence[e] = "APPROVED" \/ e \in archived
    /\ \A e \in archived : evidence[e] \in {"ARCHIVED", "GONE"}
    /\ \A h \in Handler :
         /\ request[h].op \in {"submitForReview", "approve", "rejectEvidence", "update"} =>
              request[h].of \notin approved \cup archived
         /\ request[h].op = "delete" => evidence[request[h].of] # "APPROVED"

EvidencesInv == Evidences!TypeOK /\ Alone /\ Shown /\ Stands

LEMMA EvidencesInit == Evidences!Init => EvidencesInv
<1> SUFFICES ASSUME Evidences!Init PROVE EvidencesInv
  OBVIOUS
<1> USE DEF Evidences!Init, Evidences!RequestsInit, Evidences!Idle, Idle
<1>1. request \in [Handler -> EvidenceStep]
  BY EvidenceSteps
<1>2. Evidences!TypeOK
  BY <1>1 DEF Evidences!TypeOK, EvidenceStep, Reviews, Evidences!RequestStatus,
    Evidences!EvidenceStatus
<1>3. Alone /\ Shown /\ Stands
  BY DEF Alone, Shown, Stands
<1> QED BY <1>2, <1>3 DEF EvidencesInv

LEMMA EvidencesStep ==
  ASSUME EvidencesInv, [Evidences!Next]_(Evidences!vars)
  PROVE  EvidencesInv'
<1> USE DEF Evidences!Idle, Idle, Evidences!Serves, Evidences!Continues, Evidences!Answers,
  Evidences!Reads, Evidences!AtOnce, Evidences!rows, Evidences!history, Evidences!Quiet, Quiet,
  Evidences!Writes
<1> DEFINE On(h, r) == r \in EvidenceStep /\ Turn(h, r)
<1>0. Evidences!TypeOK /\ request \in [Handler -> EvidenceStep]
  BY DEF EvidencesInv, Evidences!TypeOK, EvidenceStep, Reviews
<1>1. CASE UNCHANGED Evidences!vars
  BY <1>1 DEF EvidencesInv, Alone, Evidences!TypeOK, EvidenceStep, Reviews,
    Evidences!Review, Evidences!RequestStatus, Evidences!EvidenceStatus,
    Shown, Stands, Evidences!vars, Evidences!requests
<1>2. ASSUME Evidences!Cancel PROVE EvidencesInv'
  <2>4. Evidences!TypeOK'
    BY <1>0, <1>2, AtOnceTaken DEF EvidencesInv, Evidences!TypeOK,
      EvidenceStep, Reviews, Evidences!Review, Evidences!RequestStatus,
      Evidences!EvidenceStatus, Evidences!Cancel
  <2>5. Alone'
    BY <1>0, <1>2, AtOnceTaken DEF EvidencesInv, Evidences!Cancel
  <2>6. Shown'
    BY <1>0, <1>2, AtOnceTaken DEF EvidencesInv, Shown, Evidences!TypeOK,
      Evidences!Cancel
  <2>7. Stands'
    BY <1>0, <1>2, AtOnceTaken DEF EvidencesInv, Stands, Evidences!TypeOK,
      Evidences!Cancel
  <2> QED BY <2>4, <2>5, <2>6, <2>7 DEF EvidencesInv
<1>3. ASSUME Evidences!DeleteRequest PROVE EvidencesInv'
  <2>4. Evidences!TypeOK'
    BY <1>0, <1>3, AtOnceTaken DEF EvidencesInv, Evidences!TypeOK,
      EvidenceStep, Reviews, Evidences!Review, Evidences!RequestStatus,
      Evidences!EvidenceStatus, Evidences!DeleteRequest
  <2>5. Alone'
    BY <1>0, <1>3, AtOnceTaken DEF EvidencesInv, Evidences!DeleteRequest
  <2>6. Shown'
    BY <1>0, <1>3, AtOnceTaken DEF EvidencesInv, Shown, Evidences!TypeOK,
      Evidences!DeleteRequest
  <2>7. Stands'
    BY <1>0, <1>3, AtOnceTaken DEF EvidencesInv, Stands, Evidences!TypeOK,
      Evidences!DeleteRequest
  <2> QED BY <2>4, <2>5, <2>6, <2>7 DEF EvidencesInv
<1>4. ASSUME NEW e \in Evidence, Evidences!Archive(e) PROVE EvidencesInv'
  <2>4. Evidences!TypeOK'
    BY <1>0, <1>4, AtOnceTaken DEF EvidencesInv, Evidences!TypeOK,
      EvidenceStep, Reviews, Evidences!Review, Evidences!RequestStatus,
      Evidences!EvidenceStatus, Evidences!Archive
  <2>5. Alone'
    BY <1>0, <1>4, AtOnceTaken DEF EvidencesInv, Evidences!Archive
  <2>6. Shown'
    BY <1>0, <1>4, AtOnceTaken DEF EvidencesInv, Shown, Evidences!TypeOK,
      Evidences!Archive
  <2>7. Stands'
    BY <1>0, <1>4, AtOnceTaken DEF EvidencesInv, Stands, Evidences!TypeOK,
      Evidences!Archive
  <2> QED BY <2>4, <2>5, <2>6, <2>7 DEF EvidencesInv
<1>5. ASSUME NEW h \in Handler, NEW op \in Evidences!Transition, Evidences!TransitionReads(h, op)
      PROVE  EvidencesInv'
  <2>3. On(h, [op |-> op])
    BY <1>0, <1>5, EvidenceSteps DEF Evidences!TransitionReads, Turn,
      Evidences!From, Evidences!Transition
  <2>4. Evidences!TypeOK'
    BY <1>0, <1>5, <2>3, TurnTaken DEF EvidencesInv, Evidences!TypeOK,
      EvidenceStep, Reviews, Evidences!Review, Evidences!RequestStatus,
      Evidences!EvidenceStatus, Evidences!TransitionReads, Evidences!From,
      Evidences!Transition
  <2>5. Alone'
    BY <1>0, <1>5, <2>3, TurnTaken DEF EvidencesInv,
      Evidences!TransitionReads, Evidences!From, Evidences!Transition
  <2>6. Shown'
    BY <1>0, <1>5, <2>3, TurnTaken DEF EvidencesInv, Shown, Evidences!TypeOK,
      Evidences!TransitionReads, Evidences!From, Evidences!Transition
  <2>7. Stands'
    BY <1>0, <1>5, <2>3, TurnTaken DEF EvidencesInv, Stands, Evidences!TypeOK,
      Evidences!TransitionReads, Evidences!From, Evidences!Transition
  <2> QED BY <2>4, <2>5, <2>6, <2>7 DEF EvidencesInv
<1>6. ASSUME NEW h \in Handler, NEW op \in Evidences!Transition, Evidences!Transit(h, op)
      PROVE  EvidencesInv'
  <2>3. On(h, Idle)
    BY <1>0, <1>6, EvidenceSteps DEF Evidences!Transit, Turn, Evidences!To,
      Evidences!Transition
  <2>4. Evidences!TypeOK'
    BY <1>0, <1>6, <2>3, TurnTaken DEF EvidencesInv, Evidences!TypeOK,
      EvidenceStep, Reviews, Evidences!Review, Evidences!RequestStatus,
      Evidences!EvidenceStatus, Evidences!Transit, Evidences!To,
      Evidences!Transition
  <2>5. Alone'
    BY <1>0, <1>6, <2>3, TurnTaken DEF EvidencesInv, Evidences!Transit,
      Evidences!To, Evidences!Transition
  <2>6. Shown'
    BY <1>0, <1>6, <2>3, TurnTaken DEF EvidencesInv, Shown, Evidences!TypeOK,
      Evidences!Transit, Evidences!To, Evidences!Transition
  <2>7. Stands'
    BY <1>0, <1>6, <2>3, TurnTaken DEF EvidencesInv, Stands, Evidences!TypeOK,
      Evidences!Transit, Evidences!To, Evidences!Transition
  <2> QED BY <2>4, <2>5, <2>6, <2>7 DEF EvidencesInv
<1>7. ASSUME NEW h \in Handler, NEW e \in Evidence, Evidences!SubmitReads(h, e) PROVE EvidencesInv'
  <2>3. On(h, [op |-> "submit", of |-> e])
    BY <1>0, <1>7, EvidenceSteps DEF Evidences!SubmitReads, Turn, Reviews
  <2>4. Evidences!TypeOK'
    BY <1>0, <1>7, <2>3, TurnTaken DEF EvidencesInv, Evidences!TypeOK,
      EvidenceStep, Reviews, Evidences!Review, Evidences!RequestStatus,
      Evidences!EvidenceStatus, Evidences!SubmitReads
  <2>5. Alone'
    BY <1>0, <1>7, <2>3, TurnTaken DEF EvidencesInv, Evidences!SubmitReads,
      Reviews
  <2>6. Shown'
    BY <1>0, <1>7, <2>3, TurnTaken DEF EvidencesInv, Shown, Evidences!TypeOK,
      Evidences!SubmitReads, Reviews
  <2>7. Stands'
    BY <1>0, <1>7, <2>3, TurnTaken DEF EvidencesInv, Stands, Evidences!TypeOK,
      Evidences!SubmitReads, Reviews
  <2> QED BY <2>4, <2>5, <2>6, <2>7 DEF EvidencesInv
<1>8. ASSUME NEW h \in Handler, Evidences!Fulfil(h) PROVE EvidencesInv'
  <2>1. request[h] \in EvidenceStep /\ request[h].op = "submit"
    BY <1>0, <1>8 DEF Evidences!Fulfil
  <2>2. request[h].of \in Evidence /\ request[h] # Idle
    BY <2>1, EvidenceCarries DEF Reviews, Evidences!Review
  <2>3. On(h, [op |-> "submitted", of |-> request[h].of])
    BY <1>0, <1>8, <2>2, EvidenceSteps DEF Evidences!Fulfil, Turn, Reviews
  <2>4. Evidences!TypeOK'
    BY <1>0, <1>8, <2>1, <2>2, <2>3, TurnTaken DEF EvidencesInv,
      Evidences!TypeOK, EvidenceStep, Reviews, Evidences!Review,
      Evidences!RequestStatus, Evidences!EvidenceStatus, Evidences!Fulfil
  <2>5. Alone'
    BY <1>0, <1>8, <2>1, <2>2, <2>3, TurnTaken DEF EvidencesInv,
      Evidences!Fulfil, Reviews
  <2>6. Shown'
    BY <1>0, <1>8, <2>1, <2>2, <2>3, TurnTaken DEF EvidencesInv, Shown,
      Evidences!TypeOK, Evidences!Fulfil, Reviews
  <2>7. Stands'
    BY <1>0, <1>8, <2>1, <2>2, <2>3, TurnTaken DEF EvidencesInv, Stands,
      Evidences!TypeOK, Evidences!Fulfil, Reviews
  <2> QED BY <2>4, <2>5, <2>6, <2>7 DEF EvidencesInv
<1>9. ASSUME NEW h \in Handler, Evidences!MarkSubmitted(h) PROVE EvidencesInv'
  <2>1. request[h] \in EvidenceStep /\ request[h].op = "submitted"
    BY <1>0, <1>9 DEF Evidences!MarkSubmitted
  <2>2. request[h].of \in Evidence /\ request[h] # Idle
    BY <2>1, EvidenceCarries DEF Reviews, Evidences!Review
  <2>3. On(h, Idle)
    BY <1>0, <1>9, <2>2, EvidenceSteps DEF Evidences!MarkSubmitted, Turn
  <2>4. Evidences!TypeOK'
    BY <1>0, <1>9, <2>1, <2>2, <2>3, TurnTaken DEF EvidencesInv,
      Evidences!TypeOK, EvidenceStep, Reviews, Evidences!Review,
      Evidences!RequestStatus, Evidences!EvidenceStatus,
      Evidences!MarkSubmitted
  <2>5. Alone'
    BY <1>0, <1>9, <2>1, <2>2, <2>3, TurnTaken DEF EvidencesInv,
      Evidences!MarkSubmitted
  <2>6. Shown'
    BY <1>0, <1>9, <2>1, <2>2, <2>3, TurnTaken DEF EvidencesInv, Shown,
      Evidences!TypeOK, Evidences!MarkSubmitted
  <2>7. Stands'
    BY <1>0, <1>9, <2>1, <2>2, <2>3, TurnTaken DEF EvidencesInv, Stands,
      Evidences!TypeOK, Evidences!MarkSubmitted
  <2> QED BY <2>4, <2>5, <2>6, <2>7 DEF EvidencesInv
<1>10. ASSUME NEW h \in Handler, NEW e \in Evidence, NEW op \in Evidences!Review, Evidences!ReviewReads(h, op, e)
       PROVE  EvidencesInv'
  <2>3. On(h, [op |-> op, of |-> e])
    BY <1>0, <1>10, EvidenceSteps DEF Evidences!ReviewReads, Turn,
      Evidences!Allowed, Reviews, Evidences!Review
  <2>4. Evidences!TypeOK'
    BY <1>0, <1>10, <2>3, TurnTaken DEF EvidencesInv, Evidences!TypeOK,
      EvidenceStep, Reviews, Evidences!Review, Evidences!RequestStatus,
      Evidences!EvidenceStatus, Evidences!ReviewReads, Evidences!Allowed
  <2>5. Alone'
    BY <1>0, <1>10, <2>3, TurnTaken DEF EvidencesInv, Evidences!ReviewReads,
      Evidences!Allowed, Reviews, Evidences!Review
  <2>6. Shown'
    BY <1>0, <1>10, <2>3, TurnTaken DEF EvidencesInv, Shown, Evidences!TypeOK,
      Evidences!ReviewReads, Evidences!Allowed, Reviews, Evidences!Review
  <2>7. Stands'
    BY <1>0, <1>10, <2>3, TurnTaken DEF EvidencesInv, Stands,
      Evidences!TypeOK, Evidences!ReviewReads, Evidences!Allowed, Reviews,
      Evidences!Review
  <2> QED BY <2>4, <2>5, <2>6, <2>7 DEF EvidencesInv
<1>11. ASSUME NEW h \in Handler, NEW op \in {"submitForReview", "approve", "rejectEvidence"}, Evidences!SetReview(h, op)
       PROVE  EvidencesInv'
  <2>1. request[h] \in EvidenceStep /\ request[h].op = op
    BY <1>0, <1>11 DEF Evidences!SetReview
  <2>2. request[h].of \in Evidence /\ request[h] # Idle
    BY <2>1, EvidenceCarries DEF Reviews, Evidences!Review
  <2>3. On(h, Idle)
    BY <1>11, <2>2, EvidenceSteps DEF Evidences!SetReview, Turn
  <2>4. Evidences!Reviewed(op) \in {"UNDER_REVIEW", "APPROVED", "REJECTED"}
        /\ (op = "approve" <=> Evidences!Reviewed(op) = "APPROVED")
    BY DEF Evidences!Reviewed
  <2>5. Evidences!TypeOK'
    BY <1>0, <1>11, <2>2, <2>3, <2>4, TurnTaken DEF EvidencesInv, Evidences!TypeOK,
      EvidenceStep, Reviews, Evidences!Review, Evidences!EvidenceStatus, Evidences!SetReview
  <2>6. Alone' /\ Shown'
    BY <1>0, <1>11, <2>3, TurnTaken DEF EvidencesInv, Shown, Evidences!SetReview
  <2>7. Stands'
    BY <1>0, <1>11, <2>1, <2>2, <2>3, <2>4, TurnTaken DEF EvidencesInv, Evidences!TypeOK,
      Stands, Evidences!SetReview
  <2> QED BY <2>5, <2>6, <2>7 DEF EvidencesInv
<1>12. ASSUME NEW h \in Handler, Evidences!Update(h) PROVE EvidencesInv'
  <2>1. request[h] \in EvidenceStep /\ request[h].op = "update"
    BY <1>0, <1>12 DEF Evidences!Update
  <2>2. request[h].of \in Evidence /\ request[h] # Idle
    BY <2>1, EvidenceCarries DEF Reviews, Evidences!Review
  <2>3. On(h, Idle)
    BY <1>0, <1>12, <2>2, EvidenceSteps DEF Evidences!Update, Turn
  <2>4. Evidences!TypeOK'
    BY <1>0, <1>12, <2>1, <2>2, <2>3, TurnTaken DEF EvidencesInv,
      Evidences!TypeOK, EvidenceStep, Reviews, Evidences!Review,
      Evidences!RequestStatus, Evidences!EvidenceStatus, Evidences!Update
  <2>5. Alone'
    BY <1>0, <1>12, <2>1, <2>2, <2>3, TurnTaken DEF EvidencesInv,
      Evidences!Update
  <2>6. Shown'
    BY <1>0, <1>12, <2>1, <2>2, <2>3, TurnTaken DEF EvidencesInv, Shown,
      Evidences!TypeOK, Evidences!Update
  <2>7. Stands'
    BY <1>0, <1>12, <2>1, <2>2, <2>3, TurnTaken DEF EvidencesInv, Stands,
      Evidences!TypeOK, Evidences!Update
  <2> QED BY <2>4, <2>5, <2>6, <2>7 DEF EvidencesInv
<1>13. ASSUME NEW h \in Handler, Evidences!Delete(h) PROVE EvidencesInv'
  <2>1. request[h] \in EvidenceStep /\ request[h].op = "delete"
    BY <1>0, <1>13 DEF Evidences!Delete
  <2>2. request[h].of \in Evidence /\ request[h] # Idle
    BY <2>1, EvidenceCarries DEF Reviews, Evidences!Review
  <2>3. On(h, Idle)
    BY <1>0, <1>13, <2>2, EvidenceSteps DEF Evidences!Delete, Turn
  <2>4. Evidences!TypeOK'
    BY <1>0, <1>13, <2>1, <2>2, <2>3, TurnTaken DEF EvidencesInv,
      Evidences!TypeOK, EvidenceStep, Reviews, Evidences!Review,
      Evidences!RequestStatus, Evidences!EvidenceStatus, Evidences!Delete
  <2>5. Alone'
    BY <1>0, <1>13, <2>1, <2>2, <2>3, TurnTaken DEF EvidencesInv,
      Evidences!Delete
  <2>6. Shown'
    <3>1. fulfilled # {} \/ lost => fulfilled' # {} \/ lost'
      BY <1>13 DEF Evidences!Delete
    <3> QED BY <1>0, <1>13, <2>1, <2>2, <2>3, <3>1, TurnTaken DEF EvidencesInv, Shown,
      Evidences!Delete
  <2>7. Stands'
    BY <1>0, <1>13, <2>1, <2>2, <2>3, TurnTaken DEF EvidencesInv, Stands,
      Evidences!TypeOK, Evidences!Delete
  <2> QED BY <2>4, <2>5, <2>6, <2>7 DEF EvidencesInv
<1>14. ASSUME NEW h \in Handler, Evidences!BreaksOff(h) PROVE EvidencesInv'
  <2>3. On(h, Idle)
    BY <1>0, <1>14, EvidenceSteps DEF Evidences!BreaksOff, Turn
  <2>4. Evidences!TypeOK'
    BY <1>0, <1>14, <2>3, TurnTaken DEF EvidencesInv, Evidences!TypeOK,
      EvidenceStep, Reviews, Evidences!Review, Evidences!RequestStatus,
      Evidences!EvidenceStatus, Evidences!BreaksOff
  <2>5. Alone'
    BY <1>0, <1>14, <2>3, TurnTaken DEF EvidencesInv, Evidences!BreaksOff
  <2>6. Shown'
    BY <1>0, <1>14, <2>3, TurnTaken DEF EvidencesInv, Shown, Evidences!TypeOK,
      Evidences!BreaksOff
  <2>7. Stands'
    BY <1>0, <1>14, <2>3, TurnTaken DEF EvidencesInv, Stands,
      Evidences!TypeOK, Evidences!BreaksOff
  <2> QED BY <2>4, <2>5, <2>6, <2>7 DEF EvidencesInv
<1> QED
  BY <1>1, <1>2, <1>3, <1>4, <1>5, <1>6, <1>7, <1>8, <1>9, <1>10, <1>11,
    <1>12, <1>13, <1>14 DEF Evidences!Next

(***************************************************************************)
(* PolicyCreation.                                                          *)
(***************************************************************************)
CreationStep ==
  {Idle}
    \cup [op : {"find", "create"} \cup Creations!Part \cup {"executed"},
          of : Action, at : Creations!Reference]
    \cup [op : {"failed"}, of : Action]

LEMMA CreationSteps ==
  /\ Idle \in CreationStep
  /\ \A o \in {"find", "create"} \cup Creations!Part \cup {"executed"}, a \in Action,
        n \in Creations!Reference : [op |-> o, of |-> a, at |-> n] \in CreationStep
  /\ \A a \in Action : [op |-> "failed", of |-> a] \in CreationStep
BY DEF CreationStep

LEMMA CreationCarries ==
  ASSUME NEW r \in CreationStep, r # Idle
  PROVE  /\ r.of \in Action
         /\ r.op \in {"find", "create", "executed", "failed"} \cup Creations!Part
         /\ r.op # "failed" =>
              \E o \in {"find", "create"} \cup Creations!Part \cup {"executed"}, a \in Action,
                 n \in Creations!Reference : r = [op |-> o, of |-> a, at |-> n]
BY DEF CreationStep, Creations!Part

\* The parts that come before one, in the order in which the executor creates them.
Earlier(op) ==
  CASE op = "controls" -> {}
    [] op = "risks" -> {"controls"}
    [] op = "version" -> {"controls", "risks"}
    [] op = "executed" -> Creations!Part
    [] OTHER -> {}

\* The first part of those at S that the payload of a has.
LEMMA FirstIs ==
  ASSUME NEW a, NEW S \in SUBSET (1 .. 3)
  PROVE  \/ /\ \A i \in S : Creations!InOrder[i] \notin wanted[a]
            /\ Creations!FirstOf(a, S) = "executed"
         \/ \E i \in S :
              /\ Creations!FirstOf(a, S) = Creations!InOrder[i] /\ Creations!InOrder[i] \in wanted[a]
              /\ \A j \in S : Creations!InOrder[j] \in wanted[a] => i <= j
<1> DEFINE left == {i \in S : Creations!InOrder[i] \in wanted[a]}
<1>1. CASE left = {}
  BY <1>1 DEF Creations!FirstOf
<1>2. CASE left # {}
  <2>1. \E i \in left : \A j \in left : i <= j
    <3>a. \A k \in left : k \in 1 .. 3
      OBVIOUS
    <3>b. \A k \in 1 .. 3 : k = 1 \/ k = 2 \/ k = 3
      OBVIOUS
    <3>1. \A k \in left : k = 1 \/ k = 2 \/ k = 3
      <4> HIDE DEF left
      <4> QED BY <3>a, <3>b
    <3>2. CASE 1 \in left
      BY <3>1, <3>2
    <3>3. CASE 1 \notin left /\ 2 \in left
      BY <3>1, <3>3
    <3>4. CASE 1 \notin left /\ 2 \notin left
      <4>1. left = {3}
        BY <1>2, <3>1, <3>4
      <4> QED BY <4>1
    <3> QED BY <3>2, <3>3, <3>4
  <2> DEFINE i == CHOOSE i \in left : \A j \in left : i <= j
  <2>2. i \in left /\ \A j \in left : i <= j
    BY <2>1
  <2>3. Creations!FirstOf(a, S) = Creations!InOrder[i]
    BY <1>2 DEF Creations!FirstOf
  <2> QED BY <2>2, <2>3
<1> QED BY <1>1, <1>2

\* What is left to create after a part, and what is there by then.
LEMMA FollowingPart ==
  ASSUME NEW a, wanted[a] \subseteq Creations!Part
  PROVE  /\ LET next == Creations!FirstOf(a, DOMAIN Creations!InOrder)
            IN /\ next \in (Creations!Part \cap wanted[a]) \cup {"executed"}
               /\ wanted[a] \cap Earlier(next) = {}
         /\ \A op \in Creations!Part \cap wanted[a] :
              LET next == Creations!FirstOf(a, Creations!After(op))
              IN /\ next \in (Creations!Part \cap wanted[a]) \cup {"executed"}
                 /\ wanted[a] \cap Earlier(next) = (wanted[a] \cap Earlier(op)) \cup {op}
<1>1. /\ DOMAIN Creations!InOrder = 1 .. 3
      /\ Creations!InOrder[1] = "controls" /\ Creations!InOrder[2] = "risks"
      /\ Creations!InOrder[3] = "version"
  BY DEF Creations!InOrder
<1>2. /\ Creations!After("controls") = {2, 3}
      /\ Creations!After("risks") = {3}
      /\ Creations!After("version") = {}
  <2>1. Creations!After("controls") = {i \in 1 .. 3 : i > 1}
    BY <1>1 DEF Creations!After
  <2>2. Creations!After("risks") = {i \in 1 .. 3 : i > 2}
    BY <1>1 DEF Creations!After
  <2>3. Creations!After("version") = {i \in 1 .. 3 : i > 3}
    BY <1>1 DEF Creations!After
  <2> QED BY <2>1, <2>2, <2>3
<1>3. LET next == Creations!FirstOf(a, DOMAIN Creations!InOrder)
      IN /\ next \in (Creations!Part \cap wanted[a]) \cup {"executed"}
         /\ wanted[a] \cap Earlier(next) = {}
  <2> DEFINE next == Creations!FirstOf(a, 1 .. 3)
  <2>1. CASE (\A i \in 1 .. 3 : Creations!InOrder[i] \notin wanted[a]) /\ next = "executed"
    BY <1>1, <2>1 DEF Earlier, Creations!Part
  <2>2. ASSUME NEW i \in 1 .. 3, next = Creations!InOrder[i], Creations!InOrder[i] \in wanted[a],
               \A j \in 1 .. 3 : Creations!InOrder[j] \in wanted[a] => i <= j
        PROVE  next \in Creations!Part \cap wanted[a] /\ wanted[a] \cap Earlier(next) = {}
    BY <1>1, <2>2 DEF Earlier, Creations!Part
  <2> QED BY <1>1, <2>1, <2>2, FirstIs
<1>4. ASSUME NEW op \in Creations!Part \cap wanted[a]
      PROVE  LET next == Creations!FirstOf(a, Creations!After(op))
             IN /\ next \in (Creations!Part \cap wanted[a]) \cup {"executed"}
                /\ wanted[a] \cap Earlier(next) = (wanted[a] \cap Earlier(op)) \cup {op}
  <2> DEFINE S == Creations!After(op)
             next == Creations!FirstOf(a, S)
  <2>1. S \in SUBSET (1 .. 3) /\ op \in {"controls", "risks", "version"}
    BY <1>1 DEF Creations!After, Creations!Part
  <2>2. CASE (\A i \in S : Creations!InOrder[i] \notin wanted[a]) /\ next = "executed"
    <3>1. wanted[a] \subseteq Earlier(op) \cup {op}
      BY <1>1, <1>2, <2>1, <2>2 DEF Earlier, Creations!Part
    <3>2. Earlier(next) = Creations!Part /\ Earlier(op) \subseteq Creations!Part
      BY <2>1, <2>2 DEF Earlier, Creations!Part
    <3> QED BY <2>2, <3>1, <3>2
  <2>3. ASSUME NEW i \in S, next = Creations!InOrder[i], Creations!InOrder[i] \in wanted[a],
               \A j \in S : Creations!InOrder[j] \in wanted[a] => i <= j
        PROVE  /\ next \in Creations!Part \cap wanted[a]
               /\ wanted[a] \cap Earlier(next) = (wanted[a] \cap Earlier(op)) \cup {op}
    <3>1. CASE op = "controls"
      <4>1. CASE i = 2
        BY <1>1, <1>2, <2>3, <3>1, <4>1 DEF Earlier, Creations!Part
      <4>2. CASE i = 3
        BY <1>1, <1>2, <2>3, <3>1, <4>2 DEF Earlier, Creations!Part
      <4> QED BY <1>2, <3>1, <4>1, <4>2
    <3>2. CASE op = "risks"
      BY <1>1, <1>2, <2>3, <3>2 DEF Earlier, Creations!Part
    <3>3. CASE op = "version"
      BY <1>2, <3>3
    <3> QED BY <2>1, <3>1, <3>2, <3>3
  <2> QED BY <2>1, <2>2, <2>3, FirstIs
<1> QED BY <1>3, <1>4


\* A proposal in execution is APPROVED and has one request.
Executing ==
  \A h \in Handler : request[h] # Idle =>
    /\ proposalStatus[request[h].of] = "APPROVED"
    /\ \A g \in Handler : request[g] # Idle /\ request[g].of = request[h].of => g = h

\* Document n is that of proposal a, with the parts it wants of those in S.
Has(n, a, S) ==
  /\ n \in Creations!Taken
  /\ created[n].by = a
  /\ created[n].parts = wanted[a] \cap S

\* The document of a proposal in execution has the parts before the next one, which it
\* wants, unless a user deleted one of its documents.
Built ==
  \A h \in Handler :
    /\ request[h].op \in Creations!Part => request[h].op \in wanted[request[h].of]
    /\ request[h].op \in Creations!Part \cup {"executed"} /\ request[h].of \notin createdDeleted =>
         Has(request[h].at, request[h].of, Earlier(request[h].op))

Executed ==
  \A a \in Action \ createdDeleted : proposalStatus[a] = "EXECUTED" =>
    \E n \in Creations!Reference : Has(n, a, Creations!Part)

\* A document about to be created has a free reference, as long as no two requests
\* overlapped.
FreeToCreate ==
  ~overlapped =>
    /\ ~refused
    /\ \A h \in Handler : request[h].op = "create" => request[h].at \notin Creations!Taken

CreationsInv ==
  Creations!TypeOK /\ Alone /\ Executing /\ Built /\ Executed /\ FreeToCreate

LEMMA CreationsInit == Creations!Init => CreationsInv
<1> SUFFICES ASSUME Creations!Init PROVE CreationsInv
  OBVIOUS
<1> USE DEF Creations!Init, Creations!RequestsInit, Creations!Idle, Idle
<1>1. Creations!TypeOK
  BY DEF Creations!TypeOK
<1>2. Alone /\ Executing /\ Built /\ Executed /\ FreeToCreate
  BY DEF Alone, Executing, Built, Executed, FreeToCreate, Creations!Part
<1> QED BY <1>1, <1>2 DEF CreationsInv

LEMMA CreationsStep ==
  ASSUME CreationsInv, [Creations!Next]_(Creations!vars)
  PROVE  CreationsInv'
<1> USE DEF Idle, Creations!Idle, Creations!Serves, Creations!Continues, Creations!Answers,
      Creations!Reads, Creations!AtOnce, Creations!rows, Creations!history, Creations!Quiet, Quiet
<1> DEFINE On(h, r) == r \in CreationStep /\ Turn(h, r)
<1>0. Creations!TypeOK /\ request \in [Handler -> CreationStep]
  BY DEF CreationsInv, Creations!TypeOK, CreationStep
<1>1. CASE UNCHANGED Creations!vars
  BY <1>1 DEF CreationsInv, Alone, Creations!TypeOK, CreationStep,
    Creations!Document, Creations!NoDocument, Executing, Built, Has,
    Creations!Taken, Executed, FreeToCreate, Creations!vars,
    Creations!requests
<1>2. ASSUME NEW a \in Action, Creations!Retry(a) PROVE CreationsInv'
  <2>4. Creations!TypeOK'
    BY <1>0, <1>2, AtOnceTaken DEF CreationsInv, Creations!TypeOK,
      CreationStep, Creations!Document, Creations!NoDocument, Creations!Retry
  <2>5. Alone'
    BY <1>0, <1>2, AtOnceTaken DEF CreationsInv, Creations!Retry
  <2>6. Executing'
    BY <1>0, <1>2, AtOnceTaken DEF CreationsInv, Executing, Creations!TypeOK,
      Creations!Retry
  <2>7. Built'
    BY <1>0, <1>2, AtOnceTaken DEF CreationsInv, Built, Creations!TypeOK, Has,
      Creations!Taken, Creations!Retry
  <2>8. Executed'
    BY <1>0, <1>2, AtOnceTaken DEF CreationsInv, Executed, Creations!TypeOK,
      Has, Creations!Taken, Creations!Retry
  <2>9. FreeToCreate'
    BY <1>0, <1>2, AtOnceTaken DEF CreationsInv, FreeToCreate,
      Creations!TypeOK, Creations!Taken, Creations!Retry
  <2> QED BY <2>4, <2>5, <2>6, <2>7, <2>8, <2>9 DEF CreationsInv
<1>3. ASSUME NEW n \in Creations!Reference, Creations!Delete(n) PROVE CreationsInv'
  <2>4. Creations!TypeOK'
    <3>1. created[n] \in Creations!Document
      BY <1>0, <1>3 DEF Creations!TypeOK, Creations!Delete, Creations!Taken, Creations!NoDocument
    <3>2. created[n].by \in Action
      BY <3>1 DEF Creations!Document
    <3>3. created' \in [Creations!Reference -> Creations!Document \cup {Creations!NoDocument}]
      BY <1>0, <1>3 DEF Creations!TypeOK, Creations!Delete
    <3>4. /\ createdDeleted' \subseteq Action
          /\ UNCHANGED <<proposalStatus, wanted, refused, request>> /\ overlapped' \in BOOLEAN
      BY <1>0, <1>3, <3>2 DEF Creations!TypeOK, Creations!Delete
    <3> QED BY <1>0, <3>3, <3>4 DEF Creations!TypeOK
  <2>5. Alone'
    BY <1>0, <1>3, AtOnceTaken DEF CreationsInv, Creations!Delete
  <2>6. Executing'
    BY <1>0, <1>3, AtOnceTaken DEF CreationsInv, Executing, Creations!TypeOK,
      Creations!Delete
  <2>7. Built'
    BY <1>0, <1>3, AtOnceTaken DEF CreationsInv, Built, Creations!TypeOK, Has,
      Creations!Taken, Creations!Delete
  <2>8. Executed'
    BY <1>0, <1>3, AtOnceTaken DEF CreationsInv, Executed, Creations!TypeOK,
      Has, Creations!Taken, Creations!Delete
  <2>9. FreeToCreate'
    BY <1>0, <1>3, AtOnceTaken DEF CreationsInv, FreeToCreate,
      Creations!TypeOK, Creations!Taken, Creations!Delete
  <2> QED BY <2>4, <2>5, <2>6, <2>7, <2>8, <2>9 DEF CreationsInv
<1>4. ASSUME NEW h \in Handler, NEW a \in Action, Creations!Approve(h, a) PROVE CreationsInv'
  <2>3. On(h, [op |-> "find", of |-> a, at |-> 1])
    BY <1>0, <1>4, CreationSteps, MaxDocumentsAssumption DEF
      Creations!Approve, Turn, Creations!Part, Creations!Reference
  <2>4. Creations!TypeOK'
    BY <1>0, <1>4, <2>3, TurnTaken, MaxDocumentsAssumption DEF CreationsInv,
      Creations!TypeOK, CreationStep, Creations!Document,
      Creations!NoDocument, Creations!Approve, Creations!Part,
      Creations!Reference
  <2>5. Alone'
    BY <1>0, <1>4, <2>3, TurnTaken DEF CreationsInv, Creations!Approve,
      Creations!Part, Creations!Reference
  <2>6. Executing'
    BY <1>0, <1>4, <2>3, TurnTaken, MaxDocumentsAssumption DEF CreationsInv,
      Executing, Creations!TypeOK, Creations!Approve, Creations!Part,
      Creations!Reference
  <2>7. Built'
    BY <1>0, <1>4, <2>3, TurnTaken, MaxDocumentsAssumption DEF CreationsInv,
      Built, Creations!TypeOK, Has, Creations!Taken, Creations!Approve,
      Creations!Part, Creations!Reference
  <2>8. Executed'
    BY <1>0, <1>4, <2>3, TurnTaken, MaxDocumentsAssumption DEF CreationsInv,
      Executed, Creations!TypeOK, Has, Creations!Taken, Creations!Approve,
      Creations!Part, Creations!Reference
  <2>9. FreeToCreate'
    BY <1>0, <1>4, <2>3, TurnTaken, MaxDocumentsAssumption DEF CreationsInv,
      FreeToCreate, Creations!TypeOK, Creations!Taken, Creations!Approve,
      Creations!Part, Creations!Reference
  <2> QED BY <2>4, <2>5, <2>6, <2>7, <2>8, <2>9 DEF CreationsInv
<1>5. ASSUME NEW h \in Handler, Creations!Find(h) PROVE CreationsInv'
  <2>1. PICK a \in Action, n \in Creations!Reference : request[h] = [op |-> "find", of |-> a, at |-> n]
    BY <1>0, <1>5, CreationCarries DEF Creations!Find
  <2> DEFINE r == IF n \in Creations!Taken THEN [op |-> "find", of |-> a, at |-> n + 1]
                  ELSE [op |-> "create", of |-> a, at |-> n]
  <2>2. /\ request' = [request EXCEPT ![h] = r]
        /\ overlapped' = overlapped
        /\ UNCHANGED <<proposalStatus, wanted, created, refused, createdDeleted>>
        /\ n \in Creations!Taken => n < MaxDocuments
    <3>1. request[h].of = a /\ request[h].at = n
      BY <2>1
    <3>2. [request[h] EXCEPT !.op = "create"] = [op |-> "create", of |-> a, at |-> n]
      BY <2>1
    <3>3. [request[h] EXCEPT !.at = request[h].at + 1] = [op |-> "find", of |-> a, at |-> n + 1]
      BY <2>1, <3>1
    <3>4. request' = [request EXCEPT ![h] = IF n \in Creations!Taken
                                            THEN [request[h] EXCEPT !.at = request[h].at + 1]
                                            ELSE [request[h] EXCEPT !.op = "create"]]
      BY <1>5, <3>1 DEF Creations!Find
    <3> QED BY <1>5, <3>1, <3>2, <3>3, <3>4 DEF Creations!Find
  <2>3. r \in CreationStep
    <3>1. n \in Creations!Taken => n + 1 \in Creations!Reference
      BY <2>2, MaxDocumentsAssumption DEF Creations!Reference
    <3> QED BY <3>1, CreationSteps
  <2>4. /\ r.op \in {"find", "create"} /\ r.of = a
        /\ r.op = "create" => r.at \notin Creations!Taken
    OBVIOUS
  <2> HIDE DEF r
  <2>5. On(h, r) /\ request[h] # Idle /\ request[h].of = a
    BY <2>1, <2>2, <2>3 DEF Turn
  <2>6. /\ request' \in [Handler -> CreationStep] /\ request'[h] = r
        /\ \A g \in Handler : g # h => request'[g] = request[g]
        /\ Alone'
    BY <1>0, <2>5, TurnTaken DEF CreationsInv
  <2>7. Creations!TypeOK'
    BY <1>0, <2>2, <2>6 DEF Creations!TypeOK, CreationStep
  <2>8. Executing'
    BY <2>2, <2>4, <2>5, <2>6 DEF CreationsInv, Executing
  <2>9. Built' /\ Executed'
    BY <2>2, <2>4, <2>6 DEF CreationsInv, Built, Executed, Has, Creations!Taken, Creations!Part
  <2>10. FreeToCreate'
    BY <2>2, <2>4, <2>6 DEF CreationsInv, FreeToCreate, Creations!Taken
  <2> QED BY <2>6, <2>7, <2>8, <2>9, <2>10 DEF CreationsInv
<1>6. ASSUME NEW h \in Handler, Creations!Create(h) PROVE CreationsInv'
  <2>1. PICK a \in Action, n \in Creations!Reference : request[h] = [op |-> "create", of |-> a, at |-> n]
    BY <1>0, <1>6, CreationCarries DEF Creations!Create
  <2>0. PICK next : next = Creations!FirstOf(a, DOMAIN Creations!InOrder)
    OBVIOUS
  <2> DEFINE r == [op |-> next, of |-> a, at |-> n]
  <2>2. /\ next \in (Creations!Part \cap wanted[a]) \cup {"executed"}
        /\ wanted[a] \cap Earlier(next) = {}
    <3>1. wanted[a] \subseteq Creations!Part
      <4>1. wanted[a] \in Payloads
        BY <1>0 DEF Creations!TypeOK
      <4> QED BY <4>1, PayloadsAssumption DEF Creations!Part
    <3> QED BY <2>0, <3>1, FollowingPart
  <2>3. /\ request' = [request EXCEPT ![h] = r]
        /\ overlapped' = overlapped
        /\ UNCHANGED <<proposalStatus, wanted, refused, createdDeleted>>
        /\ created' = [created EXCEPT ![n] = [exists |-> TRUE, by |-> a, parts |-> {}]]
        /\ n \notin Creations!Taken
    <3>1. request[h].of = a /\ request[h].at = n
      BY <2>1
    <3>2. [request[h] EXCEPT !.op = next] = r
      BY <2>1
    <3> HIDE DEF r
    <3>3. request' = [request EXCEPT ![h] = [request[h] EXCEPT !.op = next]]
      BY <1>6, <2>0, <3>1 DEF Creations!Create
    <3> QED BY <1>6, <3>1, <3>2, <3>3 DEF Creations!Create
  <2>4. r \in CreationStep /\ r.op = next /\ r.of = a /\ r.at = n
    BY <2>2, CreationSteps
  <2> HIDE DEF r
  <2>5. On(h, r) /\ request[h] # Idle /\ request[h].of = a
    BY <2>1, <2>3, <2>4 DEF Turn
  <2>6. /\ request' \in [Handler -> CreationStep] /\ request'[h] = r
        /\ \A g \in Handler : g # h => request'[g] = request[g]
        /\ Alone'
        /\ ~overlapped' => ~overlapped /\ \A g \in Handler : g # h => request[g] = Idle
    BY <1>0, <2>3, <2>5, TurnTaken DEF CreationsInv
  <2>7. /\ created'[n] = [exists |-> TRUE, by |-> a, parts |-> {}]
        /\ \A m \in Creations!Reference : m # n => created'[m] = created[m]
        /\ created' \in [Creations!Reference -> Creations!Document \cup {Creations!NoDocument}]
    BY <1>0, <2>1, <2>3 DEF Creations!TypeOK, Creations!Document
  <2>8. Creations!TypeOK'
    BY <1>0, <2>3, <2>6, <2>7 DEF Creations!TypeOK, CreationStep
  <2>9. \A m, b, S : Has(m, b, S) => Has(m, b, S)'
    BY <2>1, <2>3, <2>7 DEF Has, Creations!Taken
  <2>10. Executing' /\ Executed'
    BY <1>0, <2>3, <2>4, <2>5, <2>6, <2>9 DEF CreationsInv, Executing, Executed
  <2>11. Built'
    <3>1. Has(n, a, Earlier(next))'
      <4>1. wanted[a] \cap Earlier(next) = {} /\ wanted'[a] = wanted[a]
        BY <2>2, <2>3
      <4>2. Creations!Taken' = Creations!Taken \cup {n}
        BY <2>7 DEF Creations!Taken
      <4>3. created'[n].by = a /\ created'[n].parts = {}
        BY <2>7
      <4>4. /\ n \in Creations!Taken'
            /\ created'[n].parts = wanted'[a] \cap Earlier(next)
        BY <4>1, <4>2, <4>3
      <4> QED BY <4>3, <4>4 DEF Has
    <3>2. request'[h].op \in Creations!Part => request'[h].op \in wanted'[a]
      BY <2>2, <2>3, <2>4, <2>6 DEF Creations!Part
    <3>3. ASSUME NEW g \in Handler, g # h
          PROVE  /\ request'[g].op \in Creations!Part => request'[g].op \in wanted'[request'[g].of]
                 /\ request'[g].op \in Creations!Part \cup {"executed"}
                      /\ request'[g].of \notin createdDeleted' =>
                        Has(request[g].at, request[g].of, Earlier(request[g].op))'
      <4>1. /\ request[g].op \in Creations!Part => request[g].op \in wanted[request[g].of]
            /\ request[g].op \in Creations!Part \cup {"executed"} /\ request[g].of \notin createdDeleted =>
                 Has(request[g].at, request[g].of, Earlier(request[g].op))
        BY DEF CreationsInv, Built
      <4>2. request'[g] = request[g]
        BY <2>6, <3>3
      <4> QED BY <2>3, <2>9, <4>1, <4>2 DEF Has
    <3> QED BY <2>4, <2>6, <3>1, <3>2, <3>3 DEF Built, Earlier
  <2>12. FreeToCreate'
    BY <2>2, <2>3, <2>4, <2>6 DEF CreationsInv, FreeToCreate, Creations!Part
  <2> QED BY <2>6, <2>8, <2>10, <2>11, <2>12 DEF CreationsInv
<1>7. ASSUME NEW h \in Handler, Creations!CreateRefused(h) PROVE CreationsInv'
  <2>1. request[h] \in CreationStep /\ request[h].op = "create"
    BY <1>0, <1>7 DEF Creations!CreateRefused
  <2>2. request[h].of \in Action /\ request[h] # Idle
    BY <2>1, CreationCarries
  <2>3. On(h, [op |-> "failed", of |-> request[h].of])
    BY <1>0, <1>7, <2>2, CreationSteps DEF Creations!CreateRefused, Turn,
      Creations!Part
  <2>4. Creations!TypeOK'
    BY <1>0, <1>7, <2>1, <2>2, <2>3, TurnTaken DEF CreationsInv,
      Creations!TypeOK, CreationStep, Creations!Document,
      Creations!NoDocument, Creations!CreateRefused, Creations!Part
  <2>5. Alone'
    BY <1>0, <1>7, <2>1, <2>2, <2>3, TurnTaken DEF CreationsInv,
      Creations!CreateRefused, Creations!Part
  <2>6. Executing'
    BY <1>0, <1>7, <2>1, <2>2, <2>3, TurnTaken DEF CreationsInv, Executing,
      Creations!TypeOK, Creations!CreateRefused, Creations!Part
  <2>7. Built'
    BY <1>0, <1>7, <2>1, <2>2, <2>3, TurnTaken DEF CreationsInv, Built,
      Creations!TypeOK, Has, Creations!Taken, Creations!CreateRefused,
      Creations!Part
  <2>8. Executed'
    BY <1>0, <1>7, <2>1, <2>2, <2>3, TurnTaken DEF CreationsInv, Executed,
      Creations!TypeOK, Has, Creations!Taken, Creations!CreateRefused,
      Creations!Part
  <2>9. FreeToCreate'
    BY <1>0, <1>7, <2>1, <2>2, <2>3, TurnTaken DEF CreationsInv, FreeToCreate,
      Creations!TypeOK, Creations!Taken, Creations!CreateRefused,
      Creations!Part
  <2> QED BY <2>4, <2>5, <2>6, <2>7, <2>8, <2>9 DEF CreationsInv
<1>8. ASSUME NEW h \in Handler, Creations!CreatePart(h) PROVE CreationsInv'
  <2>0. PICK op \in Creations!Part, a \in Action, n \in Creations!Reference :
          request[h] = [op |-> op, of |-> a, at |-> n]
    BY <1>0, <1>8, CreationCarries DEF Creations!CreatePart, Creations!Part
  <2>14. PICK next : next = Creations!FirstOf(a, Creations!After(op))
    OBVIOUS
  <2> DEFINE r == [op |-> next, of |-> a, at |-> n]
  <2>1. request[h] # Idle /\ request[h].op = op /\ request[h].of = a /\ request[h].at = n
    BY <2>0 DEF Creations!Part
  <2>2. /\ op \in wanted[a]
        /\ next \in (Creations!Part \cap wanted[a]) \cup {"executed"}
        /\ wanted[a] \cap Earlier(next) = (wanted[a] \cap Earlier(op)) \cup {op}
    <3>1. wanted[a] \subseteq Creations!Part
      <4>1. wanted[a] \in Payloads
        BY <1>0 DEF Creations!TypeOK
      <4> QED BY <4>1, PayloadsAssumption DEF Creations!Part
    <3>2. op \in wanted[a]
      BY <2>1 DEF CreationsInv, Built
    <3> QED BY <2>14, <3>1, <3>2, FollowingPart
  <2>3. /\ request' = [request EXCEPT ![h] = r]
        /\ overlapped' = overlapped
        /\ UNCHANGED <<proposalStatus, wanted, refused, createdDeleted>>
        /\ created' = [created EXCEPT ![n].parts = @ \cup {op}]
        /\ n \in Creations!Taken /\ created[n].by = a
    <3>2. [request[h] EXCEPT !.op = next] = r
      BY <2>0
    <3> HIDE DEF r
    <3>3. request' = [request EXCEPT ![h] = [request[h] EXCEPT !.op = next]]
      BY <1>8, <2>1, <2>14 DEF Creations!CreatePart
    <3> QED BY <1>8, <2>1, <3>2, <3>3 DEF Creations!CreatePart
  <2>4. r \in CreationStep /\ r.op = next /\ r.of = a /\ r.at = n
    BY <2>2, CreationSteps
  <2> HIDE DEF r
  <2>5. On(h, r)
    BY <2>1, <2>3, <2>4 DEF Turn
  <2>6. /\ request' \in [Handler -> CreationStep] /\ request'[h] = r
        /\ \A g \in Handler : g # h => request'[g] = request[g]
        /\ Alone'
        /\ ~overlapped' => ~overlapped /\ \A g \in Handler : g # h => request[g] = Idle
    BY <1>0, <2>3, <2>5, TurnTaken DEF CreationsInv
  <2>7. /\ created'[n].exists /\ created'[n].by = a
        /\ created'[n].parts = created[n].parts \cup {op}
        /\ \A m \in Creations!Reference : m # n => created'[m] = created[m]
        /\ created' \in [Creations!Reference -> Creations!Document \cup {Creations!NoDocument}]
    <3> DEFINE d == [created[n] EXCEPT !.parts = @ \cup {op}]
    <3>1. created[n] \in Creations!Document
      BY <1>0, <2>3 DEF Creations!TypeOK, Creations!Taken, Creations!NoDocument
    <3>2. d \in Creations!Document
      BY <3>1 DEF Creations!Document
    <3>3. d.exists /\ d.by = a /\ d.parts = created[n].parts \cup {op}
      BY <2>3, <3>1 DEF Creations!Document, Creations!Taken
    <3>4. created' = [created EXCEPT ![n] = d]
      BY <2>3
    <3> HIDE DEF d
    <3> QED BY <1>0, <3>2, <3>3, <3>4 DEF Creations!TypeOK
  <2>8. Creations!TypeOK'
    BY <1>0, <2>3, <2>6, <2>7 DEF Creations!TypeOK, CreationStep
  <2>9. Creations!Taken' = Creations!Taken
    BY <2>3, <2>7 DEF Creations!Taken
  <2>10. \A m, b, S : b # a /\ Has(m, b, S) => Has(m, b, S)'
    BY <2>3, <2>7, <2>9 DEF Has, Creations!Taken
  <2>11. Executing' /\ Executed'
    <3>1. proposalStatus[a] = "APPROVED"
      BY <2>1 DEF CreationsInv, Executing
    <3>2. Executing'
      BY <2>1, <2>3, <2>4, <2>6 DEF CreationsInv, Executing
    <3>3. Executed'
      BY <2>3, <2>10, <3>1 DEF CreationsInv, Executed
    <3> QED BY <3>2, <3>3
  <2>12. Built'
    <3>1. a \notin createdDeleted => Has(n, a, Earlier(next))'
      <4>1. a \notin createdDeleted => created[n].parts = wanted[a] \cap Earlier(op)
        BY <2>1 DEF CreationsInv, Built, Has
      <4> QED BY <2>2, <2>3, <2>7, <2>9, <4>1 DEF Has
    <3>2. request'[h].op \in Creations!Part => request'[h].op \in wanted'[a]
      BY <2>2, <2>3, <2>4, <2>6 DEF Creations!Part
    <3>3. ASSUME NEW g \in Handler, g # h, request[g].op \in Creations!Part \cup {"executed"}
          PROVE  /\ request[g].op \in Creations!Part => request[g].op \in wanted[request[g].of]
                 /\ request[g].of \notin createdDeleted =>
                      Has(request[g].at, request[g].of, Earlier(request[g].op))'
      <4>1. request[g] # Idle
        BY <3>3 DEF Creations!Part
      <4>2. request[g].of # a
        BY <2>1, <3>3, <4>1 DEF CreationsInv, Executing
      <4>3. /\ request[g].op \in Creations!Part => request[g].op \in wanted[request[g].of]
            /\ request[g].of \notin createdDeleted =>
                 Has(request[g].at, request[g].of, Earlier(request[g].op))
        BY <3>3 DEF CreationsInv, Built
      <4>4. request'[g] = request[g]
        BY <2>6, <3>3
      <4> QED BY <2>10, <4>2, <4>3, <4>4 DEF Has
    <3>4. ASSUME NEW g \in Handler, g # h
          PROVE  /\ request'[g].op \in Creations!Part => request'[g].op \in wanted'[request'[g].of]
                 /\ request'[g].op \in Creations!Part \cup {"executed"}
                      /\ request'[g].of \notin createdDeleted' =>
                        Has(request[g].at, request[g].of, Earlier(request[g].op))'
      <4>1. request'[g] = request[g]
        BY <2>6, <3>4
      <4> QED BY <2>3, <3>3, <3>4, <4>1 DEF Has
    <3> QED BY <2>3, <2>4, <2>6, <3>1, <3>2, <3>4 DEF Built, Earlier
  <2>13. FreeToCreate'
    BY <2>2, <2>3, <2>4, <2>6, <2>9 DEF CreationsInv, FreeToCreate, Creations!Part
  <2> QED BY <2>6, <2>8, <2>11, <2>12, <2>13 DEF CreationsInv
<1>9. ASSUME NEW h \in Handler, Creations!Throws(h) PROVE CreationsInv'
  <2>2. request[h].of \in Action /\ request[h] # Idle
    BY <1>0, <1>9, CreationCarries DEF Creations!Throws, Creations!Part
  <2>3. On(h, [op |-> "failed", of |-> request[h].of])
    BY <1>0, <1>9, <2>2, CreationSteps DEF Creations!Throws, Turn,
      Creations!Part
  <2>4. Creations!TypeOK'
    BY <1>0, <1>9, <2>2, <2>3, TurnTaken DEF CreationsInv, Creations!TypeOK,
      CreationStep, Creations!Document, Creations!NoDocument,
      Creations!Throws, Creations!Part
  <2>5. Alone'
    BY <1>0, <1>9, <2>2, <2>3, TurnTaken DEF CreationsInv, Creations!Throws,
      Creations!Part
  <2>6. Executing'
    BY <1>0, <1>9, <2>2, <2>3, TurnTaken DEF CreationsInv, Executing,
      Creations!TypeOK, Creations!Throws, Creations!Part
  <2>7. Built'
    BY <1>0, <1>9, <2>2, <2>3, TurnTaken DEF CreationsInv, Built,
      Creations!TypeOK, Has, Creations!Taken, Creations!Throws, Creations!Part
  <2>8. Executed'
    BY <1>0, <1>9, <2>2, <2>3, TurnTaken DEF CreationsInv, Executed,
      Creations!TypeOK, Has, Creations!Taken, Creations!Throws, Creations!Part
  <2>9. FreeToCreate'
    BY <1>0, <1>9, <2>2, <2>3, TurnTaken DEF CreationsInv, FreeToCreate,
      Creations!TypeOK, Creations!Taken, Creations!Throws, Creations!Part
  <2> QED BY <2>4, <2>5, <2>6, <2>7, <2>8, <2>9 DEF CreationsInv
<1>10. ASSUME NEW h \in Handler, Creations!Settle(h) PROVE CreationsInv'
  <2>3. On(h, Idle)
    BY <1>0, <1>10, CreationSteps DEF Creations!Settle, Turn, Creations!Part
  <2>4. Creations!TypeOK'
    BY <1>0, <1>10, <2>3, TurnTaken DEF CreationsInv, Creations!TypeOK,
      CreationStep, Creations!Document, Creations!NoDocument,
      Creations!Settle, Creations!Part
  <2>5. Alone'
    BY <1>0, <1>10, <2>3, TurnTaken DEF CreationsInv, Creations!Settle,
      Creations!Part
  <2>6. Executing'
    BY <1>0, <1>10, <2>3, TurnTaken DEF CreationsInv, Executing,
      Creations!TypeOK, Creations!Settle, Creations!Part
  <2>7. Built'
    BY <1>0, <1>10, <2>3, TurnTaken DEF CreationsInv, Built, Creations!TypeOK,
      Has, Creations!Taken, Creations!Settle, Creations!Part
  <2>8. Executed'
    <3> DEFINE b == request[h].of
    <3>1. /\ UNCHANGED <<created, wanted, createdDeleted>>
          /\ \A a \in Action : a # b => proposalStatus'[a] = proposalStatus[a]
      BY <1>0, <1>10 DEF Creations!Settle, Creations!TypeOK
    <3>2. ASSUME b \in Action, b \notin createdDeleted, proposalStatus'[b] = "EXECUTED"
          PROVE  Has(request[h].at, b, Creations!Part) /\ request[h].at \in Creations!Reference
      <4>1. request[h].op = "executed"
        BY <1>0, <1>10, <3>2 DEF Creations!Settle, Creations!TypeOK
      <4>2. Has(request[h].at, b, Earlier("executed"))
        BY <3>2, <4>1 DEF CreationsInv, Built
      <4> QED BY <4>2 DEF Earlier, Has, Creations!Taken
    <3>3. ASSUME NEW a \in Action, a \notin createdDeleted', proposalStatus'[a] = "EXECUTED"
          PROVE  \E n \in Creations!Reference : Has(n, a, Creations!Part)'
      <4>1. \E n \in Creations!Reference : Has(n, a, Creations!Part)
        <5>1. CASE a = b
          BY <3>1, <3>2, <3>3, <5>1
        <5>2. CASE a # b
          BY <3>1, <3>3, <5>2 DEF CreationsInv, Executed
        <5> QED BY <5>1, <5>2
      <4> QED BY <3>1, <4>1 DEF Has, Creations!Taken
    <3> QED BY <3>3 DEF Executed
  <2>9. FreeToCreate'
    BY <1>0, <1>10, <2>3, TurnTaken DEF CreationsInv, FreeToCreate,
      Creations!TypeOK, Creations!Taken, Creations!Settle, Creations!Part
  <2> QED BY <2>4, <2>5, <2>6, <2>7, <2>8, <2>9 DEF CreationsInv
<1>11. ASSUME Creations!Crash PROVE CreationsInv'
  BY <1>11 DEF CreationsInv, Creations!TypeOK, Creations!Crash, Alone, Executing, Built,
    Executed, FreeToCreate, Idle, Creations!Part, Has, Creations!Taken, CreationStep
<1> QED
  BY <1>1, <1>2, <1>3, <1>4, <1>5, <1>6, <1>7, <1>8, <1>9, <1>10, <1>11 DEF
    Creations!Next

(***************************************************************************)
(* PolicyVersions.                                                          *)
(***************************************************************************)
VersionStep ==
  {Idle} \cup Versions!Create
    \cup [op : {"restore"}, content : Content]
    \cup [op : {"reread"}]
    \cup [op : {"renumber"}, number : Versions!Number]

LEMMA VersionSteps ==
  /\ Idle \in VersionStep /\ [op |-> "reread"] \in VersionStep
  /\ \A n \in Versions!Number :
       /\ [op |-> "renumber", number |-> n] \in VersionStep
       /\ \A c \in Content : [op |-> "insert", number |-> n, content |-> c] \in VersionStep
  /\ \A c \in Content : [op |-> "restore", content |-> c] \in VersionStep
BY DEF VersionStep, Versions!Create

LEMMA VersionCarries ==
  ASSUME NEW r \in VersionStep
  PROVE  /\ r.op = "insert" => r.number \in Versions!Number /\ r.content \in Content
         /\ r.op = "renumber" => r.number \in Versions!Number
         /\ r.op = "restore" => r.content \in Content
BY DEF VersionStep, Versions!Create, Idle

LEMMA VersionAt ==
  ASSUME versions \in Seq(Versions!Version)
  PROVE  \A i \in DOMAIN versions : i \in Nat /\ versions[i] \in Versions!Version
OBVIOUS

LEMMA VersionHas ==
  ASSUME NEW v \in Versions!Version
  PROVE  v.number \in Versions!Number /\ v.content \in Content
BY DEF Versions!Version

\* The order of the numbers.
Below(m, n) == m.major < n.major \/ (m.major = n.major /\ m.minor < n.minor)
UpTo(m, n) == m.major < n.major \/ (m.major = n.major /\ m.minor <= n.minor)

LEMMA VersionOrder ==
  ASSUME NEW l \in Versions!Number, NEW m \in Versions!Number, NEW n \in Versions!Number
  PROVE  /\ Below(m, n) => m # n /\ n # m
         /\ UpTo(m, m) /\ (Below(m, n) => UpTo(m, n))
         /\ UpTo(l, m) /\ Below(m, n) => Below(l, n)
BY DEF Below, UpTo, Versions!Number

\* The number of a new version comes after the document's.
LEMMA NumberFollows ==
  ASSUME number \in Versions!Number, NEW isMajor \in BOOLEAN
  PROVE  Versions!Following(isMajor) \in Versions!Number /\ Below(number, Versions!Following(isMajor))
<1>1. CASE isMajor
  BY <1>1 DEF Versions!Following, Versions!Number, Below
<1>2. CASE ~isMajor
  <2> DEFINE n == [number EXCEPT !.minor = @ + 1]
  <2>1. n \in Versions!Number /\ n.major = number.major /\ n.minor = number.minor + 1
    BY DEF Versions!Number
  <2>2. number.minor \in Nat
    BY DEF Versions!Number
  <2> QED BY <1>2, <2>1, <2>2 DEF Versions!Following, Below
<1> QED BY <1>1, <1>2

FirstIsOne ==
  \A i \in DOMAIN versions : versions[i].initial => versions[i].number = [major |-> 1, minor |-> 0]

\* When no two requests overlapped and none broke off, the numbers of the versions increase;
\* the document's is not below them (between an insertion and the renumbering, the one it
\* is about to get), and a version to be inserted comes after.
Ascending ==
  ~overlapped /\ ~versionCut /\ FirstIsOne =>
    /\ \A i, j \in DOMAIN versions : i < j => Below(versions[i].number, versions[j].number)
    /\ (\A h \in Handler : request[h].op # "renumber") =>
         \A i \in DOMAIN versions : UpTo(versions[i].number, number)
    /\ \A h \in Handler :
         /\ request[h].op = "insert" => Below(number, request[h].number)
         /\ request[h].op = "renumber" =>
              \A i \in DOMAIN versions : UpTo(versions[i].number, request[h].number)

VersionsInv == Versions!TypeOK /\ Alone /\ Ascending

LEMMA VersionsInit == Versions!Init => VersionsInv
<1> SUFFICES ASSUME Versions!Init PROVE VersionsInv
  OBVIOUS
<1> USE DEF Idle, Versions!Idle
<1>1. number \in Versions!Number /\ [number EXCEPT !.minor = 1] \in Versions!Number
  BY DEF Versions!Init, Versions!Number
<1>2. \A n \in Versions!Number : Versions!Initial(n) \in Versions!Version
  BY DEF Versions!Init, Versions!Initial, Versions!Version
<1>3. versions \in Seq(Versions!Version) /\ DOMAIN versions \in {{}, {1}}
  <2>1. CASE versions = <<>>
    BY <2>1
  <2>2. CASE versions # <<>>
    <3>1. PICK v \in Versions!Version : versions = <<v>>
      BY <1>1, <1>2, <2>2 DEF Versions!Init
    <3> QED BY <3>1
  <2> QED BY <2>1, <2>2
<1>4. Versions!TypeOK
  BY <1>1, <1>3 DEF Versions!Init, Versions!RequestsInit, Versions!TypeOK
<1>5. Alone /\ \A h \in Handler : request[h].op = "idle"
  BY DEF Versions!Init, Versions!RequestsInit, Alone
<1>6. FirstIsOne => \A i \in DOMAIN versions : versions[i].number = number
  BY <1>1 DEF FirstIsOne, Versions!Init, Versions!Initial
<1>7. Ascending
  BY <1>1, <1>3, <1>5, <1>6, VersionOrder DEF Ascending
<1> QED BY <1>4, <1>5, <1>7 DEF VersionsInv

LEMMA VersionsStep ==
  ASSUME VersionsInv, [Versions!Next]_(Versions!vars)
  PROVE  VersionsInv'
<1> USE DEF Idle, Versions!Idle, Versions!Serves, Versions!Continues, Versions!Answers,
      Versions!Reads, Versions!AtOnce, Versions!rows, Versions!history, Versions!Quiet, Quiet
<1> DEFINE On(h, r) == r \in VersionStep /\ Turn(h, r)
<1>0. Versions!TypeOK /\ request \in [Handler -> VersionStep]
  BY DEF VersionsInv, Versions!TypeOK, VersionStep
<1>1. CASE UNCHANGED Versions!vars
  BY <1>1 DEF VersionsInv, Alone, Versions!TypeOK, VersionStep,
    Versions!Create, Ascending, FirstIsOne, Versions!vars, Versions!requests
<1>2. ASSUME NEW c \in Content, Versions!Edit(c) PROVE VersionsInv'
  <2>4. Versions!TypeOK'
    BY <1>0, <1>2, AtOnceTaken DEF VersionsInv, Versions!TypeOK, VersionStep,
      Versions!Create, Versions!Edit
  <2>5. Alone'
    BY <1>0, <1>2, AtOnceTaken DEF VersionsInv, Versions!Edit
  <2>6. Ascending'
    BY <1>0, <1>2, AtOnceTaken DEF VersionsInv, Ascending, Versions!TypeOK,
      FirstIsOne, Versions!Edit
  <2> QED BY <2>4, <2>5, <2>6 DEF VersionsInv
<1>3. ASSUME NEW h \in Handler, NEW isMajor \in BOOLEAN, Versions!CreateReads(h, isMajor)
      PROVE  VersionsInv'
  <2>1. request[h] = Idle
    BY <1>3 DEF Versions!CreateReads
  <2>2. PICK n \in Versions!Number : n = Versions!Following(isMajor) /\ Below(number, n)
    BY <1>0, NumberFollows DEF Versions!TypeOK
  <2> DEFINE r == [op |-> "insert", number |-> n, content |-> content]
  <2>3. On(h, r) /\ r.op = "insert" /\ r.number = n
    BY <1>0, <1>3, <2>1, <2>2, VersionSteps DEF Versions!CreateReads, Turn, Versions!Creation,
      Versions!TypeOK
  <2> HIDE DEF r
  <2>4. /\ request' \in [Handler -> VersionStep] /\ Alone'
        /\ request'[h].op = "insert" /\ request'[h].number = n
        /\ \A g \in Handler : g # h => request'[g] = request[g]
        /\ ~overlapped' => ~overlapped /\ \A g \in Handler : g # h => request[g] = Idle
    <3>0. r \in VersionStep /\ Turn(h, r) /\ Alone
      BY <2>3 DEF VersionsInv
    <3> HIDE DEF Idle
    <3>1. /\ request' \in [Handler -> VersionStep] /\ Alone'
          /\ request'[h] = r
          /\ \A g \in Handler : g # h => request'[g] = request[g]
          /\ ~overlapped' => \A g \in Handler : g # h => request[g] = Idle
      BY <1>0, <3>0, TurnTaken
    <3>2. ~overlapped' => ~overlapped
      BY <1>3 DEF Versions!CreateReads
    <3> QED BY <2>3, <3>1, <3>2
  <2>5. UNCHANGED <<content, number, versions, versionEdited, versionCut>> /\ overlapped' \in BOOLEAN
    BY <1>0, <1>3 DEF Versions!CreateReads, Versions!TypeOK
  <2>6. Versions!TypeOK'
    BY <1>0, <2>4, <2>5 DEF Versions!TypeOK, VersionStep
  <2>7. Ascending'
    <3>1. ~overlapped' => \A g \in Handler : request[g].op # "renumber"
      BY <1>3, <2>4 DEF Versions!CreateReads
    <3> QED BY <2>2, <2>4, <2>5, <3>1 DEF VersionsInv, Ascending, FirstIsOne
  <2> QED BY <2>4, <2>6, <2>7 DEF VersionsInv
<1>4. ASSUME NEW h \in Handler, NEW i \in DOMAIN versions, Versions!RollbackReads(h, i)
      PROVE  VersionsInv'
  <2>1. versions[i].content \in Content
    BY <1>0, VersionAt, VersionHas DEF Versions!TypeOK
  <2>3. On(h, [op |-> "restore", content |-> versions[i].content])
    BY <1>0, <1>4, VersionSteps, <2>1 DEF Versions!RollbackReads, Turn
  <2>4. Versions!TypeOK'
    BY <1>0, <1>4, <2>3, TurnTaken, <2>1 DEF VersionsInv, Versions!TypeOK,
      VersionStep, Versions!Create, Versions!RollbackReads
  <2>5. Alone'
    BY <1>0, <1>4, <2>3, TurnTaken DEF VersionsInv, Versions!RollbackReads
  <2>6. Ascending'
    BY <1>0, <1>4, <2>3, TurnTaken, <2>1 DEF VersionsInv, Ascending,
      Versions!TypeOK, FirstIsOne, Versions!RollbackReads
  <2> QED BY <2>4, <2>5, <2>6 DEF VersionsInv
<1>5. ASSUME NEW h \in Handler, Versions!Insert(h) PROVE VersionsInv'
  <2> DEFINE n == request[h].number
             v == [number |-> n, content |-> request[h].content, initial |-> FALSE]
             r == [op |-> "renumber", number |-> n]
             k == Len(versions) + 1
  <2>1. n \in Versions!Number /\ request[h].content \in Content /\ request[h] # Idle
    BY <1>0, <1>5, VersionCarries DEF Versions!Insert
  <2>2. v \in Versions!Version /\ versions \in Seq(Versions!Version) /\ number \in Versions!Number
    BY <1>0, <2>1 DEF Versions!Version, Versions!TypeOK
  <2>3. v.number = n /\ ~v.initial /\ r.number = n
    OBVIOUS
  <2>4. On(h, r)
    BY <1>5, <2>1, VersionSteps DEF Versions!Insert, Turn
  <2>5. /\ request' \in [Handler -> VersionStep] /\ request'[h] = r /\ Alone'
        /\ ~overlapped' => ~overlapped /\ \A g \in Handler : g # h => request'[g] = Idle
    BY <1>0, <1>5, <2>4, TurnTaken DEF VersionsInv, Versions!Insert
  <2> HIDE DEF r
  <2>6. /\ versions' = Append(versions, v)
        /\ UNCHANGED <<content, number, versionCut, overlapped>> /\ versionEdited' = FALSE
    BY <1>5 DEF Versions!Insert
  <2> HIDE DEF v
  <2>7. /\ versions' \in Seq(Versions!Version) /\ DOMAIN versions' = DOMAIN versions \cup {k}
        /\ versions'[k] = v
        /\ \A i \in DOMAIN versions : i \in Nat /\ i < k /\ versions'[i] = versions[i]
        /\ \A i \in DOMAIN versions : versions[i].number \in Versions!Number
    <3>1. \A i \in DOMAIN versions : versions[i].number \in Versions!Number
      BY <2>2, VersionAt, VersionHas
    <3>2. versions' \in Seq(Versions!Version) /\ Len(versions) \in Nat /\ DOMAIN versions = 1 .. Len(versions)
      BY <2>2, <2>6
    <3>3. Len(versions') = k /\ DOMAIN versions' = 1 .. k
      BY <2>2, <2>6
    <3>4. versions'[k] = v /\ \A i \in 1 .. Len(versions) : versions'[i] = versions[i]
      BY <2>2, <2>6
    <3>5. 1 .. k = (1 .. Len(versions)) \cup {k}
      BY <3>2
    <3> QED BY <3>1, <3>2, <3>3, <3>4, <3>5
  <2>8. Versions!TypeOK'
    BY <1>0, <2>5, <2>6, <2>7 DEF Versions!TypeOK, VersionStep
  <2>9. ASSUME ~overlapped', ~versionCut', FirstIsOne'
        PROVE  /\ \A i, j \in DOMAIN versions : i < j => Below(versions[i].number, versions[j].number)
               /\ \A i \in DOMAIN versions : UpTo(versions[i].number, number)
               /\ Below(number, n)
    <3>1. FirstIsOne
      BY <2>7, <2>9 DEF FirstIsOne
    <3>2. request[h].op = "insert" /\ \A g \in Handler : request[g].op # "renumber"
      BY <1>5, <2>1, <2>6, <2>9 DEF VersionsInv, Versions!Insert, Alone
    <3> QED BY <2>6, <2>9, <3>1, <3>2 DEF VersionsInv, Ascending
  <2>10. ASSUME ~overlapped', ~versionCut', FirstIsOne'
         PROVE  \A i \in DOMAIN versions : Below(versions[i].number, n) /\ UpTo(versions[i].number, n)
    BY <2>1, <2>2, <2>7, <2>9, <2>10, VersionOrder
  <2>11. UpTo(n, n)
    BY <2>1, VersionOrder
  <2>12. ASSUME ~overlapped', ~versionCut', FirstIsOne'
         PROVE  /\ \A i, j \in DOMAIN versions' : i < j => Below(versions'[i].number, versions'[j].number)
                /\ \A i \in DOMAIN versions' : UpTo(versions'[i].number, n)
    BY <2>3, <2>7, <2>9, <2>10, <2>11, <2>12
  <2>13. Ascending'
    <3>1. r.op = "renumber" /\ r.number = n
      BY DEF r
    <3> QED BY <2>5, <2>12, <3>1 DEF Ascending
  <2> QED BY <2>5, <2>8, <2>13 DEF VersionsInv
<1>6. ASSUME NEW h \in Handler, Versions!Renumber(h) PROVE VersionsInv'
  <2>1. request[h].number \in Versions!Number /\ request[h] # Idle
    BY <1>0, <1>6, VersionCarries DEF Versions!Renumber
  <2>3. On(h, Idle)
    BY <1>6, <2>1, VersionSteps DEF Versions!Renumber, Turn
  <2>4. Versions!TypeOK'
    BY <1>0, <1>6, <2>1, <2>3, TurnTaken DEF VersionsInv, Versions!TypeOK, VersionStep,
      Versions!Renumber
  <2>5. Alone'
    BY <1>0, <2>3, TurnTaken DEF VersionsInv
  <2>6. Ascending'
    <3>1. /\ request' \in [Handler -> VersionStep] /\ request'[h] = Idle
          /\ \A g \in Handler : g # h => request'[g] = request[g]
          /\ ~overlapped' => ~overlapped /\ \A g \in Handler : g # h => request[g] = Idle
      BY <1>0, <1>6, <2>3, TurnTaken DEF VersionsInv, Versions!Renumber
    <3>2. ~overlapped' => \A g \in Handler : request'[g].op = "idle"
      BY <3>1
    <3>3. ~overlapped' => ~overlapped
      BY <3>1
    <3> QED BY <1>6, <3>2, <3>3 DEF VersionsInv, Ascending, FirstIsOne, Versions!Renumber
  <2> QED BY <2>4, <2>5, <2>6 DEF VersionsInv
<1>7. ASSUME NEW h \in Handler, Versions!Restore(h) PROVE VersionsInv'
  <2>2. request[h].content \in Content /\ request[h] # Idle
    BY <1>0, <1>7, VersionCarries DEF Versions!Restore
  <2>3. On(h, [op |-> "reread"])
    BY <1>0, <1>7, <2>2, VersionSteps DEF Versions!Restore, Turn
  <2>4. Versions!TypeOK'
    BY <1>0, <1>7, <2>2, <2>3, TurnTaken DEF VersionsInv, Versions!TypeOK,
      VersionStep, Versions!Create, Versions!Restore
  <2>5. Alone'
    BY <1>0, <1>7, <2>2, <2>3, TurnTaken DEF VersionsInv, Versions!Restore
  <2>6. Ascending'
    BY <1>0, <1>7, <2>2, <2>3, TurnTaken DEF VersionsInv, Ascending,
      Versions!TypeOK, FirstIsOne, Versions!Restore
  <2> QED BY <2>4, <2>5, <2>6 DEF VersionsInv
<1>8. ASSUME NEW h \in Handler, Versions!Reread(h) PROVE VersionsInv'
  <2>1. request[h] # Idle
    BY <1>8 DEF Versions!Reread
  <2>2. PICK n \in Versions!Number : n = Versions!Following(FALSE) /\ Below(number, n)
    BY <1>0, NumberFollows DEF Versions!TypeOK
  <2> DEFINE r == [op |-> "insert", number |-> n, content |-> content]
  <2>3. On(h, r) /\ r.op = "insert" /\ r.number = n
    BY <1>0, <1>8, <2>1, <2>2, VersionSteps DEF Versions!Reread, Turn, Versions!Creation,
      Versions!TypeOK
  <2> HIDE DEF r
  <2>4. /\ request' \in [Handler -> VersionStep] /\ Alone'
        /\ request'[h].op = "insert" /\ request'[h].number = n
        /\ \A g \in Handler : g # h => request'[g] = request[g]
        /\ ~overlapped' => ~overlapped /\ \A g \in Handler : g # h => request[g] = Idle
    <3>0. r \in VersionStep /\ Turn(h, r) /\ Alone
      BY <2>3 DEF VersionsInv
    <3> HIDE DEF Idle
    <3>1. /\ request' \in [Handler -> VersionStep] /\ Alone'
          /\ request'[h] = r
          /\ \A g \in Handler : g # h => request'[g] = request[g]
          /\ ~overlapped' => \A g \in Handler : g # h => request[g] = Idle
      BY <1>0, <3>0, TurnTaken
    <3>2. ~overlapped' => ~overlapped
      BY <1>8 DEF Versions!Reread
    <3> QED BY <2>3, <3>1, <3>2
  <2>5. UNCHANGED <<content, number, versions, versionEdited, versionCut>> /\ overlapped' \in BOOLEAN
    BY <1>0, <1>8 DEF Versions!Reread, Versions!TypeOK
  <2>6. Versions!TypeOK'
    BY <1>0, <2>4, <2>5 DEF Versions!TypeOK, VersionStep
  <2>7. Ascending'
    <3>1. ~overlapped' => \A g \in Handler : request[g].op # "renumber"
      BY <1>8, <2>4 DEF Versions!Reread
    <3> QED BY <2>2, <2>4, <2>5, <3>1 DEF VersionsInv, Ascending, FirstIsOne
  <2> QED BY <2>4, <2>6, <2>7 DEF VersionsInv
<1>9. ASSUME NEW h \in Handler, Versions!BreaksOff(h) PROVE VersionsInv'
  <2>3. On(h, Idle)
    BY <1>0, <1>9, VersionSteps DEF Versions!BreaksOff, Turn
  <2>4. Versions!TypeOK'
    BY <1>0, <1>9, <2>3, TurnTaken DEF VersionsInv, Versions!TypeOK,
      VersionStep, Versions!Create, Versions!BreaksOff
  <2>5. Alone'
    BY <1>0, <1>9, <2>3, TurnTaken DEF VersionsInv, Versions!BreaksOff
  <2>6. Ascending'
    BY <1>0, <1>9, <2>3, TurnTaken DEF VersionsInv, Ascending, Versions!TypeOK,
      FirstIsOne, Versions!BreaksOff
  <2> QED BY <2>4, <2>5, <2>6 DEF VersionsInv
<1> QED
  BY <1>1, <1>2, <1>3, <1>4, <1>5, <1>6, <1>7, <1>8, <1>9 DEF Versions!Next

LEMMA VersionsApart == VersionsInv => Versions!VersionsDistinct
<1> SUFFICES ASSUME VersionsInv, ~overlapped, ~versionCut, FirstIsOne,
                    NEW i \in DOMAIN versions, NEW j \in DOMAIN versions, i # j
             PROVE  versions[i].number # versions[j].number
  BY DEF Versions!VersionsDistinct, Versions!Undisturbed, FirstIsOne
<1>1. /\ i \in Nat /\ j \in Nat
      /\ versions[i].number \in Versions!Number /\ versions[j].number \in Versions!Number
  BY VersionAt, VersionHas DEF VersionsInv, Versions!TypeOK
<1>2. Below(versions[i].number, versions[j].number) \/ Below(versions[j].number, versions[i].number)
  BY <1>1 DEF VersionsInv, Ascending
<1> QED BY <1>1, <1>2, VersionOrder


(***************************************************************************)
(* ReferenceNumbers.                                                        *)
(***************************************************************************)
\* The module's Cardinality is the library's.
LEMMA SameCardinality == \A S : References!Cardinality(S) = Cardinality(S)
BY DEF References!Cardinality, Cardinality

\* The numbers given out are at most MaxNumber.
InBounds ==
  /\ DOMAIN request = Handler
  /\ scheme \in References!Scheme
  /\ IsFiniteSet(refs)
  /\ \A r \in refs : r[1] \in 1 .. MaxNumber
  /\ \A h \in Handler : request[h].op = "insert" => request[h].ref[1] \in 1 .. MaxNumber

\* While no row is deleted, the number of the rows is not below a number given out, nor more
\* than one below a number about to be given out.
Counted ==
  scheme = "count" /\ ~deleted =>
    /\ \A r \in refs : r[1] <= Cardinality(refs)
    /\ \A h \in Handler : request[h].op = "insert" => request[h].ref[1] <= Cardinality(refs) + 1

ReferencesInv == InBounds /\ Counted

LEMMA ReferencesInit == References!Init => ReferencesInv
<1> SUFFICES ASSUME References!Init PROVE ReferencesInv
  OBVIOUS
<1>1. refs = {} /\ IsFiniteSet(refs)
  BY FS_EmptySet DEF References!Init
<1>2. DOMAIN request = Handler /\ \A h \in Handler : request[h].op = "idle"
  BY DEF References!Init, References!RequestsInit, References!Idle
<1> QED BY <1>1, <1>2 DEF References!Init, ReferencesInv, InBounds, Counted

LEMMA ReferencesStep ==
  ASSUME ReferencesInv, [References!Next]_(References!vars)
  PROVE  ReferencesInv'
<1> USE DEF References!Idle, References!Serves, References!Continues, References!Answers,
      References!Reads, References!AtOnce, References!rows
<1>1. Cardinality(refs) \in Nat /\ MaxNumber \in Nat
  BY FS_CardinalityType, NumbersAssumption DEF ReferencesInv, InBounds
<1>2. CASE UNCHANGED References!vars
  BY <1>2 DEF ReferencesInv, InBounds, Counted, References!vars, References!requests
<1>3. ASSUME NEW h \in Handler, NEW width, References!CreateReads(h, width) PROVE ReferencesInv'
  <2> DEFINE r == [op |-> "insert", ref |-> References!Padded(References!NextNumber, width)]
  <2>1. request' = [request EXCEPT ![h] = r] /\ UNCHANGED <<scheme, refs, deleted>>
    BY <1>3 DEF References!CreateReads
  <2>2. r.ref[1] = References!NextNumber /\ References!NextNumber \in 1 .. MaxNumber
    BY <1>3 DEF References!CreateReads, References!Padded
  <2>3. scheme = "count" => r.ref[1] = Cardinality(refs) + 1
    <3>1. scheme = "count" => References!NextNumber = Cardinality(refs) + 1
      BY SameCardinality DEF References!NextNumber
    <3> HIDE DEF r
    <3> QED BY <2>2, <3>1
  <2> HIDE DEF r
  <2>4. /\ DOMAIN request' = Handler /\ request'[h] = r
        /\ \A g \in Handler : g # h => request'[g] = request[g]
    BY <2>1 DEF ReferencesInv, InBounds
  <2>5. InBounds'
    BY <2>1, <2>2, <2>4 DEF ReferencesInv, InBounds
  <2>6. Counted'
    BY <1>1, <2>1, <2>3, <2>4 DEF ReferencesInv, Counted
  <2> QED BY <2>5, <2>6 DEF ReferencesInv
<1>4. ASSUME NEW h \in Handler, References!Create(h) PROVE ReferencesInv'
  <2> DEFINE r == request[h].ref
  <2>1. /\ request[h].op = "insert" /\ r \notin refs
        /\ refs' = refs \cup {r} /\ UNCHANGED <<scheme, deleted>>
        /\ request' = [request EXCEPT ![h] = [op |-> "idle"]]
    BY <1>4 DEF References!Create
  <2>2. /\ DOMAIN request' = Handler /\ request'[h].op = "idle"
        /\ \A g \in Handler : g # h => request'[g] = request[g]
    BY <2>1 DEF ReferencesInv, InBounds
  <2>3. IsFiniteSet(refs') /\ Cardinality(refs') = Cardinality(refs) + 1
    BY <2>1, FS_AddElement DEF ReferencesInv, InBounds
  <2>4. InBounds'
    BY <2>1, <2>2, <2>3 DEF ReferencesInv, InBounds
  <2>5. Counted'
    <3> SUFFICES ASSUME scheme = "count", ~deleted
                 PROVE  /\ \A q \in refs' : q[1] <= Cardinality(refs')
                        /\ \A g \in Handler : request'[g].op = "insert" =>
                             request'[g].ref[1] <= Cardinality(refs') + 1
      BY <2>1 DEF Counted
    <3>1. r[1] \in Nat /\ \A q \in refs : q[1] \in Nat
      BY <1>1, <2>1 DEF ReferencesInv, InBounds
    <3>2. \A g \in Handler : request[g].op = "insert" => request[g].ref[1] \in Nat
      BY <1>1 DEF ReferencesInv, InBounds
    <3>3. r[1] <= Cardinality(refs) + 1 /\ \A q \in refs : q[1] <= Cardinality(refs) + 1
      BY <1>1, <2>1, <3>1 DEF ReferencesInv, Counted
    <3>4. \A g \in Handler : request[g].op = "insert" => request[g].ref[1] <= Cardinality(refs) + 2
      BY <1>1, <3>2 DEF ReferencesInv, Counted
    <3>5. \A q \in refs' : q[1] <= Cardinality(refs')
      BY <2>1, <2>3, <3>3
    <3>6. ASSUME NEW g \in Handler, request'[g].op = "insert"
          PROVE  request'[g].ref[1] <= Cardinality(refs') + 1
      <4>1. g # h /\ request'[g] = request[g]
        BY <2>2, <3>6
      <4> QED BY <1>1, <2>3, <3>2, <3>4, <3>6, <4>1
    <3> QED BY <3>5, <3>6
  <2> QED BY <2>4, <2>5 DEF ReferencesInv
<1>5. ASSUME NEW r, References!Delete(r) PROVE ReferencesInv'
  <2>1. refs' = refs \ {r} /\ deleted' /\ UNCHANGED <<scheme, request>>
    BY <1>5 DEF References!Delete
  <2>2. IsFiniteSet(refs')
    BY <2>1, FS_RemoveElement DEF ReferencesInv, InBounds
  <2> QED BY <2>1, <2>2 DEF ReferencesInv, InBounds, Counted
<1>6. ASSUME NEW h \in Handler, References!BreaksOff(h) PROVE ReferencesInv'
  <2>1. request' = [request EXCEPT ![h] = [op |-> "idle"]] /\ UNCHANGED <<scheme, refs, deleted>>
    BY <1>6 DEF References!BreaksOff
  <2>2. /\ DOMAIN request' = Handler /\ request'[h].op = "idle"
        /\ \A g \in Handler : g # h => request'[g] = request[g]
    BY <2>1 DEF ReferencesInv, InBounds
  <2> QED BY <2>1, <2>2 DEF ReferencesInv, InBounds, Counted
<1> QED BY <1>2, <1>3, <1>4, <1>5, <1>6 DEF References!Next

\* A set of numbers that are at most n has a greatest one.
LEMMA Greatest ==
  ASSUME NEW n \in Nat, NEW S, S # {}, \A s \in S : s \in 1 .. n
  PROVE  \E m \in S : \A s \in S : s <= m
<1> DEFINE T == {n - s : s \in S}
<1>1. T \subseteq Nat /\ T # {}
  OBVIOUS
<1>2. PICK t \in T : \A u \in T : ~(<<u, t>> \in OpToRel(<, Nat))
  BY <1>1, NatLessThanWellFounded, WFMin
<1>3. PICK m \in S : t = n - m
  BY <1>2
<1>4. ASSUME NEW s \in S PROVE s <= m
  <2>1. n - s \in T
    OBVIOUS
  <2>2. ~(n - s < t)
    BY <1>1, <1>2, <2>1 DEF OpToRel
  <2> QED BY <1>3, <2>2
<1> QED BY <1>4

LEMMA ReferencesFree == ReferencesInv => References!NextIsFree
<1> SUFFICES ASSUME ReferencesInv, NEW width \in References!Widths,
                    scheme = "count" => ~deleted,
                    scheme = "last" => \A r \in refs : r[2] = width
             PROVE  References!Padded(References!NextNumber, width) \notin refs
  BY DEF References!NextIsFree
<1>1. References!Padded(References!NextNumber, width)[1] = References!NextNumber
  BY DEF References!Padded
<1>2. Cardinality(refs) \in Nat /\ \A r \in refs : r[1] \in Nat
  BY FS_CardinalityType, NumbersAssumption DEF ReferencesInv, InBounds
<1>3. CASE scheme = "count"
  <2>1. References!NextNumber = Cardinality(refs) + 1
    BY <1>3, SameCardinality DEF References!NextNumber
  <2>2. \A r \in refs : r[1] <= Cardinality(refs)
    BY <1>3 DEF ReferencesInv, Counted
  <2> QED BY <1>1, <1>2, <2>1, <2>2
<1>4. CASE scheme = "last" /\ refs # {}
  <2>1. \A r, q \in refs : References!Before(r, q) <=> r[1] < q[1]
    <3> SUFFICES ASSUME NEW r \in refs, NEW q \in refs
                 PROVE  References!Before(r, q) <=> r[1] < q[1]
      OBVIOUS
    <3>1. r[2] = width /\ q[2] = width
      BY <1>4
    <3>2. References!Leading(r, width) = r[1] /\ References!Leading(q, width) = q[1]
      BY <3>1 DEF References!Leading
    <3>3. width \in Int
      BY NumbersAssumption DEF References!Widths
    <3>4. (IF r[2] < q[2] THEN r[2] ELSE q[2]) = width /\ ~(r[2] < q[2])
      BY <3>1, <3>3
    <3>5. References!Before(r, q) <=> References!Leading(r, width) < References!Leading(q, width)
      BY <3>4 DEF References!Before
    <3> QED BY <3>2, <3>5
  <2>2. \E r \in References!Last : TRUE
    <3> DEFINE S == {r[1] : r \in refs}
    <3>1. S # {} /\ \A s \in S : s \in 1 .. MaxNumber
      BY <1>4 DEF ReferencesInv, InBounds
    <3>2. PICK m \in S : \A s \in S : s <= m
      BY <3>1, NumbersAssumption, Greatest
    <3>3. PICK r \in refs : m = r[1]
      BY <3>2
    <3>4. \A q \in refs : q[1] <= r[1]
      BY <3>2, <3>3
    <3> QED BY <1>2, <2>1, <3>4 DEF References!Last
  <2>3. PICK c \in refs : References!NextNumber = c[1] + 1 /\ \A r \in refs : r[1] <= c[1]
    <3> DEFINE c == CHOOSE r \in References!Last : TRUE
    <3>1. c \in References!Last
      BY <2>2
    <3>2. c \in refs /\ \A r \in refs : ~(c[1] < r[1])
      BY <2>1, <3>1 DEF References!Last
    <3>3. References!NextNumber = c[1] + 1
      BY <1>4 DEF References!NextNumber
    <3> HIDE DEF c
    <3> QED BY <1>2, <3>2, <3>3
  <2> QED BY <1>1, <1>2, <2>3
<1>5. CASE refs = {}
  BY <1>5
<1> QED BY <1>3, <1>4, <1>5 DEF ReferencesInv, InBounds, References!Scheme

(***************************************************************************)
(* AuthSessions: the failures are counted.                                  *)
(***************************************************************************)
\* As long as no two requests overlapped, a request that is to write a failure has read how
\* many there are.
CountedFailures ==
  /\ DOMAIN request = Handler
  /\ ~overlapped =>
       /\ attempts = streak /\ (streak >= MaxAttempts => locked)
       /\ \A h \in Handler : request[h].op = "fail" =>
            request[h].attempts = Sessions!Capped(attempts + 1)

FailuresInv == Alone /\ CountedFailures

LEMMA FailuresInit == Sessions!Init => FailuresInv
<1> SUFFICES ASSUME Sessions!Init PROVE FailuresInv
  OBVIOUS
<1>1. /\ DOMAIN request = Handler /\ attempts = 0 /\ streak = 0 /\ ~(0 >= MaxAttempts)
      /\ \A h \in Handler : request[h].op = "idle"
  BY AttemptsAssumption DEF Sessions!Init, Sessions!RequestsInit, Sessions!Idle
<1>2. Alone
  BY DEF Sessions!Init, Sessions!RequestsInit, Sessions!Idle, Idle, Alone
<1> QED BY <1>1, <1>2 DEF FailuresInv, CountedFailures

LEMMA FailuresTurn ==
  ASSUME FailuresInv, NEW h \in Handler, NEW r, Turn(h, r),
         ~overlapped' => /\ attempts' = streak' /\ (streak' >= MaxAttempts => locked')
                         /\ r.op = "fail" => r.attempts = Sessions!Capped(attempts' + 1)
  PROVE  FailuresInv'
<1>1. /\ DOMAIN request' = Handler /\ Alone' /\ request'[h] = r
      /\ ~overlapped' => \A g \in Handler : g # h => request'[g].op = "idle"
  BY TurnDone DEF FailuresInv, CountedFailures, Idle
<1>2. ~overlapped' => \A g \in Handler : request'[g].op = "fail" =>
        request'[g].attempts = Sessions!Capped(attempts' + 1)
  BY <1>1
<1>3. CountedFailures'
  BY <1>1, <1>2 DEF CountedFailures, Sessions!Capped
<1> QED BY <1>1, <1>3 DEF FailuresInv

LEMMA FailuresStep ==
  ASSUME FailuresInv, [Sessions!Next]_(Sessions!vars)
  PROVE  FailuresInv'
<1> USE DEF Sessions!Idle, Idle, Sessions!Serves, Sessions!Continues, Sessions!Answers,
      Sessions!Reads, Sessions!AtOnce, Sessions!Quiet, Quiet, Sessions!rows, Sessions!history
<1>0. ~overlapped => /\ attempts = streak /\ (streak >= MaxAttempts => locked)
  BY DEF FailuresInv, CountedFailures
<1>1. CASE UNCHANGED Sessions!vars
  BY <1>1 DEF FailuresInv, CountedFailures, Alone, Sessions!vars, Sessions!requests, Sessions!Capped
<1>2. ASSUME NEW h \in Handler, NEW r, Turn(h, r), r.op # "fail", UNCHANGED <<attempts, streak, locked>>
      PROVE  FailuresInv'
  <2>1. ~overlapped' => ~overlapped
    BY <1>2 DEF Turn
  <2> QED BY <1>0, <1>2, <2>1, FailuresTurn
<1>3. ASSUME NEW h \in Handler, Sessions!WrongPassword(h) PROVE FailuresInv'
  <2>1. PICK n : n = Sessions!Capped(attempts + 1)
    OBVIOUS
  <2> DEFINE r == [op |-> "fail", attempts |-> n]
  <2>2. Turn(h, r) /\ UNCHANGED <<attempts, streak, locked>> /\ (~overlapped' => ~overlapped)
    BY <1>3, <2>1 DEF Sessions!WrongPassword, Turn
  <2>3. r.attempts = n
    OBVIOUS
  <2> HIDE DEF r
  <2>4. Sessions!Capped(attempts' + 1) = n
    BY <2>1, <2>2 DEF Sessions!Capped
  <2> QED BY <1>0, <2>2, <2>3, <2>4, FailuresTurn
<1>4. ASSUME NEW h \in Handler, Sessions!Fail(h) PROVE FailuresInv'
  <2>1. PICK n : n = request[h].attempts
    OBVIOUS
  <2>2. /\ Turn(h, Idle) /\ attempts' = n /\ locked' = (locked \/ n >= MaxAttempts)
        /\ streak' = Sessions!Capped(streak + 1) /\ overlapped' = overlapped
    BY <1>4, <2>1 DEF Sessions!Fail, Turn
  <2>3. ~overlapped => n = Sessions!Capped(streak + 1)
    BY <1>4, <2>1 DEF Sessions!Fail, FailuresInv, CountedFailures
  <2>4. Idle.op # "fail"
    OBVIOUS
  <2> QED BY <2>2, <2>3, <2>4, FailuresTurn
<1>5. ASSUME NEW h \in Handler, Sessions!RightPassword(h) PROVE FailuresInv'
  <2>1. PICK o \in {"reset", "open"} : o = IF attempts > 0 \/ locked THEN "reset" ELSE "open"
    OBVIOUS
  <2>2. Turn(h, [op |-> o]) /\ UNCHANGED <<attempts, streak, locked>>
    BY <1>5, <2>1 DEF Sessions!RightPassword, Turn
  <2>3. [op |-> o].op # "fail"
    OBVIOUS
  <2> QED BY <1>2, <2>2, <2>3
<1>6. ASSUME NEW h \in Handler, Sessions!Reset(h) PROVE FailuresInv'
  <2>1. Turn(h, [op |-> "open"]) /\ attempts' = 0 /\ streak' = 0
    BY <1>6 DEF Sessions!Reset, Turn
  <2>2. ~(0 >= MaxAttempts)
    BY AttemptsAssumption
  <2> QED BY <2>1, <2>2, FailuresTurn
<1>7. ASSUME NEW h \in Handler, NEW s \in Session, Sessions!RefreshReads(h, s) PROVE FailuresInv'
  <2>1. Turn(h, [op |-> "revoke", of |-> s]) /\ UNCHANGED <<attempts, streak, locked>>
    BY <1>7 DEF Sessions!RefreshReads, Turn
  <2> QED BY <1>2, <2>1
<1>8. ASSUME NEW h \in Handler, Sessions!Revoke(h) PROVE FailuresInv'
  <2>1. PICK s : s = request[h].of
    OBVIOUS
  <2>2. Turn(h, [op |-> "rotate", of |-> s]) /\ UNCHANGED <<attempts, streak, locked>>
    BY <1>8, <2>1 DEF Sessions!Revoke, Turn
  <2> QED BY <1>2, <2>2
<1>9. ASSUME NEW h \in Handler,
             \/ \E s \in Session : Sessions!Open(h, s) \/ Sessions!Rotate(h, s)
             \/ Sessions!BreaksOff(h)
      PROVE  FailuresInv'
  <2>1. Turn(h, Idle) /\ UNCHANGED <<attempts, streak, locked>>
    BY <1>9 DEF Sessions!Open, Sessions!Rotate, Sessions!BreaksOff, Turn
  <2> QED BY <1>2, <2>1
<1>10. ASSUME NEW s \in Session, Sessions!Logout(s) PROVE FailuresInv'
  <2>1. /\ UNCHANGED <<attempts, streak, locked, request>> /\ overlapped' = (overlapped \/ ~Quiet)
    BY <1>10 DEF Sessions!Logout
  <2>2. Alone' /\ (~overlapped' => ~overlapped)
    BY <2>1, AtOnceTaken DEF FailuresInv
  <2> QED BY <2>1, <2>2 DEF FailuresInv, CountedFailures, Sessions!Capped
<1> QED
  BY <1>1, <1>3, <1>4, <1>5, <1>6, <1>7, <1>8, <1>9, <1>10 DEF Sessions!Next

LEMMA FailuresAgree == FailuresInv => Sessions!FailuresCounted
BY DEF FailuresInv, CountedFailures, Sessions!FailuresCounted

(***************************************************************************)
(* AssessmentStats.                                                         *)
(***************************************************************************)
\* As long as no two requests overlapped and none broke off, the counters are those of the
\* tests unless a request is to count, and a request that is to store them has counted.
Counting ==
  /\ DOMAIN request = Handler
  /\ ~overlapped /\ ~statsCut =>
       /\ (\A h \in Handler : request[h].op \notin {"scan", "store"}) => stats = Assessments!Summary
       /\ \A h \in Handler : request[h].op = "store" => request[h].stats = Assessments!Summary

AssessmentsInv == Alone /\ Counting

LEMMA AssessmentsInit == Assessments!Init => AssessmentsInv
<1> SUFFICES ASSUME Assessments!Init PROVE AssessmentsInv
  OBVIOUS
<1>1. /\ DOMAIN request = Handler /\ stats = Assessments!Summary
      /\ \A h \in Handler : request[h].op = "idle"
  BY DEF Assessments!Init, Assessments!RequestsInit, Assessments!Idle
<1>2. Alone
  BY DEF Assessments!Init, Assessments!RequestsInit, Assessments!Idle, Idle, Alone
<1> QED BY <1>1, <1>2 DEF AssessmentsInv, Counting

LEMMA AssessmentsTurn ==
  ASSUME AssessmentsInv, NEW h \in Handler, NEW r, Turn(h, r),
         ~overlapped' /\ ~statsCut' =>
           /\ r.op \in {"scan", "store"} \/ stats' = Assessments!Summary'
           /\ r.op = "store" => r.stats = Assessments!Summary'
  PROVE  AssessmentsInv'
<1>1. /\ DOMAIN request' = Handler /\ Alone' /\ request'[h] = r
      /\ ~overlapped' => \A g \in Handler : g # h => request'[g].op = "idle"
  BY TurnDone DEF AssessmentsInv, Counting, Idle
<1>2. Counting'
  BY <1>1 DEF Counting
<1> QED BY <1>1, <1>2 DEF AssessmentsInv

\* A request that goes on without writing a test or the counters.
LEMMA AssessmentsRead ==
  ASSUME AssessmentsInv, NEW h \in Handler, NEW r, Turn(h, r),
         request[h].op \notin {"scan", "store"},
         UNCHANGED <<test, result, stats>>, statsCut => statsCut', r.op \notin {"scan", "store"}
  PROVE  AssessmentsInv'
<1>1. ~overlapped' => ~overlapped /\ \A g \in Handler : g # h => request[g].op = "idle"
  BY TurnDone DEF AssessmentsInv, Counting, Idle
<1>2. ~overlapped' => \A g \in Handler : request[g].op \notin {"scan", "store"}
  BY <1>1
<1>3. ~overlapped' /\ ~statsCut' => stats = Assessments!Summary
  BY <1>1, <1>2 DEF AssessmentsInv, Counting
<1>4. Assessments!Summary' = Assessments!Summary
  BY DEF Assessments!Summary, Assessments!Count
<1> QED BY <1>3, <1>4, AssessmentsTurn

LEMMA AssessmentsStep ==
  ASSUME AssessmentsInv, [Assessments!Next]_(Assessments!vars)
  PROVE  AssessmentsInv'
<1> USE DEF Assessments!Idle, Idle, Assessments!Serves, Assessments!Continues, Assessments!Answers,
      Assessments!Reads, Assessments!Quiet, Quiet, Assessments!rows
<1>1. CASE UNCHANGED Assessments!vars
  <2>1. Assessments!Summary' = Assessments!Summary
    BY <1>1 DEF Assessments!Summary, Assessments!Count, Assessments!vars
  <2> QED BY <1>1, <2>1 DEF AssessmentsInv, Counting, Alone, Assessments!vars, Assessments!requests
<1>2. ASSUME NEW h \in Handler, NEW t \in Test, NEW s \in {"PASS", "FAIL"}, Assessments!ExecuteReads(h, t, s)
      PROVE  AssessmentsInv'
  <2>1. /\ Turn(h, [op |-> "execute", of |-> t, result |-> s]) /\ request[h].op = "idle"
        /\ UNCHANGED <<test, result, stats, statsCut>>
    BY <1>2 DEF Assessments!ExecuteReads, Turn
  <2>2. [op |-> "execute", of |-> t, result |-> s].op \notin {"scan", "store"}
    OBVIOUS
  <2> QED BY AssessmentsRead, <2>1, <2>2
<1>3. ASSUME NEW h \in Handler, NEW t \in Test, Assessments!SkipReads(h, t) PROVE AssessmentsInv'
  <2>1. /\ Turn(h, [op |-> "skip", of |-> t]) /\ request[h].op = "idle"
        /\ UNCHANGED <<test, result, stats, statsCut>>
    BY <1>3 DEF Assessments!SkipReads, Turn
  <2>2. [op |-> "skip", of |-> t].op \notin {"scan", "store"}
    OBVIOUS
  <2> QED BY AssessmentsRead, <2>1, <2>2
<1>4. ASSUME NEW h \in Handler,
             \/ Assessments!Execute(h) \/ Assessments!Skip(h)
             \/ \E S \in SUBSET Test : Assessments!RemoveScopeItem(h, S)
      PROVE  AssessmentsInv'
  <2>1. Turn(h, [op |-> "scan"])
    BY <1>4 DEF Assessments!Execute, Assessments!Skip, Assessments!RemoveScopeItem, Turn
  <2> QED BY <2>1, AssessmentsTurn
<1>5. ASSUME NEW h \in Handler, Assessments!Scan(h) PROVE AssessmentsInv'
  <2>1. PICK n : n = Assessments!Summary
    OBVIOUS
  <2> DEFINE r == [op |-> "store", stats |-> n]
  <2>2. Turn(h, r) /\ UNCHANGED <<test, result>>
    BY <1>5, <2>1 DEF Assessments!Scan, Turn
  <2>3. r.op = "store" /\ r.stats = n
    OBVIOUS
  <2> HIDE DEF r
  <2>4. Assessments!Summary' = n
    BY <2>1, <2>2 DEF Assessments!Summary, Assessments!Count
  <2> QED BY <2>2, <2>3, <2>4, AssessmentsTurn
<1>6. ASSUME NEW h \in Handler, Assessments!Store(h) PROVE AssessmentsInv'
  <2>1. /\ Turn(h, Idle) /\ request[h].op = "store" /\ stats' = request[h].stats
        /\ UNCHANGED <<test, result, statsCut, overlapped>>
    BY <1>6 DEF Assessments!Store, Turn
  <2>2. Assessments!Summary' = Assessments!Summary
    BY <2>1 DEF Assessments!Summary, Assessments!Count
  <2>3. ~overlapped /\ ~statsCut => stats' = Assessments!Summary
    BY <2>1 DEF AssessmentsInv, Counting
  <2>4. Idle.op # "store"
    OBVIOUS
  <2> QED BY <2>1, <2>2, <2>3, <2>4, AssessmentsTurn
<1>7. ASSUME NEW h \in Handler, Assessments!BreaksOff(h) PROVE AssessmentsInv'
  <2>1. /\ Turn(h, Idle) /\ UNCHANGED <<test, result, stats>>
        /\ statsCut' = (statsCut \/ request[h].op \in {"scan", "store"})
    BY <1>7 DEF Assessments!BreaksOff, Turn
  <2>2. Idle.op = "idle"
    OBVIOUS
  <2>3. CASE request[h].op \in {"scan", "store"}
    BY <2>1, <2>2, <2>3, AssessmentsTurn
  <2>4. CASE request[h].op \notin {"scan", "store"}
    BY AssessmentsRead, <2>1, <2>2, <2>4
  <2> QED BY <2>3, <2>4
<1> QED BY <1>1, <1>2, <1>3, <1>4, <1>5, <1>6, <1>7 DEF Assessments!Next

LEMMA AssessmentsAgree == AssessmentsInv => Assessments!StatsAgree
<1> SUFFICES ASSUME AssessmentsInv, Assessments!Quiet, ~overlapped, ~statsCut
             PROVE  stats = Assessments!Summary
  BY DEF Assessments!StatsAgree
<1>1. \A h \in Handler : request[h] = [op |-> "idle"]
  BY DEF Assessments!Quiet, Assessments!Idle
<1>2. \A h \in Handler : request[h].op \notin {"scan", "store"}
  <2> SUFFICES ASSUME NEW h \in Handler PROVE request[h].op \notin {"scan", "store"}
    OBVIOUS
  <2>1. request[h].op = "idle"
    BY <1>1
  <2> QED BY <2>1
<1> QED BY <1>2 DEF AssessmentsInv, Counting


(***************************************************************************)
(* Incidents.                                                               *)
(***************************************************************************)
Changing == {"update", "updateStatus", "entry"}
IncidentStep ==
  {Idle} \cup [op : {"update", "updateStatus"}, change : IncidentRows!Change]
    \cup [op : {"entry"}, change : IncidentRows!Change, isAutomated : BOOLEAN]

LEMMA IncidentSteps ==
  /\ Idle \in IncidentStep
  /\ \A o \in {"update", "updateStatus"}, c \in IncidentRows!Change :
       [op |-> o, change |-> c] \in IncidentStep
  /\ \A c \in IncidentRows!Change, b \in BOOLEAN :
       [op |-> "entry", change |-> c, isAutomated |-> b] \in IncidentStep
BY DEF IncidentStep

LEMMA IncidentCarries ==
  ASSUME NEW r \in IncidentStep, r.op \in Changing
  PROVE  /\ r.change \in IncidentRows!Change
         /\ r.change.from \in IncidentRows!Status /\ r.change.to \in IncidentRows!Status
BY DEF IncidentStep, Idle, Changing, IncidentRows!Change

\* As long as no two requests overlapped, none broke off and nobody wrote in it, the timeline leads to the
\* status, or to the one that the change that a request is to enter came from.
Leading ==
  ~overlapped /\ ~incidentCut /\ ~rewritten =>
    /\ (\A h \in Handler : request[h].op # "entry") =>
         timeline = [to |-> incidentStatus, chained |-> TRUE]
    /\ \A h \in Handler :
         /\ request[h].op \in {"update", "updateStatus"} => request[h].change.from = incidentStatus
         /\ request[h].op = "entry" =>
              /\ request[h].change.to = incidentStatus
              /\ timeline = [to |-> request[h].change.from, chained |-> TRUE]

\* What was stamped when a request read the status stays so.
Stamping ==
  ~forced =>
    /\ IncidentRows!Expected[incidentStatus] \subseteq stamps
    /\ \A h \in Handler : request[h].op = "updateStatus" =>
         /\ IncidentRows!Expected[request[h].change.from] \subseteq stamps
         /\ request[h].change.to \in IncidentRows!Transitions[request[h].change.from]

IncidentsInv ==
  /\ request \in [Handler -> IncidentStep] /\ incidentStatus \in IncidentRows!Status
  /\ Alone /\ Leading /\ Stamping

\* A transition expects nothing but what was expected before it and what it stamps.
LEMMA Expecting ==
  ASSUME NEW s \in IncidentRows!Status, NEW u \in IncidentRows!Transitions[s]
  PROVE  /\ u \in IncidentRows!Status
         /\ IncidentRows!Expected[u] \subseteq IncidentRows!Expected[s] \cup IncidentRows!Stamped[u]
<1> USE DEF IncidentRows!Status, IncidentRows!Transitions, IncidentRows!Expected,
  IncidentRows!Stamped
<1>1. CASE s = "DETECTED"
  BY <1>1
<1>2. CASE s = "TRIAGED"
  BY <1>2
<1>3. CASE s = "INVESTIGATING"
  BY <1>3
<1>4. CASE s = "CONTAINING"
  BY <1>4
<1>5. CASE s = "ERADICATING"
  BY <1>5
<1>6. CASE s = "RECOVERING"
  BY <1>6
<1>7. CASE s = "POST_INCIDENT"
  BY <1>7
<1>8. CASE s = "CLOSED"
  BY <1>8
<1> QED BY <1>1, <1>2, <1>3, <1>4, <1>5, <1>6, <1>7, <1>8

LEMMA IncidentsInit == IncidentRows!Init => IncidentsInv
<1> SUFFICES ASSUME IncidentRows!Init PROVE IncidentsInv
  OBVIOUS
<1>1. request = [h \in Handler |-> Idle]
  BY DEF IncidentRows!Init, IncidentRows!RequestsInit, IncidentRows!Idle, Idle
<1>2. request \in [Handler -> IncidentStep] /\ Alone
  BY <1>1, IncidentSteps DEF Alone
<1>3. \A h \in Handler : request[h].op = "idle"
  BY <1>1 DEF Idle
<1>4. IncidentRows!Expected[incidentStatus] \subseteq stamps /\ incidentStatus \in IncidentRows!Status
  BY DEF IncidentRows!Init, IncidentRows!Expected, IncidentRows!Status
<1>5. Leading /\ Stamping
  BY <1>3, <1>4 DEF Leading, Stamping, IncidentRows!Init
<1> QED BY <1>2, <1>4, <1>5 DEF IncidentsInv

LEMMA IncidentsTurn ==
  ASSUME IncidentsInv, NEW h \in Handler, NEW r \in IncidentStep, Turn(h, r),
         incidentStatus' \in IncidentRows!Status, stamps \subseteq stamps', forced => forced',
         ~overlapped' /\ ~incidentCut' /\ ~rewritten' =>
           /\ r.op # "entry" => timeline' = [to |-> incidentStatus', chained |-> TRUE]
           /\ r.op \in {"update", "updateStatus"} => r.change.from = incidentStatus'
           /\ r.op = "entry" => /\ r.change.to = incidentStatus'
                                /\ timeline' = [to |-> r.change.from, chained |-> TRUE],
         ~forced' =>
           /\ IncidentRows!Expected[incidentStatus'] \subseteq stamps'
           /\ r.op = "updateStatus" => /\ IncidentRows!Expected[r.change.from] \subseteq stamps'
                                       /\ r.change.to \in IncidentRows!Transitions[r.change.from]
  PROVE  IncidentsInv'
<1>1. /\ request' \in [Handler -> IncidentStep] /\ Alone' /\ request'[h] = r
      /\ \A g \in Handler : g # h => request'[g] = request[g]
      /\ ~overlapped' => \A g \in Handler : g # h => request'[g].op = "idle"
  <2>1. request \in [Handler -> IncidentStep] /\ Alone
    BY DEF IncidentsInv
  <2>2. /\ request' \in [Handler -> IncidentStep] /\ Alone' /\ request'[h] = r
        /\ \A g \in Handler : g # h => request'[g] = request[g]
        /\ ~overlapped' => \A g \in Handler : g # h => request[g] = Idle
    BY <2>1, TurnTaken
  <2> QED BY <2>2 DEF Idle
<1>2. Leading'
  BY <1>1 DEF Leading
<1>3. Stamping'
  BY <1>1 DEF IncidentsInv, Stamping, IncidentRows!Expected, IncidentRows!Transitions
<1>4. (request \in [Handler -> IncidentStep])' /\ (incidentStatus \in IncidentRows!Status)'
  BY <1>1 DEF IncidentStep, Changing, IncidentRows!Change, IncidentRows!Status, Idle
<1> QED BY <1>1, <1>2, <1>3, <1>4 DEF IncidentsInv

LEMMA IncidentsStep ==
  ASSUME IncidentsInv, [IncidentRows!Next]_(IncidentRows!vars)
  PROVE  IncidentsInv'
<1> USE DEF IncidentRows!Idle, IncidentRows!Serves, IncidentRows!Continues, IncidentRows!Answers,
      IncidentRows!Reads, IncidentRows!Quiet, Quiet, IncidentRows!rows, IncidentRows!history
<1>0. /\ request \in [Handler -> IncidentStep] /\ incidentStatus \in IncidentRows!Status
      /\ ~forced => IncidentRows!Expected[incidentStatus] \subseteq stamps
  BY DEF IncidentsInv, Stamping
<1>a. ASSUME NEW h \in Handler, NEW r, Turn(h, r), request[h].op # "entry"
      PROVE  ~overlapped' /\ ~incidentCut /\ ~rewritten => timeline = [to |-> incidentStatus, chained |-> TRUE]
  <2>1. ~overlapped' => ~overlapped /\ \A g \in Handler : g # h => request[g].op = "idle"
    BY <1>a, TurnDone DEF IncidentsInv, Idle
  <2>2. ~overlapped' => \A g \in Handler : request[g].op # "entry"
    BY <1>a, <2>1
  <2> QED BY <2>1, <2>2 DEF IncidentsInv, Leading
<1>b. Idle \in IncidentStep /\ Idle.op = "idle"
  BY IncidentSteps DEF Idle
<1>1. CASE UNCHANGED IncidentRows!vars
  BY <1>1 DEF IncidentsInv, Leading, Stamping, Alone, IncidentRows!vars, IncidentRows!requests,
    IncidentStep, Changing, IncidentRows!Change, IncidentRows!Status, Idle,
    IncidentRows!Expected, IncidentRows!Transitions
<1>2. ASSUME NEW h \in Handler, NEW s \in IncidentRows!Status, NEW o \in {"update", "updateStatus"},
             \/ o = "update" /\ IncidentRows!UpdateReads(h, s)
             \/ o = "updateStatus" /\ IncidentRows!UpdateStatusReads(h, s)
      PROVE  IncidentsInv'
  <2>1. PICK f \in IncidentRows!Status : f = incidentStatus
    BY <1>0
  <2> DEFINE c == [from |-> f, to |-> s]
             r == [op |-> o, change |-> c]
  <2>2. c \in IncidentRows!Change /\ c.from = f /\ c.to = s
    BY DEF IncidentRows!Change
  <2>3. /\ Turn(h, r) /\ request[h] = Idle /\ UNCHANGED <<incidentStatus, stamps, timeline, forced, rewritten, incidentCut>>
        /\ o = "updateStatus" => s \in IncidentRows!Transitions[f]
    BY <1>2, <2>1 DEF IncidentRows!UpdateReads, IncidentRows!UpdateStatusReads, Turn, Idle
  <2> HIDE DEF c
  <2>4. r \in IncidentStep /\ r.op = o /\ r.change = c
    BY <2>2, IncidentSteps DEF Changing
  <2> HIDE DEF r
  <2>5. request[h].op # "entry"
    BY <2>3, <1>b
  <2>6. ~overlapped' /\ ~incidentCut /\ ~rewritten => timeline = [to |-> incidentStatus, chained |-> TRUE]
    BY <1>a, <2>3, <2>5
  <2> QED BY <1>0, <2>1, <2>2, <2>3, <2>4, <2>6, IncidentsTurn
<1>3. ASSUME NEW h \in Handler, NEW S \in {{}, {"containedAt"}}, IncidentRows!Update(h, S)
      PROVE  IncidentsInv'
  <2>1. request[h] \in IncidentStep /\ request[h].op = "update"
    BY <1>0, <1>3 DEF IncidentRows!Update
  <2>2. PICK c \in IncidentRows!Change : c = request[h].change
    BY <2>1, IncidentCarries DEF Changing
  <2>3. c.from \in IncidentRows!Status /\ c.to \in IncidentRows!Status
    BY DEF IncidentRows!Change
  <2>4. /\ incidentStatus' = c.to /\ stamps' = stamps \cup S /\ forced' /\ UNCHANGED <<timeline, rewritten, incidentCut, overlapped>>
        /\ Turn(h, IF c.from = c.to THEN Idle
                   ELSE [op |-> "entry", change |-> c, isAutomated |-> TRUE])
    BY <1>3, <2>1, <2>2, <1>b DEF IncidentRows!Update, Turn, Idle
  <2>5. ~overlapped' /\ ~incidentCut /\ ~rewritten =>
          c.from = incidentStatus /\ timeline = [to |-> incidentStatus, chained |-> TRUE]
    BY <1>a, <2>1, <2>2, <2>4 DEF IncidentsInv, Leading
  <2>6. CASE c.from = c.to
    BY <1>b, <2>3, <2>4, <2>5, <2>6, IncidentsTurn
  <2>7. CASE c.from # c.to
    <3> DEFINE r == [op |-> "entry", change |-> c, isAutomated |-> TRUE]
    <3>1. r \in IncidentStep /\ r.op = "entry" /\ r.change = c
      BY IncidentSteps DEF Changing
    <3>2. Turn(h, r)
      BY <2>4, <2>7
    <3> HIDE DEF r
    <3> QED BY <2>3, <2>4, <2>5, <3>1, <3>2, IncidentsTurn
  <2> QED BY <2>6, <2>7
<1>4. ASSUME NEW h \in Handler, IncidentRows!UpdateStatus(h) PROVE IncidentsInv'
  <2>1. request[h] \in IncidentStep /\ request[h].op = "updateStatus"
    BY <1>0, <1>4 DEF IncidentRows!UpdateStatus
  <2>2. PICK c \in IncidentRows!Change : c = request[h].change
    BY <2>1, IncidentCarries DEF Changing
  <2>3. c.from \in IncidentRows!Status /\ c.to \in IncidentRows!Status
    BY DEF IncidentRows!Change
  <2> DEFINE r == [op |-> "entry", change |-> c, isAutomated |-> FALSE]
  <2>4. /\ incidentStatus' = c.to /\ stamps' = stamps \cup IncidentRows!Stamped[c.to]
        /\ UNCHANGED <<timeline, rewritten, incidentCut, overlapped, forced>> /\ Turn(h, r)
    BY <1>4, <2>1, <2>2, <1>b DEF IncidentRows!UpdateStatus, Turn, Idle
  <2>5. ~overlapped' /\ ~incidentCut /\ ~rewritten =>
          c.from = incidentStatus /\ timeline = [to |-> incidentStatus, chained |-> TRUE]
    BY <1>a, <2>1, <2>2, <2>4 DEF IncidentsInv, Leading
  <2>6. ~forced => IncidentRows!Expected[c.to] \subseteq stamps'
    BY <2>1, <2>2, <2>3, <2>4, Expecting DEF IncidentsInv, Stamping
  <2>7. r \in IncidentStep /\ r.op = "entry" /\ r.change = c
    BY IncidentSteps DEF Changing
  <2> HIDE DEF r
  <2> QED BY <2>3, <2>4, <2>5, <2>6, <2>7, IncidentsTurn
<1>5. ASSUME NEW h \in Handler, IncidentRows!Enter(h) PROVE IncidentsInv'
  <2>1. request[h] \in IncidentStep /\ request[h].op = "entry"
    BY <1>0, <1>5 DEF IncidentRows!Enter
  <2>2. PICK c \in IncidentRows!Change : c = request[h].change
    BY <2>1, IncidentCarries DEF Changing
  <2>3. /\ Turn(h, Idle) /\ timeline' = [to |-> c.to, chained |-> timeline.chained /\ timeline.to = c.from]
        /\ UNCHANGED <<incidentStatus, stamps, forced, rewritten, incidentCut, overlapped>>
    BY <1>5, <2>1, <2>2, <1>b DEF IncidentRows!Enter, IncidentRows!Entered, Turn, Idle
  <2>4. ~overlapped /\ ~incidentCut /\ ~rewritten =>
          c.to = incidentStatus /\ timeline = [to |-> c.from, chained |-> TRUE]
    BY <2>1, <2>2 DEF IncidentsInv, Leading
  <2>5. ~overlapped /\ ~incidentCut /\ ~rewritten => timeline' = [to |-> incidentStatus, chained |-> TRUE]
    <3> SUFFICES ASSUME ~overlapped, ~incidentCut, ~rewritten PROVE timeline' = [to |-> incidentStatus, chained |-> TRUE]
      OBVIOUS
    <3>1. timeline.to = c.from /\ timeline.chained = TRUE
      BY <2>4
    <3>2. (timeline.chained /\ timeline.to = c.from) = TRUE
      BY <3>1
    <3> QED BY <2>3, <2>4, <3>2
  <2> QED BY <1>0, <1>b, <2>3, <2>5, IncidentsTurn
<1>6. ASSUME NEW h \in Handler, IncidentRows!BreaksOff(h) PROVE IncidentsInv'
  <2>1. /\ Turn(h, Idle) /\ UNCHANGED <<incidentStatus, stamps, timeline, forced, rewritten>>
        /\ incidentCut' = (incidentCut \/ request[h].op = "entry")
    BY <1>6 DEF IncidentRows!BreaksOff, Turn, Idle
  <2>2. ~overlapped' /\ ~incidentCut' /\ ~rewritten => timeline = [to |-> incidentStatus, chained |-> TRUE]
    BY <1>a, <2>1
  <2> QED BY <1>0, <1>b, <2>1, <2>2, IncidentsTurn
<1>7. ASSUME NEW end \in IncidentRows!End, IncidentRows!ByHand(end) PROVE IncidentsInv'
  <2>1. /\ UNCHANGED <<request, incidentStatus, stamps, forced>> /\ rewritten'
        /\ overlapped' = (overlapped \/ ~Quiet)
    BY <1>7 DEF IncidentRows!ByHand, IncidentRows!AtOnce, Idle
  <2>2. Alone'
    BY <2>1, AtOnceTaken DEF IncidentsInv
  <2>3. Leading'
    BY <2>1 DEF Leading
  <2>4. Stamping'
    BY <2>1 DEF IncidentsInv, Stamping, IncidentRows!Expected, IncidentRows!Transitions
  <2>5. (request \in [Handler -> IncidentStep])' /\ (incidentStatus \in IncidentRows!Status)'
    BY <1>0, <2>1 DEF IncidentStep, IncidentRows!Change, IncidentRows!Status, Idle
  <2> QED BY <2>2, <2>3, <2>4, <2>5 DEF IncidentsInv
<1> QED BY <1>1, <1>2, <1>3, <1>4, <1>5, <1>6, <1>7 DEF IncidentRows!Next, IncidentRows!AddEntry,
  IncidentRows!EditEntry, IncidentRows!DeleteEntry

LEMMA IncidentsAgree == IncidentsInv => IncidentRows!TimelineLeadsHere /\ IncidentRows!PhasesAreStamped
<1> SUFFICES ASSUME IncidentsInv PROVE IncidentRows!TimelineLeadsHere /\ IncidentRows!PhasesAreStamped
  OBVIOUS
<1>1. IncidentRows!PhasesAreStamped
  BY DEF IncidentsInv, Stamping, IncidentRows!PhasesAreStamped
<1>2. ASSUME IncidentRows!Quiet PROVE \A h \in Handler : request[h].op # "entry"
  <2> SUFFICES ASSUME NEW h \in Handler PROVE request[h].op # "entry"
    OBVIOUS
  <2>1. request[h] = [op |-> "idle"]
    BY <1>2 DEF IncidentRows!Quiet, IncidentRows!Idle
  <2> QED BY <2>1
<1> QED BY <1>1, <1>2 DEF IncidentsInv, Leading, IncidentRows!TimelineLeadsHere


(***************************************************************************)
(* PolicyVersions: the newest version.                                      *)
(***************************************************************************)
\* How the newest version, the document, and the request that is served, if any, go together:
\* only a rollback that has yet to create its version leaves another text, and only a
\* creation that has yet to renumber the document another number.
NewestFits(r) ==
  /\ r.op = "insert" => r.content = content
  /\ versions # <<>> =>
       /\ \/ versionEdited \/ versions[Len(versions)].content = content
          \/ r.op \in {"reread", "insert"}
       /\ \/ versions[Len(versions)].initial \/ versions[Len(versions)].number = number
          \/ r.op = "renumber"
  /\ r.op = "renumber" => versions # <<>> /\ versions[Len(versions)].number = r.number

Current ==
  ~overlapped /\ ~versionCut =>
    /\ Quiet => NewestFits(Idle)
    /\ \A h \in Handler : request[h] # Idle => NewestFits(request[h])

CurrentInv == VersionsInv /\ Current

LEMMA CurrentInit == Versions!Init => CurrentInv
<1> SUFFICES ASSUME Versions!Init PROVE CurrentInv
  OBVIOUS
<1>1. \A h \in Handler : request[h] = Idle
  BY DEF Versions!Init, Versions!RequestsInit, Versions!Idle, Idle
<1>2. versions # <<>> => \E v : versions = <<v>> /\ v.content = content /\ v.initial
  BY DEF Versions!Init, Versions!Initial
<1>3. versions # <<>> => versions[Len(versions)].content = content /\ versions[Len(versions)].initial
  BY <1>2
<1>4. NewestFits(Idle)
  BY <1>3 DEF NewestFits, Idle
<1> QED BY <1>1, <1>4, VersionsInit DEF CurrentInv, Current

\* As long as nothing overlapped, what a request finds fits to it.
LEMMA CurrentBefore ==
  ASSUME CurrentInv, NEW h \in Handler, NEW r, Turn(h, r)
  PROVE  ~overlapped' /\ ~versionCut => NewestFits(request[h])
<1>1. Alone /\ DOMAIN request = Handler
  BY DEF CurrentInv, VersionsInv, Versions!TypeOK
<1>2. ~overlapped' => ~overlapped /\ \A g \in Handler : g # h => request[g] = Idle
  BY <1>1, TurnDone
<1>3. request[h] = Idle /\ ~overlapped' => Quiet
  BY <1>2 DEF Quiet
<1> QED BY <1>2, <1>3 DEF CurrentInv, Current

LEMMA CurrentTurn ==
  ASSUME CurrentInv, VersionsInv', NEW h \in Handler, NEW r, Turn(h, r),
         ~overlapped' /\ ~versionCut' => NewestFits(r)'
  PROVE  CurrentInv'
<1>1. Alone /\ request \in [Handler -> VersionStep]
  BY DEF CurrentInv, VersionsInv, Versions!TypeOK, VersionStep, Idle, Versions!Idle
<1>2. ~overlapped' => \A g \in Handler : g # h => request[g] = Idle
  BY <1>1, TurnDone
<1>3. request'[h] = r /\ \A g \in Handler : g # h => request'[g] = request[g]
  BY <1>1 DEF Turn
<1>4. Quiet' => r = Idle
  BY <1>3 DEF Quiet, Idle
<1>5. Current'
  <2> SUFFICES ASSUME ~overlapped', ~versionCut'
               PROVE  /\ Quiet' => NewestFits(Idle)'
                      /\ \A g \in Handler : request'[g] # Idle => NewestFits(request[g])'
    BY DEF Current, Idle
  <2>1. Quiet' => NewestFits(Idle)'
    BY <1>4
  <2>2. ASSUME NEW g \in Handler, request'[g] # Idle PROVE NewestFits(request[g])'
    <3>1. g = h
      BY <1>2, <1>3, <2>2
    <3> QED BY <1>3, <3>1 DEF NewestFits
  <2> QED BY <2>1, <2>2
<1> QED BY <1>5 DEF CurrentInv

LEMMA CurrentStep ==
  ASSUME CurrentInv, [Versions!Next]_(Versions!vars)
  PROVE  CurrentInv'
<1> USE DEF Versions!Idle, Versions!Serves, Versions!Continues, Versions!Answers,
      Versions!Reads, Versions!AtOnce, Versions!rows, Versions!history, Versions!Quiet
<1>0. VersionsInv' /\ Versions!TypeOK /\ request \in [Handler -> VersionStep]
  BY VersionsStep DEF CurrentInv, VersionsInv, Versions!TypeOK, VersionStep, Idle
<1>1. CASE UNCHANGED Versions!vars
  BY <1>0, <1>1 DEF CurrentInv, Current, NewestFits, Quiet, Idle, Versions!vars, Versions!requests
<1>2. ASSUME NEW c \in Content, Versions!Edit(c) PROVE CurrentInv'
  <2>1. /\ UNCHANGED <<request, number, versions, versionCut>> /\ versionEdited'
        /\ overlapped' = (overlapped \/ ~Quiet)
    BY <1>2 DEF Versions!Edit, Quiet, Idle
  <2>2. ~overlapped' => Quiet /\ ~overlapped
    BY <2>1
  <2>3. NewestFits(Idle) => NewestFits(Idle)'
    BY <2>1 DEF NewestFits, Idle
  <2>4. Quiet => \A h \in Handler : request'[h] = Idle
    BY <2>1 DEF Quiet
  <2>5. ~overlapped' /\ ~versionCut' =>
          NewestFits(Idle)' /\ \A h \in Handler : request'[h] = Idle
    BY <2>1, <2>2, <2>3, <2>4 DEF CurrentInv, Current
  <2>6. Current'
    BY <2>5 DEF Current, Idle
  <2> QED BY <1>0, <2>6 DEF CurrentInv
<1>3. ASSUME NEW h \in Handler,
             \/ \E isMajor \in BOOLEAN : Versions!CreateReads(h, isMajor)
             \/ Versions!Reread(h)
      PROVE  CurrentInv'
  <2>1. PICK m \in BOOLEAN : request' = [request EXCEPT ![h] = Versions!Creation(m)]
    BY <1>3 DEF Versions!CreateReads, Versions!Reread
  <2>2. PICK n, c : n = Versions!Following(m) /\ c = content
    OBVIOUS
  <2> DEFINE r == [op |-> "insert", number |-> n, content |-> c]
  <2>a. Idle.op = "idle"
    BY DEF Idle
  <2>3. /\ Turn(h, r) /\ UNCHANGED <<content, number, versions, versionEdited, versionCut>>
        /\ request[h].op # "renumber"
    <3>1. r = Versions!Creation(m)
      BY <2>2 DEF Versions!Creation
    <3> HIDE DEF r
    <3>2. CASE \E isMajor \in BOOLEAN : Versions!CreateReads(h, isMajor)
      BY <2>a, <2>1, <3>1, <3>2 DEF Versions!CreateReads, Turn, Quiet, Idle
    <3>3. CASE Versions!Reread(h)
      BY <2>a, <2>1, <3>1, <3>3 DEF Versions!Reread, Turn
    <3> QED BY <1>3, <3>2, <3>3
  <2>4. r.op = "insert" /\ r.content = c
    OBVIOUS
  <2> HIDE DEF r
  <2>6. ~overlapped' /\ ~versionCut => NewestFits(request[h])
    BY <2>3, CurrentBefore
  <2>7. NewestFits(request[h]) => NewestFits(r)'
    BY <2>2, <2>3, <2>4 DEF NewestFits
  <2> QED BY <1>0, <2>3, <2>6, <2>7, CurrentTurn
<1>4. ASSUME NEW h \in Handler, NEW i \in DOMAIN versions, Versions!RollbackReads(h, i)
      PROVE  CurrentInv'
  <2>1. PICK c : c = versions[i].content
    OBVIOUS
  <2> DEFINE r == [op |-> "restore", content |-> c]
  <2>2. /\ Turn(h, r) /\ request[h].op = "idle"
        /\ UNCHANGED <<content, number, versions, versionEdited, versionCut>>
    BY <1>4, <2>1 DEF Versions!RollbackReads, Turn, Quiet, Idle
  <2>3. r.op = "restore"
    OBVIOUS
  <2> HIDE DEF r
  <2>4. ~overlapped' /\ ~versionCut => NewestFits(request[h])
    BY <2>2, CurrentBefore
  <2>5. NewestFits(request[h]) => NewestFits(r)'
    BY <2>2, <2>3 DEF NewestFits
  <2> QED BY <1>0, <2>2, <2>4, <2>5, CurrentTurn
<1>5. ASSUME NEW h \in Handler, Versions!Insert(h) PROVE CurrentInv'
  <2>1. PICK n, c : n = request[h].number /\ c = request[h].content
    OBVIOUS
  <2> DEFINE r == [op |-> "renumber", number |-> n]
             v == [number |-> n, content |-> c, initial |-> FALSE]
  <2>2. /\ Turn(h, r) /\ request[h].op = "insert" /\ versions' = Append(versions, v)
        /\ UNCHANGED <<content, number, versionCut>>
    BY <1>5, <2>1 DEF Versions!Insert, Turn, Idle
  <2>3. v.number = n /\ v.content = c /\ r.op = "renumber" /\ r.number = n
    OBVIOUS
  <2> HIDE DEF r, v
  <2>4. versions' # <<>> /\ versions'[Len(versions')] = v
    BY <1>0, <2>2 DEF Versions!TypeOK
  <2>5. ~overlapped' /\ ~versionCut => c = content
    BY <2>1, <2>2, CurrentBefore DEF NewestFits
  <2>6. ~overlapped' /\ ~versionCut => NewestFits(r)'
    BY <2>2, <2>3, <2>4, <2>5 DEF NewestFits
  <2> QED BY <1>0, <2>2, <2>6, CurrentTurn
<1>6. ASSUME NEW h \in Handler, Versions!Renumber(h) PROVE CurrentInv'
  <2>1. /\ Turn(h, Idle) /\ request[h].op = "renumber" /\ number' = request[h].number
        /\ UNCHANGED <<content, versions, versionEdited, versionCut>>
    BY <1>6 DEF Versions!Renumber, Turn, Idle
  <2>2. ~overlapped' /\ ~versionCut => NewestFits(request[h])
    BY <2>1, CurrentBefore
  <2>3. NewestFits(request[h]) => NewestFits(Idle)'
    BY <2>1 DEF NewestFits, Idle
  <2> QED BY <1>0, <2>1, <2>2, <2>3, CurrentTurn DEF Idle
<1>7. ASSUME NEW h \in Handler, Versions!Restore(h) PROVE CurrentInv'
  <2> DEFINE r == [op |-> "reread"]
  <2>1. /\ Turn(h, r) /\ request[h].op = "restore"
        /\ UNCHANGED <<number, versions, versionEdited, versionCut>>
    BY <1>7 DEF Versions!Restore, Turn, Idle
  <2>2. r.op = "reread"
    OBVIOUS
  <2> HIDE DEF r
  <2>3. ~overlapped' /\ ~versionCut => NewestFits(request[h])
    BY <2>1, CurrentBefore
  <2>4. NewestFits(request[h]) => NewestFits(r)'
    BY <2>1, <2>2 DEF NewestFits
  <2> QED BY <1>0, <2>1, <2>3, <2>4, CurrentTurn
<1>8. ASSUME NEW h \in Handler, Versions!BreaksOff(h) PROVE CurrentInv'
  <2>1. Turn(h, Idle) /\ versionCut'
    BY <1>8 DEF Versions!BreaksOff, Turn, Idle
  <2> QED BY <1>0, <2>1, CurrentTurn
<1> QED BY <1>1, <1>2, <1>3, <1>4, <1>5, <1>6, <1>7, <1>8 DEF Versions!Next

LEMMA NewestAgrees == CurrentInv => Versions!NewestIsCurrent
<1> SUFFICES ASSUME CurrentInv, Versions!Quiet, ~overlapped, ~versionCut, versions # <<>>
             PROVE  /\ versions[Len(versions)].initial \/ versions[Len(versions)].number = number
                    /\ versionEdited \/ versions[Len(versions)].content = content
  BY DEF Versions!NewestIsCurrent, Versions!Undisturbed
<1>1. Quiet
  BY DEF Versions!Quiet, Versions!Idle, Quiet, Idle
<1>2. NewestFits(Idle)
  BY <1>1 DEF CurrentInv, Current
<1> QED BY <1>2 DEF NewestFits, Idle

(***************************************************************************)
(* RegulatoryScope.                                                         *)
(***************************************************************************)
ScopeStep ==
  {Idle} \cup Scopes!Step
    \cup [op : {"link"}, scope : Scopes!Scope, of : Scopes!Regulation, says : Scopes!Answer]
    \cup [op : {"write"}, scope : Scopes!Scope, at : DOMAIN Scopes!Kinds, rows : SUBSET Scopes!Regulation]

LEMMA ScopeSteps ==
  /\ Idle \in ScopeStep
  /\ \A s \in Scopes!Scope :
       /\ \A q \in Scopes!Regulation, A \in Scopes!Answer :
            [op |-> "link", scope |-> s, of |-> q, says |-> A] \in ScopeStep
       /\ \A i \in 1 .. 4 :
            /\ [op |-> "profile", scope |-> s, at |-> i] \in ScopeStep
            /\ [op |-> "read", scope |-> s, at |-> i] \in ScopeStep
            /\ \A Q \in SUBSET Scopes!Regulation :
                 [op |-> "write", scope |-> s, at |-> i, rows |-> Q] \in ScopeStep
BY DEF ScopeStep, Scopes!Step, Scopes!Kinds

LEMMA ScopeCarries ==
  ASSUME NEW r \in ScopeStep
  PROVE  /\ r.op \in {"idle", "profile", "read", "link", "write"}
         /\ r.op \in {"profile", "read", "link", "write"} => r.scope \in Scopes!Scope
         /\ r.op \in {"profile", "read", "write"} => r.at \in 1 .. 4
         /\ r.op \in {"profile", "read"} => r = [op |-> r.op, scope |-> r.scope, at |-> r.at]
         /\ r.op = "link" => r.of \in Scopes!Regulation /\ r.says \in Scopes!Answer
         /\ r.op = "write" => r.rows \in SUBSET Scopes!Regulation
         /\ r.op = "write" => r = [op |-> r.op, scope |-> r.scope, at |-> r.at, rows |-> r.rows]
BY DEF ScopeStep, Scopes!Step, Scopes!Kinds, Idle

\* The kinds of rows, in the order of the propagation.
LEMMA KindsAre ==
  /\ DOMAIN Scopes!Kinds = 1 .. 4 /\ Len(Scopes!Kinds) = 4
  /\ \A i \in 1 .. 4 : Scopes!Kinds[i] \in Scopes!Kind
  /\ \A k \in Scopes!Kind : \E i \in 1 .. 4 : k = Scopes!Kinds[i]
  /\ \A i, j \in 1 .. 4 : i # j => Scopes!Kinds[i] # Scopes!Kinds[j]
<1>1. DOMAIN Scopes!Kinds = 1 .. 4 /\ Len(Scopes!Kinds) = 4
  BY DEF Scopes!Kinds
<1>2. /\ \A i \in 1 .. 4 : Scopes!Kinds[i] \in Scopes!Kind
      /\ \A k \in Scopes!Kind : \E i \in 1 .. 4 : k = Scopes!Kinds[i]
  BY <1>1 DEF Scopes!Kind
<1>3. \A i, j \in 1 .. 4 : i # j => Scopes!Kinds[i] # Scopes!Kinds[j]
  BY DEF Scopes!Kinds
<1> QED BY <1>1, <1>2, <1>3

\* How the rows and the propagation that is under way, if any, go together: the kinds it is
\* through with agree with the profile, and of the one it is at all that it does not have
\* to write any more.
PropagationFits(r) ==
  /\ ~due => \A i \in 1 .. 4 : applicable[Scopes!Kinds[i]] = profile
  /\ r.op = "profile" => r.at = 1
  /\ r.op \in {"read", "write"} =>
       /\ due /\ r.scope = profile
       /\ \A i \in 1 .. 4 : i < r.at => applicable[Scopes!Kinds[i]] = profile
  /\ r.op = "write" =>
       \A q \in Scopes!Regulation \ r.rows : applicable[Scopes!Kinds[r.at]][q] = profile[q]

\* A request that completes a survey is about to write the answer it linked to, and
\* changes nothing else.
AnswerFits(r) ==
  /\ r.op \notin {"link", "profile"} =>
       \A q \in Scopes!Regulation : ~apart[q] => answered[q] \subseteq {profile[q]}
  /\ r.op = "profile" =>
       \A q \in Scopes!Regulation : ~apart[q] => answered[q] \subseteq {r.scope[q]}
  /\ r.op = "link" =>
       \A q \in Scopes!Regulation : q # r.of =>
         /\ r.scope[q] = profile[q]
         /\ ~apart[q] => answered[q] \subseteq {profile[q]}

Propagating(r) == PropagationFits(r) /\ (~scopeCut => AnswerFits(r))

ScopesInv ==
  /\ request \in [Handler -> ScopeStep] /\ Alone
  /\ profile \in Scopes!Scope
  /\ applicable \in [Scopes!Kind -> Scopes!Scope]
  /\ answered \in [Scopes!Regulation -> Scopes!Answer] /\ apart \in [Scopes!Regulation -> BOOLEAN]
  /\ ~overlapped => /\ Quiet => Propagating(Idle)
                    /\ \A h \in Handler : request[h] # Idle => Propagating(request[h])

LEMMA ScopesInit == Scopes!Init => ScopesInv
<1> SUFFICES ASSUME Scopes!Init PROVE ScopesInv
  OBVIOUS
<1>1. request = [h \in Handler |-> Idle]
  BY DEF Scopes!Init, Scopes!RequestsInit, Scopes!Idle, Idle
<1>2. /\ profile \in Scopes!Scope /\ answered \in [Scopes!Regulation -> Scopes!Answer]
      /\ apart \in [Scopes!Regulation -> BOOLEAN]
  BY DEF Scopes!Init, Scopes!Scope, Scopes!Answer
<1>3. applicable \in [Scopes!Kind -> Scopes!Scope]
  BY DEF Scopes!Init, Scopes!Scope
<1>4. Propagating(Idle)
  BY DEF Propagating, PropagationFits, AnswerFits, Scopes!Init, Idle
<1> QED BY <1>1, <1>2, <1>3, <1>4, ScopeSteps DEF ScopesInv, Alone

LEMMA ScopesBefore ==
  ASSUME ScopesInv, NEW h \in Handler, NEW r, Turn(h, r)
  PROVE  ~overlapped' => Propagating(request[h])
<1>1. Alone /\ DOMAIN request = Handler
  BY DEF ScopesInv
<1>2. ~overlapped' => ~overlapped /\ \A g \in Handler : g # h => request[g] = Idle
  BY <1>1, TurnDone
<1>3. request[h] = Idle /\ ~overlapped' => Quiet
  BY <1>2 DEF Quiet
<1> QED BY <1>2, <1>3 DEF ScopesInv

LEMMA ScopesTurn ==
  ASSUME ScopesInv, NEW h \in Handler, NEW r \in ScopeStep, Turn(h, r),
         profile' \in Scopes!Scope, applicable' \in [Scopes!Kind -> Scopes!Scope],
         answered' \in [Scopes!Regulation -> Scopes!Answer],
         apart' \in [Scopes!Regulation -> BOOLEAN],
         ~overlapped' => Propagating(r)'
  PROVE  ScopesInv'
<1>1. Alone /\ request \in [Handler -> ScopeStep]
  BY DEF ScopesInv
<1>2. /\ request' \in [Handler -> ScopeStep] /\ Alone' /\ request'[h] = r
      /\ \A g \in Handler : g # h => request'[g] = request[g]
      /\ ~overlapped' => \A g \in Handler : g # h => request[g] = Idle
  BY <1>1, TurnTaken
<1>3. Quiet' => r = Idle
  BY <1>2 DEF Quiet, Idle
<1>4. ASSUME ~overlapped'
      PROVE  /\ Quiet' => Propagating(Idle)'
             /\ \A g \in Handler : request'[g] # Idle => Propagating(request[g])'
  <2>1. Quiet' => Propagating(Idle)'
    BY <1>3, <1>4
  <2>2. ASSUME NEW g \in Handler, request'[g] # Idle PROVE Propagating(request[g])'
    <3>1. g = h
      BY <1>2, <1>4, <2>2
    <3> QED BY <1>2, <1>4, <3>1 DEF Propagating, PropagationFits, AnswerFits
  <2> QED BY <2>1, <2>2
<1>5. (request \in [Handler -> ScopeStep])' /\ (profile \in Scopes!Scope)'
      /\ (applicable \in [Scopes!Kind -> Scopes!Scope])'
      /\ (answered \in [Scopes!Regulation -> Scopes!Answer])' /\ (apart \in [Scopes!Regulation -> BOOLEAN])'
  BY <1>2 DEF ScopeStep, Scopes!Step, Scopes!Scope, Scopes!Kind, Scopes!Kinds,
    Scopes!Regulation, Scopes!Answer, Idle
<1> QED BY <1>2, <1>4, <1>5 DEF ScopesInv, Idle

\* What a propagation goes on with when it is through with a kind.
LEMMA ScopesAfter ==
  ASSUME NEW h \in Handler, NEW s \in Scopes!Scope, NEW i \in 1 .. 4, NEW p, p.scope = s, p.at = i
  PROVE  /\ Scopes!After(p) \in ScopeStep
         /\ i = 4 => Scopes!After(p) = Idle
         /\ i < 4 => Scopes!After(p) = [op |-> "read", scope |-> s, at |-> i + 1]
<1>1. i = 4 => Scopes!After(p) = Idle
  BY KindsAre DEF Scopes!After, Scopes!Idle, Idle
<1>2. i < 4 => Scopes!After(p) = [op |-> "read", scope |-> s, at |-> i + 1]
  BY KindsAre DEF Scopes!After
<1>3. i < 4 => i + 1 \in 1 .. 4
  OBVIOUS
<1>4. i < 4 => [op |-> "read", scope |-> s, at |-> i + 1] \in ScopeStep
  BY <1>3, ScopeSteps
<1>5. i = 4 \/ i < 4
  OBVIOUS
<1> QED BY <1>1, <1>2, <1>4, <1>5, ScopeSteps

\* A kind that agrees is one more, or the last.
LEMMA ScopesThrough ==
  ASSUME ScopesInv, NEW h \in Handler, NEW s \in Scopes!Scope, NEW i \in 1 .. 4,
         NEW p, p.scope = s, p.at = i, Turn(h, Scopes!After(p)),
         UNCHANGED <<profile, answered, apart, scopeCut>>,
         applicable' \in [Scopes!Kind -> Scopes!Scope],
         due' = (due /\ i < 4),
         request[h].op \in {"read", "write"},
         ~overlapped' =>
           /\ due /\ s = profile
           /\ \A j \in 1 .. 4 : j <= i => applicable'[Scopes!Kinds[j]] = profile
  PROVE  ScopesInv'
<1>1. PICK r \in ScopeStep : r = Scopes!After(p)
  BY ScopesAfter
<1>2. Turn(h, r)
  BY <1>1
<1>3. /\ i = 4 => r.op = "idle"
      /\ i < 4 => r.op = "read" /\ r.scope = s /\ r.at = i + 1
  BY <1>1, ScopesAfter DEF Idle
<1>4. ~overlapped' => PropagationFits(r)'
  <2> SUFFICES ASSUME ~overlapped' PROVE PropagationFits(r)'
    OBVIOUS
  <2>1. CASE i = 4
    <3>1. \A j \in 1 .. 4 : applicable'[Scopes!Kinds[j]] = profile
      BY <2>1
    <3> QED BY <1>3, <2>1, <3>1 DEF PropagationFits
  <2>2. CASE i < 4
    <3>1. due' /\ s = profile'
      BY <2>2
    <3>2. \A j \in 1 .. 4 : j < i + 1 => applicable'[Scopes!Kinds[j]] = profile'
      OBVIOUS
    <3> QED BY <1>3, <2>2, <3>1, <3>2 DEF PropagationFits
  <2> QED BY <2>1, <2>2
<1>5. ~overlapped' /\ ~scopeCut => AnswerFits(request[h])
  BY <1>2, ScopesBefore DEF Propagating
<1>6. AnswerFits(request[h]) => AnswerFits(r)'
  BY <1>3 DEF AnswerFits
<1>7. ~overlapped' => Propagating(r)'
  BY <1>4, <1>5, <1>6 DEF Propagating
<1>8. /\ profile' \in Scopes!Scope /\ answered' \in [Scopes!Regulation -> Scopes!Answer]
      /\ apart' \in [Scopes!Regulation -> BOOLEAN]
  BY DEF ScopesInv
<1> QED BY <1>2, <1>7, <1>8, ScopesTurn

LEMMA ScopesStep ==
  ASSUME ScopesInv, [Scopes!Next]_(Scopes!vars)
  PROVE  ScopesInv'
<1> USE DEF Scopes!Idle, Scopes!Serves, Scopes!Continues, Scopes!Answers,
      Scopes!Reads, Scopes!AtOnce, Scopes!rows, Scopes!assessment, Scopes!history, Scopes!Quiet
<1>0. /\ request \in [Handler -> ScopeStep] /\ profile \in Scopes!Scope
      /\ applicable \in [Scopes!Kind -> Scopes!Scope]
      /\ answered \in [Scopes!Regulation -> Scopes!Answer] /\ apart \in [Scopes!Regulation -> BOOLEAN]
      /\ Idle.op = "idle"
  BY DEF ScopesInv, Idle
<1>1. CASE UNCHANGED Scopes!vars
  <2>1. UNCHANGED <<request, overlapped, profile, applicable, answered, due, apart, scopeCut>>
    BY <1>1 DEF Scopes!vars, Scopes!requests
  <2>2. /\ (request \in [Handler -> ScopeStep])' /\ (profile \in Scopes!Scope)'
        /\ (applicable \in [Scopes!Kind -> Scopes!Scope])'
        /\ (answered \in [Scopes!Regulation -> Scopes!Answer])' /\ (apart \in [Scopes!Regulation -> BOOLEAN])'
    BY <1>0, <2>1 DEF ScopeStep, Scopes!Step, Scopes!Scope, Scopes!Kind, Scopes!Kinds,
      Scopes!Regulation, Scopes!Answer, Idle
  <2>3. /\ Alone' /\ (Quiet' <=> Quiet) /\ (Propagating(Idle)' <=> Propagating(Idle))
        /\ \A h \in Handler : Propagating(request[h])' <=> Propagating(request[h])
    BY <2>1 DEF ScopesInv, Alone, Quiet, Idle, Propagating, PropagationFits, AnswerFits
  <2> QED BY <2>1, <2>2, <2>3 DEF ScopesInv, Idle
<1>a. ASSUME UNCHANGED request, overlapped' = (overlapped \/ ~Quiet),
             due' \/ (due' = due /\ UNCHANGED <<profile, applicable>>), UNCHANGED scopeCut,
             profile' \in Scopes!Scope, applicable' \in [Scopes!Kind -> Scopes!Scope],
             answered' \in [Scopes!Regulation -> Scopes!Answer],
             apart' \in [Scopes!Regulation -> BOOLEAN],
             \A q \in Scopes!Regulation :
               (~apart[q] => answered[q] \subseteq {profile[q]}) =>
                 (~apart'[q] => answered'[q] \subseteq {profile'[q]})
      PROVE  ScopesInv'
  <2>1. ~overlapped' => Quiet /\ ~overlapped
    BY <1>a
  <2>2. Quiet => \A h \in Handler : request'[h] = Idle
    BY <1>a DEF Quiet
  <2>3. Propagating(Idle) => Propagating(Idle)'
    BY <1>0, <1>a DEF Propagating, PropagationFits, AnswerFits, Idle
  <2>4. ~overlapped' => Propagating(Idle)' /\ \A h \in Handler : request'[h] = Idle
    BY <2>1, <2>2, <2>3 DEF ScopesInv
  <2>5. Alone'
    BY <1>a, AtOnceTaken DEF ScopesInv
  <2>6. (request \in [Handler -> ScopeStep])' /\ (profile \in Scopes!Scope)'
        /\ (applicable \in [Scopes!Kind -> Scopes!Scope])'
        /\ (answered \in [Scopes!Regulation -> Scopes!Answer])' /\ (apart \in [Scopes!Regulation -> BOOLEAN])'
    BY <1>0, <1>a DEF ScopeStep, Scopes!Step, Scopes!Scope, Scopes!Kind, Scopes!Kinds,
      Scopes!Regulation, Scopes!Answer, Idle
  <2> QED BY <2>4, <2>5, <2>6 DEF ScopesInv, Idle
<1>2. ASSUME NEW q \in Scopes!Regulation, Scopes!EditProfile(q) PROVE ScopesInv'
  <2>1. profile' = [profile EXCEPT ![q] = ~@] /\ UNCHANGED answered /\ apart' = [apart EXCEPT ![q] = TRUE]
    BY <1>2 DEF Scopes!EditProfile, Scopes!assessment
  <2>2. /\ profile' \in Scopes!Scope /\ answered' \in [Scopes!Regulation -> Scopes!Answer]
        /\ apart' \in [Scopes!Regulation -> BOOLEAN]
    BY <1>0, <2>1 DEF Scopes!Scope
  <2>3. \A z \in Scopes!Regulation :
          (~apart[z] => answered[z] \subseteq {profile[z]}) =>
            (~apart'[z] => answered'[z] \subseteq {profile'[z]})
    BY <1>0, <2>1 DEF Scopes!Scope
  <2>4. /\ UNCHANGED request /\ overlapped' = (overlapped \/ ~Quiet) /\ due' /\ UNCHANGED scopeCut
        /\ applicable' \in [Scopes!Kind -> Scopes!Scope]
    BY <1>0, <1>2 DEF Scopes!EditProfile, Quiet, Idle
  <2> QED BY <1>a, <2>2, <2>3, <2>4
<1>11. ASSUME NEW q \in Scopes!Regulation, NEW A \in Scopes!Answer, Scopes!UpdateSurvey(q, A)
       PROVE  ScopesInv'
  <2>1. answered' = [answered EXCEPT ![q] = A] /\ apart' = [apart EXCEPT ![q] = TRUE]
    BY <1>11 DEF Scopes!UpdateSurvey
  <2>2. /\ UNCHANGED <<request, profile, applicable, due, scopeCut>>
        /\ overlapped' = (overlapped \/ ~Quiet)
    BY <1>11 DEF Scopes!UpdateSurvey, Quiet, Idle
  <2>3. /\ answered' \in [Scopes!Regulation -> Scopes!Answer]
        /\ apart' \in [Scopes!Regulation -> BOOLEAN]
        /\ \A z \in Scopes!Regulation :
             (~apart[z] => answered[z] \subseteq {profile[z]}) =>
               (~apart'[z] => answered'[z] \subseteq {profile'[z]})
    BY <1>0, <2>1, <2>2
  <2> QED BY <1>0, <1>a, <2>2, <2>3
<1>12. ASSUME NEW q \in Scopes!Regulation, Scopes!DeleteSurvey(q) PROVE ScopesInv'
  <2>1. answered' = [answered EXCEPT ![q] = {}]
    BY <1>12 DEF Scopes!DeleteSurvey
  <2>2. /\ UNCHANGED <<request, profile, applicable, due, apart, scopeCut>>
        /\ overlapped' = (overlapped \/ ~Quiet)
    BY <1>12 DEF Scopes!DeleteSurvey, Scopes!history, Quiet, Idle
  <2>3. answered' \in [Scopes!Regulation -> Scopes!Answer]
    BY <1>0, <2>1 DEF Scopes!Answer
  <2>4. \A z \in Scopes!Regulation :
          (~apart[z] => answered[z] \subseteq {profile[z]}) =>
            (~apart'[z] => answered'[z] \subseteq {profile'[z]})
    BY <1>0, <2>1, <2>2
  <2> QED BY <1>0, <1>a, <2>2, <2>3, <2>4
<1>3. ASSUME NEW k \in Scopes!Kind, NEW q \in Scopes!Regulation, Scopes!EditRow(k, q)
      PROVE  ScopesInv'
  <2>1. applicable' = [applicable EXCEPT ![k][q] = ~@]
    BY <1>3 DEF Scopes!EditRow
  <2>2. applicable' \in [Scopes!Kind -> Scopes!Scope]
    BY <1>0, <2>1 DEF Scopes!Scope
  <2>3. /\ UNCHANGED <<request, profile, answered, apart, scopeCut>> /\ overlapped' = (overlapped \/ ~Quiet) /\ due'
    BY <1>3 DEF Scopes!EditRow, Quiet, Idle
  <2>4. /\ profile' \in Scopes!Scope /\ answered' \in [Scopes!Regulation -> Scopes!Answer]
        /\ apart' \in [Scopes!Regulation -> BOOLEAN]
        /\ \A z \in Scopes!Regulation :
             (~apart[z] => answered[z] \subseteq {profile[z]}) =>
               (~apart'[z] => answered'[z] \subseteq {profile'[z]})
    BY <1>0, <2>3
  <2> QED BY <1>a, <2>2, <2>3, <2>4
<1>4. ASSUME NEW h \in Handler, NEW q \in Scopes!Regulation, NEW b \in BOOLEAN, NEW A \in Scopes!Answer,
             Scopes!Complete(h, q, b, A)
      PROVE  ScopesInv'
  <2>1. PICK s \in Scopes!Scope : s = [profile EXCEPT ![q] = b]
    BY <1>0 DEF Scopes!Scope
  <2>2. \A z \in Scopes!Regulation : z # q => s[z] = profile[z]
    BY <1>0, <2>1 DEF Scopes!Scope
  <2> DEFINE r == [op |-> "link", scope |-> s, of |-> q, says |-> A]
  <2>3. /\ Turn(h, r) /\ request[h].op = "idle"
        /\ UNCHANGED <<profile, applicable, due, apart, scopeCut>>
        /\ answered' = answered \/ answered' = [answered EXCEPT ![q] = A]
    BY <1>0, <1>4, <2>1 DEF Scopes!Complete, Scopes!Completes, Scopes!history, Turn, Quiet, Idle
  <2>4. r \in ScopeStep /\ r.op = "link" /\ r.scope = s /\ r.of = q
    BY ScopeSteps
  <2> HIDE DEF r
  <2>5. ~overlapped' => Propagating(request[h])
    BY <2>3, ScopesBefore
  <2>6. /\ answered' \in [Scopes!Regulation -> Scopes!Answer]
        /\ \A z \in Scopes!Regulation : z # q => answered'[z] = answered[z]
    BY <1>0, <2>3
  <2>7. Propagating(request[h]) => Propagating(r)'
    BY <2>2, <2>3, <2>4, <2>6 DEF Propagating, PropagationFits, AnswerFits
  <2> QED BY <1>0, <2>3, <2>4, <2>5, <2>6, <2>7, ScopesTurn
<1>5. ASSUME NEW h \in Handler, Scopes!PropagateCurrent(h) PROVE ScopesInv'
  <2>1. PICK s \in Scopes!Scope : s = profile
    BY <1>0
  <2> DEFINE r == [op |-> "profile", scope |-> s, at |-> 1]
  <2>2. /\ Turn(h, r) /\ request[h].op = "idle" /\ UNCHANGED <<profile, applicable, answered, due, apart, scopeCut>>
    BY <1>0, <1>5, <2>1 DEF Scopes!PropagateCurrent, Turn, Quiet, Idle
  <2>3. r \in ScopeStep /\ r.op = "profile" /\ r.scope = s /\ r.at = 1
    <3>1. 1 \in 1 .. 4
      OBVIOUS
    <3> QED BY <3>1, ScopeSteps
  <2> HIDE DEF r
  <2>4. ~overlapped' => Propagating(request[h])
    BY <2>2, ScopesBefore
  <2>5. Propagating(request[h]) => Propagating(r)'
    BY <2>1, <2>2, <2>3 DEF Propagating, PropagationFits, AnswerFits
  <2> QED BY <1>0, <2>2, <2>3, <2>4, <2>5, ScopesTurn
<1>6. ASSUME NEW h \in Handler, Scopes!LinkSurvey(h) PROVE ScopesInv'
  <2>0. request[h].op = "link"
    BY <1>6 DEF Scopes!LinkSurvey
  <2>1. PICK s \in Scopes!Scope, q \in Scopes!Regulation, A \in Scopes!Answer :
          s = request[h].scope /\ q = request[h].of /\ A = request[h].says
    BY <1>0, <2>0, ScopeCarries
  <2> DEFINE r == [op |-> "profile", scope |-> s, at |-> 1]
  <2>2. /\ Turn(h, r) /\ UNCHANGED <<profile, applicable, due, scopeCut>>
        /\ answered' = [answered EXCEPT ![q] = A]
        /\ apart' = [apart EXCEPT ![q] = A # {s[q]}]
    BY <1>0, <1>6, <2>0, <2>1 DEF Scopes!LinkSurvey, Turn
  <2>3. r \in ScopeStep /\ r.op = "profile" /\ r.scope = s /\ r.at = 1
    <3>1. 1 \in 1 .. 4
      OBVIOUS
    <3> QED BY <3>1, ScopeSteps
  <2> HIDE DEF r
  <2>4. ~overlapped' => Propagating(request[h])
    BY <2>2, ScopesBefore
  <2>5. /\ answered' \in [Scopes!Regulation -> Scopes!Answer] /\ answered'[q] = A
        /\ apart' \in [Scopes!Regulation -> BOOLEAN]
        /\ \A z \in Scopes!Regulation : z # q => answered'[z] = answered[z] /\ apart'[z] = apart[z]
    BY <1>0, <2>2
  <2>6. ~apart'[q] => A = {s[q]}
    BY <1>0, <2>2
  <2>7. Propagating(request[h]) => Propagating(r)'
    BY <2>0, <2>1, <2>2, <2>3, <2>5, <2>6 DEF Propagating, PropagationFits, AnswerFits
  <2> QED BY <1>0, <2>2, <2>3, <2>4, <2>5, <2>7, ScopesTurn
<1>7. ASSUME NEW h \in Handler, Scopes!WriteProfile(h) PROVE ScopesInv'
  <2>0. request[h].op = "profile"
    BY <1>7 DEF Scopes!WriteProfile
  <2>1. PICK s \in Scopes!Scope, i \in 1 .. 4 : s = request[h].scope /\ i = request[h].at
    BY <1>0, <2>0, ScopeCarries
  <2>2. request[h] = [op |-> "profile", scope |-> s, at |-> i]
    BY <1>0, <2>0, <2>1, ScopeCarries
  <2> DEFINE r == [op |-> "read", scope |-> s, at |-> i]
  <2>3. [request[h] EXCEPT !.op = "read"] = r
    BY <2>2
  <2>4. r \in ScopeStep /\ r.op = "read" /\ r.scope = s /\ r.at = i
    BY ScopeSteps
  <2> HIDE DEF r
  <2>5. /\ Turn(h, r) /\ UNCHANGED <<applicable, answered, apart, scopeCut>> /\ profile' = s /\ due' = TRUE
    BY <1>0, <1>7, <2>0, <2>1, <2>3 DEF Scopes!WriteProfile, Turn
  <2>6. ~overlapped' => Propagating(request[h])
    BY <2>5, ScopesBefore
  <2>7. Propagating(request[h]) => Propagating(r)'
    <3> SUFFICES ASSUME Propagating(request[h]) PROVE Propagating(r)'
      OBVIOUS
    <3>1. i = 1
      BY <2>0, <2>1 DEF Propagating, PropagationFits
    <3>2. PropagationFits(r)'
      BY <2>4, <2>5, <3>1 DEF PropagationFits
    <3>3. ~scopeCut => AnswerFits(r)'
      BY <2>0, <2>1, <2>4, <2>5 DEF Propagating, AnswerFits
    <3> QED BY <2>5, <3>2, <3>3 DEF Propagating
  <2> QED BY <1>0, <2>4, <2>5, <2>6, <2>7, ScopesTurn
<1>8. ASSUME NEW h \in Handler, Scopes!ReadRows(h) PROVE ScopesInv'
  <2>0. request[h].op = "read"
    BY <1>8 DEF Scopes!ReadRows
  <2>p. PICK p : p = request[h]
    OBVIOUS
  <2>1. PICK s \in Scopes!Scope, i \in 1 .. 4 :
           s = request[h].scope /\ i = request[h].at /\ p = request[h]
    BY <1>0, <2>0, <2>p, ScopeCarries
  <2>2. PICK D \in SUBSET Scopes!Regulation : D = Scopes!Differing(Scopes!Kinds[i], s)
    BY DEF Scopes!Differing
  <2>3. \A q \in Scopes!Regulation \ D : applicable[Scopes!Kinds[i]][q] = s[q]
    BY <2>2 DEF Scopes!Differing
  <2>4. ~overlapped' /\ Turn(h, request'[h]) => Propagating(request[h])
    BY ScopesBefore
  <2>5. applicable[Scopes!Kinds[i]] \in Scopes!Scope
    BY <1>0, KindsAre
  <2>6. UNCHANGED <<profile, applicable, answered, apart, scopeCut>> /\ Len(Scopes!Kinds) = 4
    BY <1>8, KindsAre DEF Scopes!ReadRows
  <2>7. CASE D = {}
    <3>1. Turn(h, Scopes!After(p)) /\ due' = (due /\ i < 4)
      BY <1>0, <1>8, <2>0, <2>1, <2>2, <2>6, <2>7 DEF Scopes!ReadRows, Turn
    <3>2. ~overlapped' => Propagating(request[h])
      BY <3>1, ScopesBefore
    <3>3. applicable[Scopes!Kinds[i]] = s
      BY <2>3, <2>5, <2>7 DEF Scopes!Scope
    <3>4. ~overlapped' =>
            /\ due /\ s = profile
            /\ \A j \in 1 .. 4 : j < i => applicable[Scopes!Kinds[j]] = profile
      BY <2>0, <2>1, <3>2 DEF Propagating, PropagationFits
    <3>5. ~overlapped' =>
            /\ due /\ s = profile
            /\ \A j \in 1 .. 4 : j <= i => applicable'[Scopes!Kinds[j]] = profile
      BY <2>6, <3>3, <3>4
    <3> QED BY <1>0, <2>0, <2>1, <2>6, <3>1, <3>5, ScopesThrough
  <2>8. CASE D # {}
    <3> DEFINE r == [op |-> "write", scope |-> s, at |-> i, rows |-> D]
    <3>1. /\ Turn(h, r) /\ (due' <=> due)
      BY <1>0, <1>8, <2>0, <2>1, <2>2, <2>8 DEF Scopes!ReadRows, Turn
    <3>2. r \in ScopeStep /\ r.op = "write" /\ r.scope = s /\ r.at = i /\ r.rows = D
      BY ScopeSteps
    <3> HIDE DEF r
    <3>3. ~overlapped' => Propagating(request[h])
      BY <3>1, ScopesBefore
    <3>4. Propagating(request[h]) => Propagating(r)'
      BY <2>0, <2>1, <2>3, <2>6, <3>1, <3>2 DEF Propagating, PropagationFits, AnswerFits
    <3> QED BY <1>0, <2>6, <3>1, <3>2, <3>3, <3>4, ScopesTurn
  <2> QED BY <2>7, <2>8
<1>9. ASSUME NEW h \in Handler, Scopes!WriteRows(h) PROVE ScopesInv'
  <2>0. request[h].op = "write"
    BY <1>9 DEF Scopes!WriteRows
  <2>p. PICK p : p = request[h]
    OBVIOUS
  <2>1. PICK s \in Scopes!Scope, i \in 1 .. 4, D \in SUBSET Scopes!Regulation :
           /\ s = request[h].scope /\ i = request[h].at /\ D = request[h].rows
           /\ p = [op |-> "write", scope |-> s, at |-> i, rows |-> D] /\ p = request[h]
    BY <1>0, <2>0, <2>p, ScopeCarries
  <2>2. PICK R \in SUBSET D :
          /\ applicable' = [applicable EXCEPT ![Scopes!Kinds[i]] =
               [q \in Scopes!Regulation |-> IF q \in R THEN s[q] ELSE @[q]]]
          /\ request' = [request EXCEPT ![h] = IF R = D THEN Scopes!After(p) ELSE [p EXCEPT !.rows = @ \ R]]
          /\ due' = (due /\ (R # D \/ i < 4))
    <3>1. p.scope = s /\ p.at = i /\ p.rows = D /\ Len(Scopes!Kinds) = 4
      BY <2>1, KindsAre
    <3>2. PICK R \in (IF Scopes!Kinds[request[h].at] = "asset" THEN {request[h].rows}
                      ELSE {{q} : q \in request[h].rows}) :
            /\ applicable' = [applicable EXCEPT ![Scopes!Kinds[request[h].at]] =
                 [q \in Scopes!Regulation |-> IF q \in R THEN request[h].scope[q] ELSE @[q]]]
            /\ request' = [request EXCEPT ![h] =
                 IF R = request[h].rows THEN Scopes!After(request[h]) ELSE [request[h] EXCEPT !.rows = @ \ R]]
            /\ due' = (due /\ (R # request[h].rows \/ request[h].at < Len(Scopes!Kinds)))
      BY <1>9, Zenon DEF Scopes!WriteRows
    <3>3. R \in SUBSET D
      BY <2>1, <3>2
    <3> QED BY <2>1, <3>1, <3>2, <3>3
  <2>3. Scopes!Kinds[i] \in Scopes!Kind /\ \A j \in 1 .. 4 : Scopes!Kinds[j] \in Scopes!Kind
    BY KindsAre
  <2>4. /\ applicable' \in [Scopes!Kind -> Scopes!Scope]
        /\ \A j \in 1 .. 4 : j # i => applicable'[Scopes!Kinds[j]] = applicable[Scopes!Kinds[j]]
        /\ \A q \in Scopes!Regulation :
             applicable'[Scopes!Kinds[i]][q] = IF q \in R THEN s[q] ELSE applicable[Scopes!Kinds[i]][q]
    <3>1. \A j \in 1 .. 4 : j # i => Scopes!Kinds[j] # Scopes!Kinds[i]
      BY KindsAre
    <3>2. applicable[Scopes!Kinds[i]] \in [Scopes!Regulation -> BOOLEAN] /\ s \in [Scopes!Regulation -> BOOLEAN]
      BY <1>0, <2>3 DEF Scopes!Scope
    <3> DEFINE f == [q \in Scopes!Regulation |-> IF q \in R THEN s[q] ELSE applicable[Scopes!Kinds[i]][q]]
    <3>3. f \in Scopes!Scope
      BY <3>2 DEF Scopes!Scope
    <3>4. applicable' = [applicable EXCEPT ![Scopes!Kinds[i]] = f]
      BY <2>2
    <3>5. applicable'[Scopes!Kinds[i]] = f
      BY <1>0, <2>3, <3>4
    <3>6. applicable' \in [Scopes!Kind -> Scopes!Scope]
      BY <1>0, <3>3, <3>4
    <3>7. \A j \in 1 .. 4 : j # i => applicable'[Scopes!Kinds[j]] = applicable[Scopes!Kinds[j]]
      BY <1>0, <2>3, <3>1, <3>4
    <3> QED BY <3>5, <3>6, <3>7
  <2>5. UNCHANGED <<profile, answered, apart, scopeCut, overlapped>> /\ request[h] # Idle
    BY <1>0, <1>9, <2>0 DEF Scopes!WriteRows
  <2>6. \A r : request' = [request EXCEPT ![h] = r] => Turn(h, r)
    BY <2>5 DEF Turn
  <2>7. ~overlapped' => Propagating(request[h])
    BY <2>2, <2>6, ScopesBefore
  <2>8. ~overlapped' =>
          /\ due /\ s = profile
          /\ \A j \in 1 .. 4 : j < i => applicable'[Scopes!Kinds[j]] = profile
          /\ \A q \in Scopes!Regulation \ (D \ R) : applicable'[Scopes!Kinds[i]][q] = profile[q]
    BY <2>0, <2>1, <2>4, <2>7 DEF Propagating, PropagationFits
  <2>9. CASE R = D
    <3>1. Turn(h, Scopes!After(p)) /\ due' = (due /\ i < 4) /\ p.scope = s /\ p.at = i
      BY <2>1, <2>2, <2>6, <2>9
    <3>2. ~overlapped' => applicable'[Scopes!Kinds[i]] = profile
      <4>1. applicable'[Scopes!Kinds[i]] \in Scopes!Scope
        BY <2>3, <2>4
      <4> QED BY <1>0, <2>8, <2>9, <4>1 DEF Scopes!Scope
    <3>3. ~overlapped' =>
            /\ due /\ s = profile
            /\ \A j \in 1 .. 4 : j <= i => applicable'[Scopes!Kinds[j]] = profile
      BY <2>8, <3>2
    <3> QED BY <2>0, <2>4, <2>5, <3>1, <3>3, ScopesThrough
  <2>10. CASE R # D
    <3> DEFINE r == [op |-> "write", scope |-> s, at |-> i, rows |-> D \ R]
    <3>1. r \in ScopeStep /\ r.op = "write" /\ r.scope = s /\ r.at = i /\ r.rows = D \ R
      BY ScopeSteps
    <3>2. [p EXCEPT !.rows = @ \ R] = r
      BY <2>1
    <3> HIDE DEF r
    <3>3. Turn(h, r) /\ (due' <=> due)
      BY <2>2, <2>6, <2>10, <3>2
    <3>4. ~overlapped' => PropagationFits(r)'
      BY <2>5, <2>8, <3>1, <3>3 DEF PropagationFits
    <3>5. AnswerFits(request[h]) => AnswerFits(r)'
      BY <2>0, <2>5, <3>1 DEF AnswerFits
    <3>6. ~overlapped' => Propagating(r)'
      BY <2>5, <2>7, <3>4, <3>5 DEF Propagating
    <3> QED BY <1>0, <2>4, <2>5, <3>1, <3>3, <3>6, ScopesTurn
  <2> QED BY <2>9, <2>10
<1>10. ASSUME NEW h \in Handler, Scopes!BreaksOff(h) PROVE ScopesInv'
  <2>1. /\ Turn(h, Idle) /\ UNCHANGED <<profile, applicable, answered, apart>> /\ due'
        /\ scopeCut' = (scopeCut \/ request[h].op \in {"link", "profile"})
    BY <1>10 DEF Scopes!BreaksOff, Turn, Idle
  <2>2. ~overlapped' => Propagating(request[h])
    BY <2>1, ScopesBefore
  <2>3. Propagating(request[h]) => Propagating(Idle)'
    BY <2>1 DEF Propagating, PropagationFits, AnswerFits, Idle
  <2> QED BY <1>0, <2>1, <2>2, <2>3, ScopesTurn, ScopeSteps DEF Idle
<1> QED BY <1>1, <1>2, <1>3, <1>4, <1>5, <1>6, <1>7, <1>8, <1>9, <1>10, <1>11, <1>12 DEF Scopes!Next

LEMMA ScopesAgree == ScopesInv => Scopes!ScopeAgrees /\ Scopes!AnswerStands
<1> SUFFICES ASSUME ScopesInv, Scopes!Quiet, ~overlapped
             PROVE  /\ ~due => \A k \in Scopes!Kind : applicable[k] = profile
                    /\ ~scopeCut =>
                         \A q \in Scopes!Regulation : ~apart[q] => answered[q] \subseteq {profile[q]}
  BY DEF Scopes!ScopeAgrees, Scopes!AnswerStands
<1>1. Quiet
  BY DEF Scopes!Quiet, Scopes!Idle, Quiet, Idle
<1>2. Propagating(Idle)
  BY <1>1 DEF ScopesInv
<1> QED BY <1>2, KindsAre DEF Propagating, PropagationFits, AnswerFits, Idle

(***************************************************************************)
(* TreatmentPlans: the progress.                                            *)
(***************************************************************************)
Share == Plans!Rounded(Cardinality(Plans!Completed), Cardinality(Plans!Existing))

\* The actions of a plan are deleted with it.  What a recalculation is to store, or has
\* stored, is the share of the actions that are there, as long as nothing overlapped it.
Sharing ==
  /\ task \in [Task -> {"ABSENT", "OPEN", "COMPLETED"}]
  /\ plan[FirstPlan] = "ABSENT" => Plans!Existing = {}
  /\ ~overlapped =>
       /\ fresh /\ Plans!Existing # {} => progress = Share
       /\ \A h \in Handler : request[h].op = "store" => request[h].share = Share

SharesInv == PlansInv /\ Sharing

LEMMA SharesInit == Plans!Init => SharesInv
<1> SUFFICES ASSUME Plans!Init PROVE SharesInv
  OBVIOUS
<1>1. Plans!Existing = {} /\ task \in [Task -> {"ABSENT", "OPEN", "COMPLETED"}]
  BY DEF Plans!Init, Plans!Existing
<1>2. \A h \in Handler : request[h].op = "idle"
  BY DEF Plans!Init, Plans!RequestsInit, Plans!Idle
<1>3. Sharing
  BY <1>1, <1>2 DEF Sharing
<1> QED BY <1>3, PlansInit DEF SharesInv

\* A request goes on and leaves the actions alone.
LEMMA SharesTurn ==
  ASSUME SharesInv, PlansInv', NEW h \in Handler, NEW r, Turn(h, r), UNCHANGED task,
         plan'[FirstPlan] = "ABSENT" => plan[FirstPlan] = "ABSENT",
         ~overlapped' => /\ r.op = "store" => r.share = Share
                         /\ fresh' /\ Plans!Existing # {} =>
                              (fresh /\ progress' = progress) \/ progress' = Share
  PROVE  SharesInv'
<1>1. DOMAIN request = Handler /\ Alone
  BY DEF SharesInv, PlansInv, OneActive
<1>2. /\ request'[h] = r
      /\ \A g \in Handler : g # h => request'[g] = request[g]
      /\ ~overlapped' => ~overlapped
  BY <1>1, TurnDone
<1>3. Plans!Existing' = Plans!Existing /\ Share' = Share
  BY DEF Share, Plans!Existing, Plans!Completed
<1>4. Sharing'
  BY <1>2, <1>3 DEF SharesInv, Sharing
<1> QED BY <1>4 DEF SharesInv

\* A write between the awaits of the requests: no action is there for a plan that is not,
\* and what concerns the progress is not fresh.
LEMMA SharesWritten ==
  ASSUME SharesInv, PlansInv', UNCHANGED request, overlapped' = (overlapped \/ ~Quiet),
         task' \in [Task -> {"ABSENT", "OPEN", "COMPLETED"}],
         plan'[FirstPlan] = "ABSENT" => Plans!Existing' = {},
         fresh' /\ Plans!Existing' # {} => fresh /\ UNCHANGED <<task, progress>>
  PROVE  SharesInv'
<1>0. Idle.op = "idle"
  BY DEF Idle
<1>1. ~overlapped' => ~overlapped /\ \A h \in Handler : request'[h].op # "store"
  BY <1>0 DEF Quiet
<1>2. task' = task => Plans!Existing' = Plans!Existing /\ Share' = Share
  BY DEF Share, Plans!Existing, Plans!Completed
<1>3. Sharing'
  BY <1>1, <1>2 DEF SharesInv, Sharing
<1> QED BY <1>3 DEF SharesInv

LEMMA SharesStep ==
  ASSUME SharesInv, [Plans!Next]_(Plans!vars)
  PROVE  SharesInv'
<1> USE DEF Plans!Idle, Plans!Serves, Plans!Continues, Plans!Answers,
      Plans!Reads, Plans!AtOnce, Plans!Quiet, Plans!rows
<1>0. /\ PlansInv' /\ plan \in [Plan -> PlanStatus] /\ FirstPlan \in Plan
      /\ task \in [Task -> {"ABSENT", "OPEN", "COMPLETED"}]
      /\ plan[FirstPlan] = "ABSENT" => Plans!Existing = {}
  BY PlansStep, PlansAssumption DEF SharesInv, PlansInv, OneActive, Sharing
<1>1. CASE UNCHANGED Plans!vars
  <2>1. Plans!Existing' = Plans!Existing /\ Share' = Share
    BY <1>1 DEF Share, Plans!Existing, Plans!Completed, Plans!vars
  <2> QED BY <1>0, <1>1, <2>1 DEF SharesInv, Sharing, Plans!vars, Plans!requests
<1>2. ASSUME NEW p \in Plan, NEW s \in Plans!Active \cup Plans!Closed, Plans!SetStatus(p, s),
             UNCHANGED task, fresh' => fresh /\ progress' = progress
      PROVE  SharesInv'
  <2>1. /\ plan' = [plan EXCEPT ![p] = s] /\ UNCHANGED request /\ overlapped' = (overlapped \/ ~Quiet)
        /\ plan[p] # "ABSENT"
    BY <1>2 DEF Plans!SetStatus, Quiet, Idle
  <2>2. s # "ABSENT"
    BY DEF Plans!Active, Plans!Closed
  <2>3. plan'[FirstPlan] = "ABSENT" => plan[FirstPlan] = "ABSENT"
    BY <1>0, <2>1, <2>2
  <2>4. Plans!Existing' = Plans!Existing
    BY <1>2 DEF Plans!Existing
  <2> QED BY <1>0, <1>2, <2>1, <2>3, <2>4, SharesWritten
<1>3. ASSUME NEW p \in Plan,
             \/ Plans!Approve(p) \/ Plans!UpdateProgress(p, 50) \/ Plans!UpdateProgress(p, 100)
             \/ \E s \in Plans!Active \cup Plans!Closed : Plans!Update(p, s)
      PROVE  SharesInv'
  <2>1. PICK s \in Plans!Active \cup Plans!Closed : Plans!SetStatus(p, s)
    BY <1>3 DEF Plans!Approve, Plans!UpdateProgress, Plans!Update, Plans!Active, Plans!Closed
  <2>2. UNCHANGED task /\ (fresh' => fresh /\ progress' = progress)
    <3>1. CASE Plans!Approve(p)
      BY <3>1 DEF Plans!Approve
    <3>2. CASE Plans!UpdateProgress(p, 50) \/ Plans!UpdateProgress(p, 100)
      BY <3>2 DEF Plans!UpdateProgress
    <3>3. CASE \E z \in Plans!Active \cup Plans!Closed : Plans!Update(p, z)
      BY <3>3 DEF Plans!Update
    <3> QED BY <1>3, <3>1, <3>2, <3>3
  <2> QED BY <1>2, <2>1, <2>2
<1>4. ASSUME NEW p \in Plan, Plans!Delete(p) PROVE SharesInv'
  <2>1. /\ plan' = [plan EXCEPT ![p] = "ABSENT"] /\ UNCHANGED <<request, progress, fresh>>
        /\ overlapped' = (overlapped \/ ~Quiet)
        /\ task' = [t \in Task |-> IF p = FirstPlan THEN "ABSENT" ELSE task[t]]
    BY <1>4 DEF Plans!Delete, Quiet, Idle
  <2>2. task' \in [Task -> {"ABSENT", "OPEN", "COMPLETED"}]
    BY <1>0, <2>1
  <2>3. CASE p = FirstPlan
    <3>1. Plans!Existing' = {}
      BY <2>1, <2>3 DEF Plans!Existing
    <3> QED BY <1>0, <2>1, <2>2, <3>1, SharesWritten
  <2>4. CASE p # FirstPlan
    <3>1. task' = task /\ plan'[FirstPlan] = plan[FirstPlan]
      BY <1>0, <2>1, <2>4
    <3>2. Plans!Existing' = Plans!Existing
      BY <3>1 DEF Plans!Existing
    <3> QED BY <1>0, <2>1, <2>2, <3>1, <3>2, SharesWritten
  <2> QED BY <2>3, <2>4
<1>5. ASSUME NEW t \in Task, NEW s \in {"OPEN", "COMPLETED"}, Plans!CreateAction(t, s)
      PROVE  SharesInv'
  <2>1. /\ plan[FirstPlan] # "ABSENT" /\ UNCHANGED <<request, plan>> /\ overlapped' = (overlapped \/ ~Quiet)
        /\ task' = [task EXCEPT ![t] = s] /\ fresh' = FALSE
    BY <1>5 DEF Plans!CreateAction, Quiet, Idle
  <2>2. task' \in [Task -> {"ABSENT", "OPEN", "COMPLETED"}]
    BY <1>0, <2>1
  <2> QED BY <1>0, <2>1, <2>2, SharesWritten
<1>6. ASSUME NEW h \in Handler, Plans!CreateReads(h) PROVE SharesInv'
  <2> DEFINE r == [op |-> "create"]
  <2>1. Turn(h, r) /\ UNCHANGED <<plan, task, progress, fresh>>
    BY <1>6 DEF Plans!CreateReads, Turn, Quiet, Idle
  <2>2. r.op = "create"
    OBVIOUS
  <2> HIDE DEF r
  <2> QED BY <1>0, <2>1, <2>2, SharesTurn
<1>7. ASSUME NEW h \in Handler, NEW p \in Plan, NEW s \in Plans!Active \cup Plans!Closed, Plans!Create(h, p, s)
      PROVE  SharesInv'
  <2>1. /\ Turn(h, Idle) /\ UNCHANGED <<task, fresh>> /\ plan' = [plan EXCEPT ![p] = s] /\ plan[p] = "ABSENT"
        /\ progress' = IF p = FirstPlan THEN 0 ELSE progress
    BY <1>7 DEF Plans!Create, Turn, Idle
  <2>2. s # "ABSENT" /\ Idle.op = "idle"
    BY DEF Plans!Active, Plans!Closed, Idle
  <2>3. plan'[FirstPlan] = "ABSENT" => plan[FirstPlan] = "ABSENT"
    BY <1>0, <2>1, <2>2
  <2>4. Plans!Existing # {} => progress' = progress
    BY <1>0, <2>1
  <2>5. fresh' /\ Plans!Existing # {} => (fresh /\ progress' = progress) \/ progress' = Share
    BY <2>1, <2>4
  <2> QED BY <1>0, <2>1, <2>2, <2>3, <2>5, SharesTurn
<1>8. ASSUME NEW h \in Handler, NEW t \in Task, NEW s \in {"ABSENT", "OPEN", "COMPLETED"}, Plans!Rewrites(h, t, s)
      PROVE  SharesInv'
  <2> DEFINE r == [op |-> "recalculate"]
  <2>1. /\ Turn(h, r) /\ task' = [task EXCEPT ![t] = s] /\ task[t] # "ABSENT"
        /\ fresh' = FALSE /\ UNCHANGED plan
    BY <1>8 DEF Plans!Rewrites, Turn, Quiet, Idle
  <2>2. r.op = "recalculate"
    OBVIOUS
  <2> HIDE DEF r
  <2>3. t \in Plans!Existing
    BY <2>1 DEF Plans!Existing
  <2>4. task' \in [Task -> {"ABSENT", "OPEN", "COMPLETED"}] /\ plan'[FirstPlan] # "ABSENT"
    BY <1>0, <2>1, <2>3
  <2>5. ~overlapped' => \A g \in Handler : request'[g].op # "store"
    <3>1. DOMAIN request = Handler /\ Alone
      BY DEF SharesInv, PlansInv, OneActive
    <3>2. /\ request'[h] = r
          /\ ~overlapped' => \A g \in Handler : g # h => request'[g] = Idle
      BY <2>1, <3>1, TurnDone
    <3> QED BY <2>2, <3>2 DEF Idle
  <2>6. Sharing'
    BY <2>1, <2>4, <2>5 DEF Sharing
  <2> QED BY <1>0, <2>6 DEF SharesInv
<1>9. ASSUME NEW h \in Handler, Plans!Recalculate(h) PROVE SharesInv'
  <2>1. CASE Plans!Existing = {}
    <3>1. Turn(h, Idle) /\ UNCHANGED <<plan, task, progress, fresh>>
      BY <1>9, <2>1 DEF Plans!Recalculate, Turn, Idle
    <3>2. Idle.op = "idle"
      BY DEF Idle
    <3> QED BY <1>0, <3>1, <3>2, SharesTurn
  <2>2. CASE Plans!Existing # {}
    <3>1. PICK n : n = Share
      OBVIOUS
    <3>2. Share = Plans!Rounded(Plans!Cardinality(Plans!Completed), Plans!Cardinality(Plans!Existing))
      BY SameCount DEF Share
    <3> DEFINE r == [op |-> "store", share |-> n]
    <3>3. Turn(h, r) /\ UNCHANGED <<plan, task, progress, fresh>>
      <4>1. request' = [request EXCEPT ![h] = r]
        BY <1>9, <2>2, <3>1, <3>2 DEF Plans!Recalculate
      <4> HIDE DEF r
      <4> QED BY <1>9, <4>1 DEF Plans!Recalculate, Turn, Idle
    <3>4. r.op = "store" /\ r.share = n
      OBVIOUS
    <3> HIDE DEF r
    <3> QED BY <1>0, <3>1, <3>3, <3>4, SharesTurn
  <2> QED BY <2>1, <2>2
<1>10. ASSUME NEW h \in Handler, Plans!Store(h) PROVE SharesInv'
  <2>1. /\ Turn(h, Idle) /\ UNCHANGED <<plan, task, overlapped>> /\ progress' = request[h].share
        /\ request[h].op = "store"
    BY <1>10 DEF Plans!Store, Turn, Idle
  <2>2. ~overlapped' => progress' = Share
    BY <2>1 DEF SharesInv, Sharing
  <2>3. Idle.op = "idle"
    BY DEF Idle
  <2> QED BY <1>0, <2>1, <2>2, <2>3, SharesTurn
<1>11. ASSUME NEW h \in Handler, Plans!BreaksOff(h) PROVE SharesInv'
  <2>1. Turn(h, Idle) /\ UNCHANGED <<plan, task, progress, fresh>>
    BY <1>11 DEF Plans!BreaksOff, Turn, Idle
  <2>2. Idle.op = "idle"
    BY DEF Idle
  <2> QED BY <1>0, <2>1, <2>2, SharesTurn
<1> QED
  <2>1. CASE \E h \in Handler, t \in Task, s \in {"ABSENT", "OPEN", "COMPLETED"} : Plans!Rewrites(h, t, s)
    BY <1>8, <2>1
  <2>2. ASSUME NEW h \in Handler, NEW t \in Task,
               Plans!DeleteAction(h, t) \/ \E s \in {"OPEN", "COMPLETED"} : Plans!UpdateAction(h, t, s)
        PROVE  SharesInv'
    BY <2>1, <2>2 DEF Plans!DeleteAction, Plans!UpdateAction
  <2> QED BY <1>1, <1>3, <1>4, <1>5, <1>6, <1>7, <1>9, <1>10, <1>11, <2>2 DEF Plans!Next

\* Rounding a share to a percentage.
LEMMA RoundedShare ==
  ASSUME NEW done \in Nat, NEW total \in Nat \ {0}, done <= total
  PROVE  /\ Plans!Rounded(done, total) \in Nat
         /\ 2 * total * Plans!Rounded(done, total) \in 200 * done - total .. 200 * done + total
         /\ total < 200 =>
              /\ Plans!Rounded(done, total) = 100 <=> done = total
              /\ Plans!Rounded(done, total) = 0 <=> done = 0
<1> DEFINE q == Plans!Rounded(done, total)
           n == 200 * done + total
           d == 2 * total
<1>1. n \in Nat /\ d \in Nat \ {0} /\ q = n \div d
  BY DEF Plans!Rounded
<1> HIDE DEF q, n, d
<1>2. q \in Nat /\ d * q <= n /\ n < d * q + d
  BY <1>1
<1>3. d * q \in Nat
  BY <1>1, <1>2
<1>4. d * q \in 200 * done - total .. 200 * done + total
  BY <1>2, <1>3 DEF n, d
<1>5. CASE q = 0
  <2>1. d * q = 0
    BY <1>1, <1>5
  <2> QED BY <1>2, <1>4, <1>5, <2>1 DEF q, n, d
<1>6. CASE q >= 1 /\ q <= 99
  <2>1. d * q >= d /\ d * q <= 99 * d
    BY <1>1, <1>2, <1>6
  <2> QED BY <1>2, <1>4, <1>6, <2>1 DEF q, n, d
<1>7. CASE q = 100
  <2>1. d * q = 100 * d
    BY <1>1, <1>7
  <2> QED BY <1>2, <1>4, <1>7, <2>1 DEF q, n, d
<1>8. CASE q > 100
  <2>1. d * q >= 101 * d
    BY <1>1, <1>2, <1>8
  <2> QED BY <1>2, <1>4, <1>8, <2>1 DEF q, n, d
<1> QED BY <1>2, <1>5, <1>6, <1>7, <1>8

LEMMA SharesAgree == SharesInv => Plans!ProgressIsShare
<1> SUFFICES ASSUME SharesInv, ~overlapped, fresh, Plans!Existing # {}
             PROVE  LET done == Plans!Cardinality(Plans!Completed)
                        total == Plans!Cardinality(Plans!Existing)
                    IN /\ 2 * total * progress \in 200 * done - total .. 200 * done + total
                       /\ total < 200 =>
                            /\ progress = 100 <=> \A t \in Plans!Existing : task[t] = "COMPLETED"
                            /\ progress = 0 <=> \A t \in Plans!Existing : task[t] = "OPEN"
  BY DEF Plans!ProgressIsShare
<1> DEFINE done == Cardinality(Plans!Completed)
           total == Cardinality(Plans!Existing)
<1>1. /\ Plans!Completed \subseteq Plans!Existing /\ IsFiniteSet(Plans!Existing)
      /\ \A t \in Plans!Existing \ Plans!Completed : task[t] = "OPEN"
  <2>1. Plans!Existing \subseteq Task
    BY DEF Plans!Existing
  <2>2. IsFiniteSet(Plans!Existing)
    BY <2>1, FS_Subset, PlansAssumption
  <2> QED BY <2>2 DEF SharesInv, Sharing, Plans!Existing, Plans!Completed
<1>2. /\ done \in Nat /\ total \in Nat \ {0} /\ done <= total
      /\ done = total <=> Plans!Completed = Plans!Existing
      /\ done = 0 <=> Plans!Completed = {}
  <2>1. IsFiniteSet(Plans!Completed)
    BY <1>1, FS_Subset
  <2> QED BY <1>1, <2>1, FS_Subset, FS_CardinalityType, FS_EmptySet
<1>3. Plans!Completed = Plans!Existing <=> \A t \in Plans!Existing : task[t] = "COMPLETED"
  BY DEF Plans!Completed, Plans!Existing
<1>4. Plans!Completed = {} <=> \A t \in Plans!Existing : task[t] = "OPEN"
  BY <1>1 DEF Plans!Completed, Plans!Existing
<1>5. progress = Plans!Rounded(done, total)
  BY DEF SharesInv, Sharing, Share
<1>6. Plans!Cardinality(Plans!Completed) = done /\ Plans!Cardinality(Plans!Existing) = total
  BY SameCount
<1> HIDE DEF done, total
<1>7. /\ 2 * total * progress \in 200 * done - total .. 200 * done + total
      /\ total < 200 => /\ progress = 100 <=> done = total
                        /\ progress = 0 <=> done = 0
  <2>1. PICK m \in Nat, n \in Nat \ {0} : m = done /\ n = total /\ m <= n
    BY <1>2
  <2>2. progress = Plans!Rounded(m, n)
    BY <1>5, <2>1
  <2>3. /\ 2 * n * progress \in 200 * m - n .. 200 * m + n
        /\ n < 200 => /\ progress = 100 <=> m = n
                      /\ progress = 0 <=> m = 0
    <3>1. m <= n
      BY <2>1
    <3>2. /\ 2 * n * Plans!Rounded(m, n) \in 200 * m - n .. 200 * m + n
          /\ n < 200 => /\ Plans!Rounded(m, n) = 100 <=> m = n
                        /\ Plans!Rounded(m, n) = 0 <=> m = 0
      BY <3>1, RoundedShare
    <3> QED BY <2>2, <3>2, Zenon
  <2> QED BY <2>1, <2>3
<1> QED BY <1>2, <1>3, <1>4, <1>6, <1>7, Zenon

(***************************************************************************)
(* RiskScores.                                                              *)
(***************************************************************************)
Pair == [inherent : Nat, residual : Nat]
RiskRow == [exists : {TRUE}, likelihood : 0 .. 5, impact : 0 .. 5, scores : Pair]

Within(p) == p.residual <= p.inherent /\ (p.residual = 0 <=> p.inherent = 0)

\* A reduction by controls leaves of a rating no less than 1, if it is one.
LEMMA ReducedWithin ==
  ASSUME NEW x \in 0 .. 5, NEW b \in Nat
  PROVE  Risks!Reduced(x, b) \in 0 .. x /\ (Risks!Reduced(x, b) = 0 <=> x = 0)
<1>1. CASE x = 0 \/ b = 0
  BY <1>1 DEF Risks!Reduced
<1>2. CASE x # 0 /\ b # 0
  <2> DEFINE m == Risks!Max({1, x - b})
  <2>1. m \in {1, x - b} /\ \A y \in {1, x - b} : m >= y
    <3>1. \E y \in {1, x - b} : \A z \in {1, x - b} : y >= z
      <4>1. CASE x - b >= 1
        BY <4>1
      <4>2. CASE ~(x - b >= 1)
        BY <4>2
      <4> QED BY <4>1, <4>2
    <3> QED BY <3>1, Zenon DEF Risks!Max
  <2>2. Risks!Reduced(x, b) = m
    BY <1>2 DEF Risks!Reduced
  <2> HIDE DEF m
  <2> QED BY <1>2, <2>1, <2>2
<1> QED BY <1>1, <1>2

LEMMA ProductWithin ==
  ASSUME NEW x \in 0 .. 5, NEW y \in 0 .. 5, NEW a \in 0 .. x, NEW b \in 0 .. y,
         a = 0 <=> x = 0, b = 0 <=> y = 0
  PROVE  /\ a * b \in Nat /\ x * y \in Nat /\ a * b <= x * y
         /\ a * b = 0 <=> x * y = 0
<1>1. a * b <= x * b /\ x * b <= x * y /\ a * b \in Nat /\ x * y \in Nat /\ x * b \in Nat
  OBVIOUS
<1>2. CASE x = 0 \/ y = 0
  BY <1>2
<1>3. CASE x # 0 /\ y # 0
  <2>1. a >= 1 /\ b >= 1 /\ x >= 1 /\ y >= 1
    BY <1>3
  <2>2. a * b >= 1 /\ x * y >= 1
    BY <2>1
  <2> QED BY <1>1, <2>2
<1> QED BY <1>2, <1>3, <1>1

\* What a calculation yields of the ratings.
LEMMA CalculatedWithin ==
  ASSUME NEW s \in Scenario, scenario[s] \in RiskRow
  PROVE  /\ Risks!Calculated(s) \in Pair /\ Within(Risks!Calculated(s))
         /\ Risks!Calculated(s).inherent = scenario[s].likelihood * scenario[s].impact
<1>1. PICK by \in [likelihood : Nat, impact : Nat] : by = Risks!Reduction(Risks!AverageScore(linked[s]))
  BY DEF Risks!Reduction
<1>2. PICK x \in 0 .. 5, y \in 0 .. 5 : x = scenario[s].likelihood /\ y = scenario[s].impact
  BY DEF RiskRow
<1> DEFINE a == Risks!Reduced(x, by.likelihood)
           b == Risks!Reduced(y, by.impact)
<1>3. a \in 0 .. x /\ b \in 0 .. y /\ (a = 0 <=> x = 0) /\ (b = 0 <=> y = 0)
  BY ReducedWithin
<1>4. Risks!Calculated(s) = [inherent |-> x * y, residual |-> a * b]
  BY <1>1, <1>2 DEF Risks!Calculated
<1> HIDE DEF a, b
<1>5. a * b \in Nat /\ x * y \in Nat /\ a * b <= x * y /\ (a * b = 0 <=> x * y = 0)
  BY <1>3, ProductWithin
<1> QED BY <1>2, <1>4, <1>5 DEF Pair, Within

LEMMA Rating ==
  ASSUME NEW row \in RiskRow, NEW n \in Nat
  PROVE  /\ Risks!Rated(row, n) \in RiskRow
         /\ Risks!Rated(row, n).likelihood = row.likelihood /\ Risks!Rated(row, n).impact = row.impact
         /\ Risks!Rated(row, n).scores.inherent = IF n = 0 THEN row.scores.inherent ELSE n
BY DEF Risks!Rated, RiskRow, Pair

\* An update to which both ratings of the row are known keeps the inherent score their product.
LEMMA Updating ==
  ASSUME NEW row \in RiskRow, row.scores.inherent = row.likelihood * row.impact,
         NEW data, data.likelihood \in 0 .. 5, data.impact \in 0 .. 5,
         data.inherent = Risks!Given(data.likelihood, row.likelihood) * Risks!Given(data.impact, row.impact)
  PROVE  /\ Risks!Updated(row, data) \in RiskRow
         /\ Risks!Updated(row, data).scores.inherent =
              Risks!Updated(row, data).likelihood * Risks!Updated(row, data).impact
<1>1. PICK x \in 0 .. 5, y \in 0 .. 5 :
         x = Risks!Given(data.likelihood, row.likelihood) /\ y = Risks!Given(data.impact, row.impact)
  BY DEF Risks!Given, RiskRow
<1> DEFINE mid == [row EXCEPT !.likelihood = x, !.impact = y]
<1>2. mid \in RiskRow /\ mid.likelihood = x /\ mid.impact = y /\ mid.scores = row.scores
  BY DEF RiskRow
<1>3. Risks!Updated(row, data) = Risks!Rated(mid, x * y)
  BY <1>1 DEF Risks!Updated
<1> HIDE DEF mid
<1>4. x * y \in Nat
  OBVIOUS
<1>5. x * y = 0 => row.likelihood * row.impact = 0
  <2>1. x * y = 0 => x = 0 \/ y = 0
    OBVIOUS
  <2>2. row.likelihood \in 0 .. 5 /\ row.impact \in 0 .. 5
    BY DEF RiskRow
  <2>3. (x = 0 => row.likelihood = 0) /\ (y = 0 => row.impact = 0)
    BY <1>1 DEF Risks!Given
  <2> QED BY <2>1, <2>2, <2>3
<1>6. PICK q : q = Risks!Rated(mid, x * y)
  OBVIOUS
<1>7. /\ q \in RiskRow /\ q.likelihood = x /\ q.impact = y
      /\ q.scores.inherent = IF x * y = 0 THEN mid.scores.inherent ELSE x * y
  BY <1>2, <1>4, <1>6, Rating
<1>8. q.scores.inherent = x * y
  BY <1>2, <1>5, <1>7
<1> QED BY <1>3, <1>6, <1>7, <1>8

\* Every row's inherent score is the product of its ratings.
RowsFit ==
  /\ scenario \in [Scenario -> RiskRow \cup {Risks!NoRow}]
  /\ \A s \in Risks!Existing :
       scenario[s].scores.inherent = scenario[s].likelihood * scenario[s].impact

Calculates(r) == r.op \in {"calculate", "persist"} /\ r.parent

\* The risk's scores are the worst of the scenarios', or are to be: by the request that
\* recalculates them.
WorstFits(r) ==
  /\ r.op = "calculate" => r.parent
  /\ r.op = "store" => r.scores = Risks!Worst
  /\ ~behind /\ ~Calculates(r) /\ r.op \notin {"scan", "store"} => risk = Risks!Worst

\* A scenario's scores go together, or are being calculated; what is to be written of them
\* is what its ratings yield.
ScoresFit(r) ==
  /\ \A s \in Risks!Existing \ unscored :
       Within(scenario[s].scores) \/ (Calculates(r) /\ r.of = s)
  /\ r.op = "persist" =>
       /\ r.scores \in Pair /\ Within(r.scores)
       /\ r.scores.inherent = scenario[r.of].likelihood * scenario[r.of].impact
  /\ r.op = "residual" => r.score = scenario[r.of].likelihood * scenario[r.of].impact
  /\ r.op = "update" =>
       /\ r.likelihood \in 0 .. 5 /\ r.impact \in 0 .. 5
       /\ r.inherent = Risks!Given(r.likelihood, scenario[r.of].likelihood)
                         * Risks!Given(r.impact, scenario[r.of].impact)

Scoring(r) == WorstFits(r) /\ ScoresFit(r)

RisksInv ==
  /\ DOMAIN request = Handler /\ Alone
  /\ ~overlapped => /\ RowsFit
                    /\ Quiet => Scoring(Idle)
                    /\ \A h \in Handler : request[h] # Idle => Scoring(request[h])

\* Nothing is scored at the start.
LEMMA NothingScored == Risks!Existing = {} => Risks!Worst = Risks!NoScores
<1> SUFFICES ASSUME Risks!Existing = {} PROVE Risks!Worst = Risks!NoScores
  OBVIOUS
<1>1. {0} \cup {scenario[s].scores.inherent : s \in Risks!Existing} = {0}
  OBVIOUS
<1>2. {0} \cup {scenario[s].scores.residual : s \in Risks!Existing} = {0}
  OBVIOUS
<1>3. Risks!Max({0}) = 0
  BY DEF Risks!Max
<1> QED BY <1>1, <1>2, <1>3 DEF Risks!Worst, Risks!NoScores

LEMMA RisksInit == Risks!Init => RisksInv
<1> SUFFICES ASSUME Risks!Init PROVE RisksInv
  OBVIOUS
<1>1. request = [h \in Handler |-> Idle]
  BY DEF Risks!Init, Risks!RequestsInit, Risks!Idle, Idle
<1>2. Risks!Existing = {}
  BY DEF Risks!Init, Risks!Existing, Risks!NoRow
<1>3. RowsFit
  BY <1>2 DEF Risks!Init, RowsFit
<1>4. Scoring(Idle)
  BY <1>2, NothingScored DEF Scoring, WorstFits, ScoresFit, Risks!Init, Idle
<1> QED BY <1>1, <1>3, <1>4 DEF RisksInv, Alone

LEMMA RisksBefore ==
  ASSUME RisksInv, NEW h \in Handler, NEW r, Turn(h, r)
  PROVE  ~overlapped' => ~overlapped /\ RowsFit /\ Scoring(request[h])
<1>1. Alone /\ DOMAIN request = Handler
  BY DEF RisksInv
<1>2. ~overlapped' => ~overlapped /\ \A g \in Handler : g # h => request[g] = Idle
  BY <1>1, TurnDone
<1>3. request[h] = Idle /\ ~overlapped' => Quiet
  BY <1>2 DEF Quiet
<1> QED BY <1>2, <1>3 DEF RisksInv

LEMMA RisksTurn ==
  ASSUME RisksInv, NEW h \in Handler, NEW r, Turn(h, r),
         ~overlapped' => RowsFit' /\ Scoring(r)'
  PROVE  RisksInv'
<1>1. Alone /\ DOMAIN request = Handler
  BY DEF RisksInv
<1>2. /\ DOMAIN request' = Handler /\ Alone' /\ request'[h] = r
      /\ \A g \in Handler : g # h => request'[g] = request[g]
      /\ ~overlapped' => \A g \in Handler : g # h => request[g] = Idle
  BY <1>1, TurnDone
<1>3. Quiet' => r = Idle
  BY <1>2 DEF Quiet, Idle
<1>4. ASSUME ~overlapped'
      PROVE  /\ Quiet' => Scoring(Idle)'
             /\ \A g \in Handler : request'[g] # Idle => Scoring(request[g])'
  <2>1. Quiet' => Scoring(Idle)'
    BY <1>3, <1>4
  <2>2. ASSUME NEW g \in Handler, request'[g] # Idle PROVE Scoring(request[g])'
    <3>1. g = h
      BY <1>2, <1>4, <2>2
    <3> QED BY <1>2, <1>4, <3>1 DEF Scoring, WorstFits, ScoresFit, Calculates
  <2> QED BY <2>1, <2>2
<1> QED BY <1>2, <1>4 DEF RisksInv, Idle

\* A write between the awaits of the requests.
LEMMA RisksAtOnce ==
  ASSUME RisksInv, UNCHANGED request, overlapped' = (overlapped \/ ~Quiet),
         RowsFit => RowsFit', Scoring(Idle) => Scoring(Idle)'
  PROVE  RisksInv'
<1>1. ~overlapped' => Quiet /\ ~overlapped
  OBVIOUS
<1>2. Quiet => \A h \in Handler : request'[h] = Idle
  BY DEF Quiet
<1>3. ~overlapped' => RowsFit' /\ Scoring(Idle)' /\ \A h \in Handler : request'[h] = Idle
  BY <1>1, <1>2 DEF RisksInv
<1>4. Alone'
  BY AtOnceTaken DEF RisksInv
<1> QED BY <1>3, <1>4 DEF RisksInv, Idle

\* One row is written.
LEMMA RowWritten ==
  ASSUME RowsFit, NEW s \in Scenario, NEW row \in RiskRow \cup {Risks!NoRow},
         row.exists => row.scores.inherent = row.likelihood * row.impact,
         scenario' = [scenario EXCEPT ![s] = row]
  PROVE  /\ RowsFit'
         /\ scenario'[s] = row
         /\ \A t \in Scenario : t # s => scenario'[t] = scenario[t]
         /\ \A t \in Risks!Existing' : t # s => t \in Risks!Existing
<1>1. scenario \in [Scenario -> RiskRow \cup {Risks!NoRow}]
  BY DEF RowsFit
<1>2. /\ scenario' \in [Scenario -> RiskRow \cup {Risks!NoRow}]
      /\ scenario'[s] = row
      /\ \A t \in Scenario : t # s => scenario'[t] = scenario[t]
  BY <1>1
<1>3. \A t \in Risks!Existing' : t \in Scenario /\ scenario'[t].exists /\ (t # s => t \in Risks!Existing)
  BY <1>2 DEF Risks!Existing
<1>4. \A t \in Risks!Existing' : scenario'[t].scores.inherent = scenario'[t].likelihood * scenario'[t].impact
  <2> SUFFICES ASSUME NEW t \in Risks!Existing'
               PROVE  scenario'[t].scores.inherent = scenario'[t].likelihood * scenario'[t].impact
    OBVIOUS
  <2>1. CASE t = s
    BY <1>2, <1>3, <2>1
  <2>2. CASE t # s
    BY <1>2, <1>3, <2>2 DEF RowsFit
  <2> QED BY <2>1, <2>2
<1>5. RowsFit'
  BY <1>2, <1>4 DEF RowsFit, RiskRow, Pair, Risks!NoRow
<1> QED BY <1>2, <1>3, <1>5

\* A request goes on from where no score was to be written, and writes none.
LEMMA RisksRead ==
  ASSUME RisksInv, NEW h \in Handler, NEW r, Turn(h, r), UNCHANGED <<scenario, risk, unscored, behind>>,
         request[h].op \notin {"calculate", "scan", "store"}, ~Calculates(request[h]), r.op \notin {"calculate", "store"},
         ~overlapped' /\ RowsFit =>
           /\ r.op = "persist" =>
                /\ r.scores \in Pair /\ Within(r.scores)
                /\ r.scores.inherent = scenario[r.of].likelihood * scenario[r.of].impact
           /\ r.op = "residual" => r.score = scenario[r.of].likelihood * scenario[r.of].impact
           /\ r.op = "update" =>
                /\ r.likelihood \in 0 .. 5 /\ r.impact \in 0 .. 5
                /\ r.inherent = Risks!Given(r.likelihood, scenario[r.of].likelihood)
                                  * Risks!Given(r.impact, scenario[r.of].impact)
  PROVE  RisksInv'
<1>1. ~overlapped' => RowsFit /\ Scoring(request[h])
  BY RisksBefore
<1>2. Risks!Existing' = Risks!Existing /\ Risks!Worst' = Risks!Worst /\ (RowsFit => RowsFit')
  BY DEF Risks!Existing, Risks!Worst, RowsFit, RiskRow, Pair, Risks!NoRow
<1>3. ~overlapped' => WorstFits(r)'
  BY <1>1, <1>2 DEF Scoring, WorstFits
<1>4. ~overlapped' => ScoresFit(r)'
  BY <1>1, <1>2 DEF Scoring, ScoresFit
<1> QED BY <1>1, <1>2, <1>3, <1>4, RisksTurn DEF Scoring

LEMMA RisksStep ==
  ASSUME RisksInv, [Risks!Next]_(Risks!vars)
  PROVE  RisksInv'
<1> USE DEF Risks!Idle, Risks!Serves, Risks!Continues, Risks!Answers,
      Risks!Reads, Risks!AtOnce, Risks!rows, Risks!Quiet
<1>0. Idle.op = "idle" /\ Likelihoods \cup {0} \subseteq 0 .. 5 /\ Impacts \cup {0} \subseteq 0 .. 5
  BY RatingsAssumption DEF Idle
<1>a. UNCHANGED scenario => Risks!Existing' = Risks!Existing /\ Risks!Worst' = Risks!Worst /\ (RowsFit => RowsFit')
  BY DEF Risks!Existing, Risks!Worst, RowsFit, RiskRow, Pair, Risks!NoRow
<1>1. CASE UNCHANGED Risks!vars
  <2>1. UNCHANGED <<scenario, risk, unscored, behind, request, overlapped>>
    BY <1>1 DEF Risks!vars, Risks!requests
  <2> QED BY <1>a, <2>1 DEF RisksInv, Alone, Quiet, Idle, Scoring, WorstFits, ScoresFit, Calculates
<1>2. ASSUME NEW s \in Scenario, NEW C, Risks!Link(s, C) PROVE RisksInv'
  <2>1. UNCHANGED <<scenario, risk, unscored, behind, request>> /\ overlapped' = (overlapped \/ ~Quiet)
    BY <1>2 DEF Risks!Link, Quiet, Idle
  <2>2. Scoring(Idle) => Scoring(Idle)'
    BY <1>a, <2>1 DEF Scoring, WorstFits, ScoresFit, Calculates, Idle
  <2> QED BY <1>a, <2>1, <2>2, RisksAtOnce
<1>3. ASSUME Risks!Overwrite(Risks!NoScores) PROVE RisksInv'
  <2>1. UNCHANGED <<scenario, unscored, request>> /\ behind' /\ overlapped' = (overlapped \/ ~Quiet)
    BY <1>3 DEF Risks!Overwrite, Quiet, Idle
  <2>2. Scoring(Idle) => Scoring(Idle)'
    BY <1>a, <2>1 DEF Scoring, WorstFits, ScoresFit, Calculates, Idle
  <2> QED BY <1>a, <2>1, <2>2, RisksAtOnce
<1>4. ASSUME NEW h \in Handler, NEW s \in Scenario, NEW l \in Likelihoods \cup {0}, NEW i \in Impacts \cup {0},
             Risks!Create(h, s, l, i)
      PROVE  RisksInv'
  <2>1. l \in 0 .. 5 /\ i \in 0 .. 5 /\ l * i \in Nat
    BY <1>0
  <2> DEFINE row0 == [exists |-> TRUE, likelihood |-> l, impact |-> i, scores |-> Risks!NoScores]
             r == [op |-> "calculate", of |-> s, parent |-> TRUE]
  <2>2. row0 \in RiskRow /\ row0.likelihood = l /\ row0.impact = i /\ row0.scores.inherent = 0
    BY <2>1 DEF RiskRow, Pair, Risks!NoScores
  <2>3. PICK row : row = Risks!Rated(row0, l * i)
    OBVIOUS
  <2>4. row \in RiskRow /\ row.scores.inherent = row.likelihood * row.impact
    <3> HIDE DEF row0
    <3>1. /\ row \in RiskRow /\ row.likelihood = l /\ row.impact = i
          /\ row.scores.inherent = IF l * i = 0 THEN row0.scores.inherent ELSE l * i
      BY <2>1, <2>2, <2>3, Rating
    <3>2. row.scores.inherent = l * i
      BY <2>2, <3>1
    <3> QED BY <3>1, <3>2
  <2>5. /\ Turn(h, r) /\ request[h].op = "idle" /\ UNCHANGED <<risk, unscored, behind>>
        /\ scenario' = [scenario EXCEPT ![s] = row]
    BY <1>0, <1>4, <2>3 DEF Risks!Create, Turn, Quiet, Idle
  <2>6. r.op = "calculate" /\ r.of = s /\ r.parent
    OBVIOUS
  <2> HIDE DEF r, row0
  <2>7. ASSUME ~overlapped' PROVE RowsFit' /\ Scoring(r)'
    <3>1. RowsFit /\ Scoring(request[h])
      BY <2>5, <2>7, RisksBefore
    <3>2. /\ RowsFit' /\ \A t \in Scenario : t # s => scenario'[t] = scenario[t]
          /\ \A t \in Risks!Existing' : t # s => t \in Risks!Existing
      BY <2>4, <2>5, <3>1, RowWritten
    <3>3. WorstFits(r)'
      BY <2>6 DEF WorstFits, Calculates
    <3>4. \A t \in Risks!Existing' \ unscored' :
            Within(scenario'[t].scores) \/ (Calculates(r) /\ r.of = t)
      BY <2>5, <2>6, <3>1, <3>2 DEF Scoring, ScoresFit, Calculates, Risks!Existing
    <3>5. ScoresFit(r)'
      BY <2>6, <3>4 DEF ScoresFit, Calculates
    <3> QED BY <3>2, <3>3, <3>5 DEF Scoring
  <2> QED BY <2>5, <2>7, RisksTurn
<1>5. ASSUME NEW h \in Handler, NEW s \in Scenario, NEW l \in Likelihoods \cup {0}, NEW i \in Impacts \cup {0},
             Risks!UpdateReads(h, s, l, i)
      PROVE  RisksInv'
  <2>1. PICK n : n = Risks!Given(l, scenario[s].likelihood) * Risks!Given(i, scenario[s].impact)
    OBVIOUS
  <2> DEFINE r == [op |-> "update", of |-> s, likelihood |-> l, impact |-> i, inherent |-> n]
  <2>2. /\ Turn(h, r) /\ request[h].op = "idle" /\ UNCHANGED <<scenario, risk, unscored, behind>>
    BY <1>0, <1>5, <2>1 DEF Risks!UpdateReads, Turn, Quiet, Idle
  <2>3. r.op = "update" /\ r.of = s /\ r.likelihood = l /\ r.impact = i /\ r.inherent = n
    OBVIOUS
  <2> HIDE DEF r
  <2>4. ~Calculates(request[h])
    BY <2>2 DEF Calculates
  <2>5. r.likelihood \in 0 .. 5 /\ r.impact \in 0 .. 5
    BY <1>0, <2>3
  <2>6. r.inherent = Risks!Given(r.likelihood, scenario[r.of].likelihood)
                       * Risks!Given(r.impact, scenario[r.of].impact)
    BY <2>1, <2>3
  <2> QED BY <2>2, <2>3, <2>4, <2>5, <2>6, RisksRead
<1>6. ASSUME NEW h \in Handler, Risks!Update(h) PROVE RisksInv'
  <2>1. PICK s, d : s = request[h].of /\ d = request[h]
    OBVIOUS
  <2>2. request[h].op = "update" /\ s \in Risks!Existing /\ s \in Scenario
    BY <1>6, <2>1 DEF Risks!Update, Risks!Existing
  <2>3. PICK row : row = Risks!Updated(scenario[s], d)
    OBVIOUS
  <2> DEFINE r == [op |-> "calculate", of |-> s, parent |-> TRUE]
  <2>4. Turn(h, r) /\ UNCHANGED <<risk, unscored, behind, overlapped>>
    BY <1>0, <1>6, <2>1, <2>2 DEF Risks!Update, Turn
  <2>5. r.op = "calculate" /\ r.of = s /\ r.parent
    OBVIOUS
  <2> HIDE DEF r
  <2>6. ASSUME ~overlapped' PROVE RowsFit' /\ Scoring(r)'
    <3>1. RowsFit /\ Scoring(request[h])
      BY <2>4, <2>6, RisksBefore
    <3>2. scenario[s] \in RiskRow /\ scenario[s].scores.inherent = scenario[s].likelihood * scenario[s].impact
      BY <2>2, <3>1 DEF RowsFit, Risks!Existing, Risks!NoRow
    <3>3. PICK old : old = scenario[s]
      OBVIOUS
    <3>4. /\ d.likelihood \in 0 .. 5 /\ d.impact \in 0 .. 5
          /\ d.inherent = Risks!Given(d.likelihood, old.likelihood) * Risks!Given(d.impact, old.impact)
      BY <2>1, <2>2, <3>1, <3>3 DEF Scoring, ScoresFit
    <3>5. row \in RiskRow /\ row.scores.inherent = row.likelihood * row.impact
      BY <2>3, <3>2, <3>3, <3>4, Updating
    <3>6. scenario' = [scenario EXCEPT ![s] = row]
      BY <1>6, <2>1, <2>3 DEF Risks!Update
    <3>7. /\ RowsFit' /\ \A t \in Scenario : t # s => scenario'[t] = scenario[t]
          /\ \A t \in Risks!Existing' : t # s => t \in Risks!Existing
      BY <2>2, <3>1, <3>5, <3>6, RowWritten
    <3>8. WorstFits(r)'
      BY <2>5 DEF WorstFits, Calculates
    <3>9. \A t \in Risks!Existing' \ unscored' :
            Within(scenario'[t].scores) \/ (Calculates(r) /\ r.of = t)
      BY <2>2, <2>4, <2>5, <3>1, <3>7 DEF Scoring, ScoresFit, Calculates, Risks!Existing
    <3>10. ScoresFit(r)'
      BY <2>5, <3>9 DEF ScoresFit, Calculates
    <3> QED BY <3>7, <3>8, <3>10 DEF Scoring
  <2> QED BY <2>4, <2>6, RisksTurn
<1>7. ASSUME NEW h \in Handler, NEW s \in Scenario, Risks!Delete(h, s) PROVE RisksInv'
  <2> DEFINE r == [op |-> "scan"]
  <2>1. /\ Turn(h, r) /\ request[h].op = "idle" /\ UNCHANGED <<risk, behind>>
        /\ scenario' = [scenario EXCEPT ![s] = Risks!NoRow] /\ unscored' = unscored \ {s}
    BY <1>0, <1>7 DEF Risks!Delete, Turn, Quiet, Idle
  <2>2. r.op = "scan"
    OBVIOUS
  <2> HIDE DEF r
  <2>3. ~Risks!NoRow.exists
    BY DEF Risks!NoRow
  <2>4. ASSUME ~overlapped' PROVE RowsFit' /\ Scoring(r)'
    <3>1. RowsFit /\ Scoring(request[h])
      BY <2>1, <2>4, RisksBefore
    <3>2. PICK row : row = Risks!NoRow
      OBVIOUS
    <3>3. /\ RowsFit' /\ scenario'[s] = row /\ \A t \in Scenario : t # s => scenario'[t] = scenario[t]
          /\ \A t \in Risks!Existing' : t # s => t \in Risks!Existing
      BY <2>1, <2>3, <3>1, <3>2, RowWritten
    <3>4. s \notin Risks!Existing'
      BY <2>3, <3>2, <3>3 DEF Risks!Existing
    <3>5. \A t \in Risks!Existing' \ unscored' : Within(scenario'[t].scores)
      BY <2>1, <3>1, <3>3, <3>4 DEF Scoring, ScoresFit, Calculates, Risks!Existing
    <3> QED BY <2>2, <3>3, <3>5 DEF Scoring, WorstFits, ScoresFit
  <2> QED BY <2>1, <2>4, RisksTurn
<1>8. ASSUME NEW h \in Handler, NEW s \in Scenario, Risks!RecalculateReads(h, s) PROVE RisksInv'
  <2>1. PICK p : p = Risks!Calculated(s)
    OBVIOUS
  <2> DEFINE r == [op |-> "persist", of |-> s, parent |-> FALSE, scores |-> p]
  <2>2. /\ Turn(h, r) /\ request[h].op = "idle" /\ UNCHANGED <<scenario, risk, unscored, behind>>
        /\ s \in Risks!Existing
    BY <1>0, <1>8, <2>1 DEF Risks!RecalculateReads, Turn, Quiet, Idle
  <2>3. r.op = "persist" /\ r.of = s /\ r.scores = p
    OBVIOUS
  <2> HIDE DEF r
  <2>4. ~Calculates(request[h])
    BY <2>2 DEF Calculates
  <2>5. RowsFit => p \in Pair /\ Within(p) /\ p.inherent = scenario[s].likelihood * scenario[s].impact
    <3> SUFFICES ASSUME RowsFit
                 PROVE  p \in Pair /\ Within(p) /\ p.inherent = scenario[s].likelihood * scenario[s].impact
      OBVIOUS
    <3>1. scenario[s] \in RiskRow
      BY <2>2 DEF RowsFit, Risks!Existing, Risks!NoRow
    <3> QED BY <2>1, <3>1, CalculatedWithin
  <2> QED BY <2>2, <2>3, <2>4, <2>5, RisksRead
<1>9. ASSUME NEW h \in Handler, Risks!Calculate(h) PROVE RisksInv'
  <2>1. PICK s, p : s = request[h].of /\ p = Risks!Calculated(s)
    OBVIOUS
  <2> DEFINE r == [op |-> "persist", of |-> s, parent |-> TRUE, scores |-> p]
  <2>2. /\ Turn(h, r) /\ request[h].op = "calculate" /\ UNCHANGED <<scenario, risk, unscored, behind>>
        /\ s \in Risks!Existing /\ s \in Scenario
    BY <1>0, <1>9, <2>1 DEF Risks!Calculate, Turn, Risks!Existing
  <2>3. r.op = "persist" /\ r.of = s /\ r.scores = p /\ r.parent
    OBVIOUS
  <2> HIDE DEF r
  <2>4. ASSUME ~overlapped' PROVE RowsFit' /\ Scoring(r)'
    <3>1. RowsFit /\ Scoring(request[h]) /\ RowsFit'
      BY <1>a, <2>2, <2>4, RisksBefore
    <3>2. scenario[s] \in RiskRow
      BY <2>2, <3>1 DEF RowsFit, Risks!Existing, Risks!NoRow
    <3>3. p \in Pair /\ Within(p) /\ p.inherent = scenario[s].likelihood * scenario[s].impact
      BY <2>1, <2>2, <3>2, CalculatedWithin
    <3>4. WorstFits(r)'
      BY <2>3 DEF WorstFits, Calculates
    <3>5. \A t \in Risks!Existing' \ unscored' : Within(scenario'[t].scores) \/ (Calculates(r) /\ r.of = t)
      BY <1>a, <2>1, <2>2, <2>3, <3>1 DEF Scoring, ScoresFit, Calculates
    <3>6. ScoresFit(r)'
      BY <2>2, <2>3, <3>3, <3>5 DEF ScoresFit, Calculates
    <3> QED BY <3>1, <3>4, <3>6 DEF Scoring
  <2> QED BY <2>2, <2>4, RisksTurn
<1>10. ASSUME NEW h \in Handler, Risks!Persist(h) PROVE RisksInv'
  <2>1. PICK s, p : s = request[h].of /\ p = request[h].scores
    OBVIOUS
  <2>2. PICK r : r = IF request[h].parent THEN [op |-> "scan"] ELSE Idle
    OBVIOUS
  <2>3. /\ Turn(h, r) /\ request[h].op = "persist" /\ UNCHANGED <<risk, overlapped>>
        /\ s \in Risks!Existing /\ s \in Scenario /\ unscored' = unscored \ {s}
        /\ scenario' = [scenario EXCEPT ![s].scores = p]
        /\ behind' = (behind \/ ~request[h].parent)
    BY <1>0, <1>10, <2>1, <2>2 DEF Risks!Persist, Turn, Risks!Existing, Idle
  <2>4. r.op \in {"scan", "idle"} /\ (r.op = "idle" => ~request[h].parent)
    BY <1>0, <2>2
  <2>5. ASSUME ~overlapped' PROVE RowsFit' /\ Scoring(r)'
    <3>1. RowsFit /\ Scoring(request[h])
      BY <2>3, <2>5, RisksBefore
    <3>2. PICK old \in RiskRow : old = scenario[s]
      BY <2>3, <3>1 DEF RowsFit, Risks!Existing, Risks!NoRow
    <3>3. p \in Pair /\ Within(p) /\ p.inherent = old.likelihood * old.impact
      BY <2>1, <2>3, <3>1, <3>2 DEF Scoring, ScoresFit
    <3> DEFINE row == [old EXCEPT !.scores = p]
    <3>4. row \in RiskRow /\ row.scores = p /\ row.likelihood = old.likelihood /\ row.impact = old.impact
      BY <3>3 DEF RiskRow
    <3>5. scenario' = [scenario EXCEPT ![s] = row]
      BY <2>3, <3>1, <3>2 DEF RowsFit
    <3> HIDE DEF row
    <3>6. /\ RowsFit' /\ scenario'[s] = row /\ \A t \in Scenario : t # s => scenario'[t] = scenario[t]
          /\ \A t \in Risks!Existing' : t # s => t \in Risks!Existing
      BY <2>3, <3>1, <3>3, <3>4, <3>5, RowWritten
    <3>7. \A t \in Risks!Existing' \ unscored' : t # s => Within(scenario'[t].scores)
      BY <2>1, <2>3, <3>1, <3>6 DEF Scoring, ScoresFit, Calculates, Risks!Existing
    <3>8. Within(scenario'[s].scores)
      BY <3>3, <3>4, <3>6
    <3>9. ScoresFit(r)'
      BY <2>4, <3>7, <3>8 DEF ScoresFit
    <3>10. WorstFits(r)'
      BY <2>3, <2>4 DEF WorstFits
    <3> QED BY <3>6, <3>9, <3>10 DEF Scoring
  <2> QED BY <2>3, <2>5, RisksTurn
<1>11. ASSUME NEW h \in Handler, Risks!CalculationFails(h) PROVE RisksInv'
  <2> DEFINE r == [op |-> "scan"]
  <2>1. /\ Turn(h, r) /\ Calculates(request[h]) /\ UNCHANGED <<scenario, risk, behind>>
        /\ unscored' = unscored \cup ({request[h].of} \cap Risks!Existing)
    BY <1>0, <1>11 DEF Risks!CalculationFails, Turn, Calculates
  <2>2. r.op = "scan"
    OBVIOUS
  <2> HIDE DEF r
  <2>3. ASSUME ~overlapped' PROVE RowsFit' /\ Scoring(r)'
    <3>1. RowsFit /\ Scoring(request[h]) /\ RowsFit'
      BY <1>a, <2>1, <2>3, RisksBefore
    <3>2. \A t \in Risks!Existing' \ unscored' : Within(scenario'[t].scores)
      BY <1>a, <2>1, <3>1 DEF Scoring, ScoresFit
    <3> QED BY <2>2, <3>1, <3>2 DEF Scoring, WorstFits, ScoresFit
  <2> QED BY <2>1, <2>3, RisksTurn
<1>12. ASSUME NEW h \in Handler, NEW s \in Scenario, Risks!ResidualReads(h, s) PROVE RisksInv'
  <2>1. PICK n : n = scenario[s].likelihood * scenario[s].impact
    OBVIOUS
  <2> DEFINE r == [op |-> "residual", of |-> s, score |-> n]
  <2>2. /\ Turn(h, r) /\ request[h].op = "idle" /\ UNCHANGED <<scenario, risk, unscored, behind>>
    BY <1>0, <1>12, <2>1 DEF Risks!ResidualReads, Turn, Quiet, Idle
  <2>3. r.op = "residual" /\ r.of = s /\ r.score = n
    OBVIOUS
  <2> HIDE DEF r
  <2>4. ~Calculates(request[h])
    BY <2>2 DEF Calculates
  <2>5. r.score = scenario[r.of].likelihood * scenario[r.of].impact
    BY <2>1, <2>3
  <2> QED BY <2>2, <2>3, <2>4, <2>5, RisksRead
<1>13. ASSUME NEW h \in Handler, Risks!Residual(h) PROVE RisksInv'
  <2>1. PICK s, n : s = request[h].of /\ n = request[h].score
    OBVIOUS
  <2> DEFINE r == [op |-> "scan"]
  <2>2. /\ Turn(h, r) /\ request[h].op = "residual" /\ UNCHANGED <<risk, unscored, behind>>
        /\ s \in Risks!Existing /\ s \in Scenario
        /\ scenario' = [scenario EXCEPT ![s].scores.residual = n]
    BY <1>0, <1>13, <2>1 DEF Risks!Residual, Turn, Risks!Existing
  <2>3. r.op = "scan"
    OBVIOUS
  <2> HIDE DEF r
  <2>4. ASSUME ~overlapped' PROVE RowsFit' /\ Scoring(r)'
    <3>1. RowsFit /\ Scoring(request[h])
      BY <2>2, <2>4, RisksBefore
    <3>2. PICK old \in RiskRow : old = scenario[s] /\ old.scores.inherent = old.likelihood * old.impact
      BY <2>2, <3>1 DEF RowsFit, Risks!Existing, Risks!NoRow
    <3>3. n = old.likelihood * old.impact
      BY <2>1, <2>2, <3>1, <3>2 DEF Scoring, ScoresFit
    <3>4. old.scores \in Pair /\ n = old.scores.inherent /\ n \in Nat
      BY <3>2, <3>3 DEF RiskRow, Pair
    <3> DEFINE row == [old EXCEPT !.scores.residual = n]
    <3>5. row \in RiskRow /\ row.scores.residual = n /\ row.scores.inherent = n
          /\ row.likelihood = old.likelihood /\ row.impact = old.impact
      BY <3>4 DEF RiskRow, Pair
    <3>6. scenario' = [scenario EXCEPT ![s] = row]
      BY <2>2, <3>1, <3>2 DEF RowsFit
    <3> HIDE DEF row
    <3>7. /\ RowsFit' /\ scenario'[s] = row /\ \A t \in Scenario : t # s => scenario'[t] = scenario[t]
          /\ \A t \in Risks!Existing' : t # s => t \in Risks!Existing
      BY <2>2, <3>1, <3>3, <3>5, <3>6, RowWritten
    <3>8. \A t \in Risks!Existing' \ unscored' : t # s => Within(scenario'[t].scores)
      BY <2>2, <3>1, <3>7 DEF Scoring, ScoresFit, Calculates, Risks!Existing
    <3>9. Within(scenario'[s].scores)
      BY <3>4, <3>5, <3>7 DEF Within
    <3> QED BY <2>3, <3>7, <3>8, <3>9 DEF Scoring, WorstFits, ScoresFit
  <2> QED BY <2>2, <2>4, RisksTurn
<1>14. ASSUME NEW h \in Handler, Risks!Scan(h) PROVE RisksInv'
  <2>1. PICK w : w = Risks!Worst
    OBVIOUS
  <2> DEFINE r == [op |-> "store", scores |-> w]
  <2>2. Turn(h, r) /\ request[h].op = "scan" /\ UNCHANGED <<scenario, risk, unscored, behind>>
    BY <1>0, <1>14, <2>1 DEF Risks!Scan, Turn
  <2>3. r.op = "store" /\ r.scores = w
    OBVIOUS
  <2> HIDE DEF r
  <2>4. ASSUME ~overlapped' PROVE RowsFit' /\ Scoring(r)'
    <3>1. RowsFit /\ Scoring(request[h]) /\ RowsFit'
      BY <1>a, <2>2, <2>4, RisksBefore
    <3>2. \A t \in Risks!Existing' \ unscored' : Within(scenario'[t].scores)
      BY <1>a, <2>2, <3>1 DEF Scoring, ScoresFit, Calculates
    <3> QED BY <1>a, <2>1, <2>2, <2>3, <3>1, <3>2 DEF Scoring, WorstFits, ScoresFit
  <2> QED BY <2>2, <2>4, RisksTurn
<1>15. ASSUME NEW h \in Handler, Risks!Store(h) PROVE RisksInv'
  <2>1. /\ Turn(h, Idle) /\ request[h].op = "store" /\ UNCHANGED <<scenario, unscored>>
        /\ risk' = request[h].scores
    BY <1>0, <1>15 DEF Risks!Store, Turn, Idle
  <2>2. ASSUME ~overlapped' PROVE RowsFit' /\ Scoring(Idle)'
    <3>1. RowsFit /\ Scoring(request[h]) /\ RowsFit'
      BY <1>a, <2>1, <2>2, RisksBefore
    <3>2. \A t \in Risks!Existing' \ unscored' : Within(scenario'[t].scores)
      BY <1>a, <2>1, <3>1 DEF Scoring, ScoresFit, Calculates
    <3>3. risk' = Risks!Worst'
      BY <1>a, <2>1, <3>1 DEF Scoring, WorstFits
    <3> QED BY <1>0, <3>1, <3>2, <3>3 DEF Scoring, WorstFits, ScoresFit, Idle
  <2> QED BY <2>1, <2>2, RisksTurn DEF Idle
<1>16. ASSUME NEW h \in Handler, Risks!BreaksOff(h) PROVE RisksInv'
  <2>1. /\ Turn(h, Idle) /\ UNCHANGED <<scenario, risk>>
        /\ unscored' = IF Calculates(request[h]) THEN unscored \cup ({request[h].of} \cap Risks!Existing) ELSE unscored
        /\ behind' = (behind \/ Calculates(request[h]) \/ request[h].op \in {"scan", "store"})
    BY <1>16 DEF Risks!BreaksOff, Turn, Calculates, Idle
  <2>2. ASSUME ~overlapped' PROVE RowsFit' /\ Scoring(Idle)'
    <3>1. RowsFit /\ Scoring(request[h]) /\ RowsFit'
      BY <1>a, <2>1, <2>2, RisksBefore
    <3>2. \A t \in Risks!Existing' \ unscored' : Within(scenario'[t].scores)
      BY <1>a, <2>1, <3>1 DEF Scoring, ScoresFit
    <3>3. ~behind' => risk' = Risks!Worst'
      BY <1>a, <2>1, <3>1 DEF Scoring, WorstFits
    <3> QED BY <1>0, <3>1, <3>2, <3>3 DEF Scoring, WorstFits, ScoresFit, Idle
  <2> QED BY <2>1, <2>2, RisksTurn DEF Idle
<1> QED
  BY <1>1, <1>2, <1>3, <1>4, <1>5, <1>6, <1>7, <1>8, <1>9, <1>10, <1>11, <1>12, <1>13, <1>14,
    <1>15, <1>16
     DEF Risks!Next

LEMMA RisksAgree == RisksInv => Risks!RiskIsWorst /\ Risks!ResidualWithinInherent
<1> SUFFICES ASSUME RisksInv, Risks!Quiet, ~overlapped
             PROVE  /\ ~behind => risk = Risks!Worst
                    /\ \A s \in Risks!Existing \ unscored : Within(scenario[s].scores)
  BY DEF Risks!RiskIsWorst, Risks!ResidualWithinInherent, Within
<1>1. Quiet
  BY DEF Risks!Quiet, Risks!Idle, Quiet, Idle
<1>2. Scoring(Idle)
  BY <1>1 DEF RisksInv
<1> QED BY <1>2 DEF Scoring, WorstFits, ScoresFit, Calculates, Idle

LEMMA EvidencesDone ==
  EvidencesInv => Evidences!SubmittedHasEvidence /\ Evidences!ApprovedEvidenceStands
BY DEF EvidencesInv, Shown, Stands, Evidences!SubmittedHasEvidence, Evidences!ApprovedEvidenceStands

LEMMA CreationsDone == CreationsInv => Creations!ExecutedIsComplete /\ Creations!RefusedByRace
<1> SUFFICES ASSUME CreationsInv PROVE Creations!ExecutedIsComplete /\ Creations!RefusedByRace
  OBVIOUS
<1>1. ASSUME NEW a \in Action \ createdDeleted, proposalStatus[a] = "EXECUTED"
      PROVE  \E n \in Creations!Taken : created[n].by = a /\ created[n].parts = wanted[a]
  <2>1. PICK n \in Creations!Reference : Has(n, a, Creations!Part)
    BY <1>1 DEF CreationsInv, Executed
  <2>2. wanted[a] \cap Creations!Part = wanted[a]
    BY <1>1, PayloadsAssumption DEF CreationsInv, Creations!TypeOK, Creations!Part
  <2> QED BY <2>1, <2>2 DEF Has
<1>2. Creations!RefusedByRace
  BY DEF CreationsInv, FreeToCreate, Creations!RefusedByRace
<1> QED BY <1>1, <1>2 DEF Creations!ExecutedIsComplete

(***************************************************************************)
(* The composition.                                                         *)
(***************************************************************************)
\* The invariant of the evidence requests and of the policy creations, where they are the
\* subject; the others' rows are as they were at the start.
PartsDone ==
  /\ IF subject = "evidence" THEN EvidencesInv
     ELSE evidenceRequest = "OPEN" /\ approved = {} /\ edited = {}
  /\ IF subject = "creations" THEN CreationsInv
     ELSE proposalStatus = [a \in Action |-> "PENDING"]

\* What counts as done is there, in every behaviour of the composition: a submitted evidence
\* request has evidence, approved evidence stands, and an executed proposal has its
\* document with all that it asked for.
THEOREM DoneComplete == PartsSpec => []DoneIsComplete
<1>1. PartsInit => PartsDone
  BY EvidencesInit, CreationsInit DEF PartsInit, PartsDone, Evidences!Init,
    Creations!Init
<1>2. PartsDone /\ [PartsNext]_partsVars => PartsDone'
  <2> SUFFICES ASSUME PartsDone, [PartsNext]_partsVars PROVE PartsDone'
    OBVIOUS
  <2>1. subject' = subject
    BY DEF PartsNext, OthersKeep, partsVars
  <2>2. (IF subject = "evidence" THEN EvidencesInv
        ELSE evidenceRequest = "OPEN" /\ approved = {} /\ edited = {})'
    <3>1. CASE subject = "evidence"
      <4>1. [Evidences!Next]_(Evidences!vars)
        BY <3>1 DEF PartsNext, partsVars, evidenceVars, requests,
          Evidences!vars, Evidences!rows, Evidences!history,
          Evidences!requests
      <4> QED BY <2>1, <3>1, <4>1, EvidencesStep DEF PartsDone
    <3>2. CASE subject # "evidence"
      BY <2>1, <3>2 DEF PartsDone, PartsNext, OthersKeep, Keep, partsVars,
        evidenceVars
    <3> QED BY <3>1, <3>2
  <2>3. (IF subject = "creations" THEN CreationsInv
        ELSE proposalStatus = [a \in Action |-> "PENDING"])'
    <3>1. CASE subject = "creations"
      <4>1. [Creations!Next]_(Creations!vars)
        BY <3>1 DEF PartsNext, partsVars, creationVars, requests,
          Creations!vars, Creations!rows, Creations!history,
          Creations!requests
      <4> QED BY <2>1, <3>1, <4>1, CreationsStep DEF PartsDone
    <3>2. CASE subject # "creations"
      BY <2>1, <3>2 DEF PartsDone, PartsNext, OthersKeep, Keep, partsVars,
        creationVars
    <3> QED BY <3>1, <3>2
  <2> QED BY <2>2, <2>3 DEF PartsDone
<1>3. PartsDone => DoneIsComplete
  BY EvidencesDone, CreationsDone DEF PartsDone, DoneIsComplete,
    Evidences!SubmittedHasEvidence, Evidences!ApprovedEvidenceStands,
    Creations!ExecutedIsComplete
<1> QED BY <1>1, <1>2, <1>3, PTL DEF PartsSpec

\* The invariant of the references, the versions and the policy creations, where they are
\* the subject; the others' rows are as they were at the start.
PartsNumbered ==
  /\ IF subject = "references" THEN ReferencesInv
     ELSE refs = {}
  /\ IF subject = "versions" THEN VersionsInv
     ELSE versions = <<>>
  /\ IF subject = "creations" THEN CreationsInv
     ELSE refused = FALSE

\* The numbers given out are free, in every behaviour of the composition: the next reference
\* of a table, the numbers of a policy's versions, the reference of a policy.
THEOREM NumbersFree == PartsSpec => []NumbersAreFree
<1>1. PartsInit => PartsNumbered
  BY ReferencesInit, VersionsInit, CreationsInit DEF PartsInit, PartsNumbered,
    References!Init, Versions!Init, Creations!Init
<1>2. PartsNumbered /\ [PartsNext]_partsVars => PartsNumbered'
  <2> SUFFICES ASSUME PartsNumbered, [PartsNext]_partsVars PROVE PartsNumbered'
    OBVIOUS
  <2>1. subject' = subject
    BY DEF PartsNext, OthersKeep, partsVars
  <2>2. (IF subject = "references" THEN ReferencesInv
        ELSE refs = {})'
    <3>1. CASE subject = "references"
      <4>1. [References!Next]_(References!vars)
        BY <3>1 DEF PartsNext, partsVars, referenceVars, requests,
          References!vars, References!rows, References!requests
      <4> QED BY <2>1, <3>1, <4>1, ReferencesStep DEF PartsNumbered
    <3>2. CASE subject # "references"
      BY <2>1, <3>2 DEF PartsNumbered, PartsNext, OthersKeep, Keep, partsVars,
        referenceVars
    <3> QED BY <3>1, <3>2
  <2>3. (IF subject = "versions" THEN VersionsInv
        ELSE versions = <<>>)'
    <3>1. CASE subject = "versions"
      <4>1. [Versions!Next]_(Versions!vars)
        BY <3>1 DEF PartsNext, partsVars, versionVars, requests,
          Versions!vars, Versions!rows, Versions!history, Versions!requests
      <4> QED BY <2>1, <3>1, <4>1, VersionsStep DEF PartsNumbered
    <3>2. CASE subject # "versions"
      BY <2>1, <3>2 DEF PartsNumbered, PartsNext, OthersKeep, Keep, partsVars,
        versionVars
    <3> QED BY <3>1, <3>2
  <2>4. (IF subject = "creations" THEN CreationsInv
        ELSE refused = FALSE)'
    <3>1. CASE subject = "creations"
      <4>1. [Creations!Next]_(Creations!vars)
        BY <3>1 DEF PartsNext, partsVars, creationVars, requests,
          Creations!vars, Creations!rows, Creations!history,
          Creations!requests
      <4> QED BY <2>1, <3>1, <4>1, CreationsStep DEF PartsNumbered
    <3>2. CASE subject # "creations"
      BY <2>1, <3>2 DEF PartsNumbered, PartsNext, OthersKeep, Keep, partsVars,
        creationVars
    <3> QED BY <3>1, <3>2
  <2> QED BY <2>2, <2>3, <2>4 DEF PartsNumbered
<1>3. PartsNumbered => NumbersAreFree
  BY ReferencesFree, VersionsApart, CreationsDone DEF PartsNumbered,
    NumbersAreFree, References!NextIsFree, Versions!VersionsDistinct,
    Creations!RefusedByRace
<1> QED BY <1>1, <1>2, <1>3, PTL DEF PartsSpec

\* What has no rows agrees with them.
LEMMA NothingDiffers ==
  /\ attempts = 0 /\ streak = 0 => Sessions!FailuresCounted
  /\ stats = Assessments!Summary => Assessments!StatsAgree
  /\ incidentStatus = "DETECTED" /\ timeline = [to |-> "DETECTED", chained |-> TRUE] =>
       IncidentRows!TimelineLeadsHere /\ IncidentRows!PhasesAreStamped
  /\ versions = <<>> => Versions!NewestIsCurrent
  /\ due /\ answered = [q \in Scopes!Regulation |-> {}] => Scopes!ScopeAgrees /\ Scopes!AnswerStands
  /\ task = [t \in Task |-> "ABSENT"] => Plans!ProgressIsShare
  /\ scenario = [s \in Scenario |-> Risks!NoRow] /\ risk = Risks!NoScores =>
       Risks!RiskIsWorst /\ Risks!ResidualWithinInherent
<1>1. attempts = 0 /\ streak = 0 => Sessions!FailuresCounted
  BY AttemptsAssumption DEF Sessions!FailuresCounted
<1>2. stats = Assessments!Summary => Assessments!StatsAgree
  BY DEF Assessments!StatsAgree
<1>3. incidentStatus = "DETECTED" /\ timeline = [to |-> "DETECTED", chained |-> TRUE] =>
        IncidentRows!TimelineLeadsHere /\ IncidentRows!PhasesAreStamped
  BY DEF IncidentRows!TimelineLeadsHere, IncidentRows!PhasesAreStamped, IncidentRows!Expected
<1>4. versions = <<>> => Versions!NewestIsCurrent
  BY DEF Versions!NewestIsCurrent
<1>5. due /\ answered = [q \in Scopes!Regulation |-> {}] => Scopes!ScopeAgrees /\ Scopes!AnswerStands
  BY DEF Scopes!ScopeAgrees, Scopes!AnswerStands
<1>6. task = [t \in Task |-> "ABSENT"] => Plans!ProgressIsShare
  BY DEF Plans!ProgressIsShare, Plans!Existing
<1>7. scenario = [s \in Scenario |-> Risks!NoRow] /\ risk = Risks!NoScores =>
        Risks!RiskIsWorst /\ Risks!ResidualWithinInherent
  <2> SUFFICES ASSUME scenario = [s \in Scenario |-> Risks!NoRow], risk = Risks!NoScores
               PROVE  Risks!RiskIsWorst /\ Risks!ResidualWithinInherent
    OBVIOUS
  <2>1. Risks!Existing = {}
    BY DEF Risks!Existing, Risks!NoRow
  <2> QED BY <2>1, NothingScored DEF Risks!RiskIsWorst, Risks!ResidualWithinInherent
<1> QED BY <1>1, <1>2, <1>3, <1>4, <1>5, <1>6, <1>7

\* The invariants of the components that store what follows from other rows, where they are
\* the subject; the others' rows are as they were at the start.
PartsAgree ==
  /\ IF subject = "sessions" THEN FailuresInv
     ELSE attempts = 0 /\ streak = 0
  /\ IF subject = "assessments" THEN AssessmentsInv
     ELSE stats = Assessments!Summary
  /\ IF subject = "incidents" THEN IncidentsInv
     ELSE incidentStatus = "DETECTED" /\ timeline = [to |-> "DETECTED", chained |-> TRUE]
  /\ IF subject = "versions" THEN CurrentInv
     ELSE versions = <<>>
  /\ IF subject = "scopes" THEN ScopesInv
     ELSE due /\ answered = [q \in Scopes!Regulation |-> {}]
  /\ IF subject = "plans" THEN SharesInv
     ELSE task = [t \in Task |-> "ABSENT"]
  /\ IF subject = "risks" THEN RisksInv
     ELSE scenario = [s \in Scenario |-> Risks!NoRow] /\ risk = Risks!NoScores

\* What is stored of other rows agrees with them, in every behaviour of the composition: a
\* plan's progress, an assessment's counters, a risk's scores, the count of failed sign-ins, a
\* policy's newest version, an incident's timeline (unless somebody wrote in it by hand) and its
\* timestamps, the scope of a regulation and the answer it follows (unless its profile or its
\* assessment was written without the other).
THEOREM Agree == PartsSpec => []AggregatesAgree
<1>1. PartsInit => PartsAgree
  BY FailuresInit, AssessmentsInit, IncidentsInit, CurrentInit, ScopesInit,
    SharesInit, RisksInit DEF PartsInit, PartsAgree, Sessions!Init,
    Assessments!Init, IncidentRows!Init, Versions!Init, Scopes!Init,
    Plans!Init, Risks!Init
<1>2. PartsAgree /\ [PartsNext]_partsVars => PartsAgree'
  <2> SUFFICES ASSUME PartsAgree, [PartsNext]_partsVars PROVE PartsAgree'
    OBVIOUS
  <2>1. subject' = subject
    BY DEF PartsNext, OthersKeep, partsVars
  <2>2. (IF subject = "sessions" THEN FailuresInv
        ELSE attempts = 0 /\ streak = 0)'
    <3>1. CASE subject = "sessions"
      <4>1. [Sessions!Next]_(Sessions!vars)
        BY <3>1 DEF PartsNext, partsVars, sessionVars, requests,
          Sessions!vars, Sessions!rows, Sessions!history, Sessions!requests
      <4> QED BY <2>1, <3>1, <4>1, FailuresStep DEF PartsAgree
    <3>2. CASE subject # "sessions"
      BY <2>1, <3>2 DEF PartsAgree, PartsNext, OthersKeep, Keep, partsVars,
        sessionVars
    <3> QED BY <3>1, <3>2
  <2>3. (IF subject = "assessments" THEN AssessmentsInv
        ELSE stats = Assessments!Summary)'
    <3>1. CASE subject = "assessments"
      <4>1. [Assessments!Next]_(Assessments!vars)
        BY <3>1 DEF PartsNext, partsVars, assessmentVars, requests,
          Assessments!vars, Assessments!rows, Assessments!requests
      <4> QED BY <2>1, <3>1, <4>1, AssessmentsStep DEF PartsAgree
    <3>2. CASE subject # "assessments"
      <4>1. UNCHANGED <<test, result, stats>>
        BY <2>1, <3>2 DEF PartsNext, OthersKeep, Keep, partsVars, assessmentVars
      <4>2. Assessments!Summary' = Assessments!Summary
        BY <4>1 DEF Assessments!Summary, Assessments!Count
      <4> QED BY <2>1, <3>2, <4>1, <4>2 DEF PartsAgree
    <3> QED BY <3>1, <3>2
  <2>4. (IF subject = "incidents" THEN IncidentsInv
        ELSE incidentStatus = "DETECTED" /\ timeline = [to |-> "DETECTED", chained |-> TRUE])'
    <3>1. CASE subject = "incidents"
      <4>1. [IncidentRows!Next]_(IncidentRows!vars)
        BY <3>1 DEF PartsNext, partsVars, incidentVars, requests,
          IncidentRows!vars, IncidentRows!rows, IncidentRows!history, IncidentRows!requests
      <4> QED BY <2>1, <3>1, <4>1, IncidentsStep DEF PartsAgree
    <3>2. CASE subject # "incidents"
      BY <2>1, <3>2 DEF PartsAgree, PartsNext, OthersKeep, Keep, partsVars,
        incidentVars
    <3> QED BY <3>1, <3>2
  <2>5. (IF subject = "versions" THEN CurrentInv
        ELSE versions = <<>>)'
    <3>1. CASE subject = "versions"
      <4>1. [Versions!Next]_(Versions!vars)
        BY <3>1 DEF PartsNext, partsVars, versionVars, requests,
          Versions!vars, Versions!rows, Versions!history, Versions!requests
      <4> QED BY <2>1, <3>1, <4>1, CurrentStep DEF PartsAgree
    <3>2. CASE subject # "versions"
      BY <2>1, <3>2 DEF PartsAgree, PartsNext, OthersKeep, Keep, partsVars,
        versionVars
    <3> QED BY <3>1, <3>2
  <2>6. (IF subject = "scopes" THEN ScopesInv
        ELSE due /\ answered = [q \in Scopes!Regulation |-> {}])'
    <3>1. CASE subject = "scopes"
      <4>1. [Scopes!Next]_(Scopes!vars)
        BY <3>1 DEF PartsNext, partsVars, scopeVars, requests, Scopes!vars,
          Scopes!rows, Scopes!assessment, Scopes!history, Scopes!requests
      <4> QED BY <2>1, <3>1, <4>1, ScopesStep DEF PartsAgree
    <3>2. CASE subject # "scopes"
      <4>1. UNCHANGED <<due, answered>>
        BY <2>1, <3>2 DEF PartsNext, OthersKeep, Keep, partsVars, scopeVars
      <4> QED BY <2>1, <3>2, <4>1 DEF PartsAgree, Scopes!Regulation
    <3> QED BY <3>1, <3>2
  <2>7. (IF subject = "plans" THEN SharesInv
        ELSE task = [t \in Task |-> "ABSENT"])'
    <3>1. CASE subject = "plans"
      <4>1. [Plans!Next]_(Plans!vars)
        BY <3>1 DEF PartsNext, partsVars, planVars, requests, Plans!vars,
          Plans!rows, Plans!requests
      <4> QED BY <2>1, <3>1, <4>1, SharesStep DEF PartsAgree
    <3>2. CASE subject # "plans"
      BY <2>1, <3>2 DEF PartsAgree, PartsNext, OthersKeep, Keep, partsVars,
        planVars
    <3> QED BY <3>1, <3>2
  <2>8. (IF subject = "risks" THEN RisksInv
        ELSE scenario = [s \in Scenario |-> Risks!NoRow] /\ risk = Risks!NoScores)'
    <3>1. CASE subject = "risks"
      <4>1. [Risks!Next]_(Risks!vars)
        BY <3>1 DEF PartsNext, partsVars, riskVars, requests, Risks!vars,
          Risks!rows, Risks!requests
      <4> QED BY <2>1, <3>1, <4>1, RisksStep DEF PartsAgree
    <3>2. CASE subject # "risks"
      BY <2>1, <3>2 DEF PartsAgree, PartsNext, OthersKeep, Keep, partsVars,
        riskVars
    <3> QED BY <3>1, <3>2
  <2> QED BY <2>2, <2>3, <2>4, <2>5, <2>6, <2>7, <2>8 DEF PartsAgree
<1>3. PartsAgree => AggregatesAgree
  BY NothingDiffers, FailuresAgree, AssessmentsAgree, IncidentsAgree, NewestAgrees,
    ScopesAgree, SharesAgree, RisksAgree DEF PartsAgree, AggregatesAgree
<1> QED BY <1>1, <1>2, <1>3, PTL DEF PartsSpec

=============================================================================
