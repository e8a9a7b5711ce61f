------------------------ MODULE PolicyApprovalProofs ------------------------
(***************************************************************************)
(* Proofs about PolicyApproval, for every number of workflows, whatever     *)
(* orders their steps have, for every number of delegations and overlapping *)
(* requests: no workflow approves a document past a step, and none that has *)
(* a first step is left in progress without a reviewer.                     *)
(***************************************************************************)
EXTENDS PolicyApproval, TLAPS

(***************************************************************************)
(* The inductive invariant.                                                 *)
(***************************************************************************)
\* Every order up to o was posted for workflow w, and those before it are signed, unless a
\* step that was still PENDING was delegated.
Reached(w, o) ==
  \/ handed[w] = "also pending"
  \/ \A p \in 1 .. Steps : (p < o => <<w, p>> \in signed) /\ (p <= o => p \in Orders(w))

\* A step that has begun was reached.
BegunReached ==
  \A s \in Row : step[s] \notin {"ABSENT", "PENDING"} => Reached(Wf(s), Order(s))

\* Steps belong to a workflow that was created with one of their order, and those it was
\* created with are not deleted.
RowsPosted ==
  /\ \A w \in Workflow : workflow[w] = "ABSENT" =>
       \A s \in Row : Wf(s) = w => step[s] = "ABSENT"
  /\ \A w \in Workflow : \A s \in posted[w] : Wf(s) = w /\ step[s] # "ABSENT"
  /\ \A s \in Row : step[s] # "ABSENT" => Order(s) \in Orders(Wf(s))

\* What a request acts upon still holds, however long ago it was read.
StillHolds(r) ==
  /\ r.op \in {"decide", "delegate", "clone"} => step[r.step] # "ABSENT"
  /\ r.op \in {"decide", "clone"} => Reached(Wf(r.step), Order(r.step))
  /\ r.op = "decide" =>
       IF r.next = NoStep THEN Order(r.step) + 1 \notin Orders(Wf(r.step))
       ELSE /\ Wf(r.next) = Wf(r.step) /\ Order(r.next) = Order(r.step) + 1
            /\ Order(r.next) \in Orders(Wf(r.step))

RequestsStand == \A h \in Handler : StillHolds(request[h])

Inv ==
  /\ TypeOK
  /\ BegunReached
  /\ RowsPosted
  /\ RequestsStand
  /\ SignedThroughout
  /\ Decidable

(***************************************************************************)
(* Requests and rows.                                                       *)
(***************************************************************************)
\* What a request carries, by what it does next.
LEMMA Carried ==
  ASSUME NEW r \in Request
  PROVE  /\ r.op \in {"decide", "delegate", "clone"} => r.step \in Row
         /\ r.op = "decide" => r.next \in Row \cup {NoStep}
         /\ r.op = "cancel" => r.workflow \in Workflow
BY DEF Request

\* The parts of a row.
LEMMA RowParts ==
  ASSUME NEW s \in Row
  PROVE  Wf(s) \in Workflow /\ Order(s) \in 1 .. Steps
BY DEF Row, Wf, Order

\* Orders are numbers that follow one another.
LEMMA OneMore ==
  ASSUME NEW a \in 1 .. Steps, NEW p \in 1 .. Steps
  PROVE  /\ p < a + 1 => p < a \/ p = a
         /\ p <= a + 1 => p <= a \/ p = a + 1
         /\ p < a \/ p = a \/ a + 1 \in 1 .. p
         /\ 1 \in 1 .. Steps /\ 1 <= a
BY StepsAssumption

\* The rows of a workflow, and the steps it was created with.
LEMMA RowsOf ==
  ASSUME NEW w \in Workflow
  PROVE  /\ \A s \in StepsOf(w) : s \in Row /\ Wf(s) = w
         /\ TypeOK => posted[w] \subseteq Row
BY DEF StepsOf, TypeOK

\* Signatures are not taken back, a workflow that may jump may always, and the steps it
\* was created with do not change.
Grows ==
  /\ signed \subseteq signed'
  /\ \A w \in Workflow : handed[w] = "also pending" => handed'[w] = "also pending"
  /\ \A w \in Workflow : posted[w] # {} => posted'[w] = posted[w]

LEMMA OrdersStay ==
  ASSUME Grows, NEW w \in Workflow, Orders(w) # {}
  PROVE  Orders(w)' = Orders(w)
<1>1. posted'[w] = posted[w]
  BY DEF Grows, Orders
<1> QED BY <1>1 DEF Orders, Order

LEMMA ReachedGrows ==
  ASSUME Grows, NEW w \in Workflow, NEW o
  PROVE  /\ Reached(w, o) => Reached(w, o)'
         /\ FullySigned(w) => FullySigned(w)'
<1>1. ASSUME Reached(w, o) PROVE Reached(w, o)'
  <2>1. CASE handed[w] = "also pending"
    BY <2>1 DEF Grows, Reached
  <2>2. CASE \A p \in 1 .. Steps :
               (p < o => <<w, p>> \in signed) /\ (p <= o => p \in Orders(w))
    <3> SUFFICES ASSUME NEW p \in 1 .. Steps
                 PROVE  (p < o => <<w, p>> \in signed') /\ (p <= o => p \in Orders(w)')
      BY DEF Reached
    <3>1. p < o => <<w, p>> \in signed'
      BY <2>2 DEF Grows
    <3>2. ASSUME p <= o PROVE p \in Orders(w)'
      <4>1. p \in Orders(w)
        BY <2>2, <3>2
      <4> QED BY <4>1, OrdersStay
    <3> QED BY <3>1, <3>2
  <2> QED BY <1>1, <2>1, <2>2 DEF Reached
<1>2. ASSUME FullySigned(w) PROVE FullySigned(w)'
  <2>1. CASE handed[w] = "also pending"
    BY <2>1 DEF Grows, FullySigned
  <2>2. CASE 1 \in Orders(w)
    <3>1. Orders(w)' = Orders(w)
      BY <2>2, OrdersStay
    <3> QED BY <1>2, <3>1 DEF Grows, FullySigned
  <2> QED BY <1>2, <2>1, <2>2 DEF FullySigned
<1> QED BY <1>1, <1>2

(***************************************************************************)
(* Initial states.                                                          *)
(***************************************************************************)
LEMMA InitInv == Init => Inv
<1> SUFFICES ASSUME Init PROVE Inv
  OBVIOUS
<1>1. TypeOK
  <2>1. Idle \in Request
    BY DEF Idle, Request
  <2>2. request \in [Handler -> Request] /\ overlapped \in BOOLEAN
    BY <2>1 DEF Init, RequestsInit
  <2>3. 1 \in 1 .. Steps
    BY StepsAssumption
  <2>4. /\ workflow \in [Workflow -> Status]
        /\ current \in [Workflow -> 1 .. Steps]
        /\ step \in [Row -> StepStatus]
        /\ handed \in [Workflow -> Handed]
    BY <2>3 DEF Init, Status, StepStatus, Handed
  <2>5. posted \in [Workflow -> SUBSET Row]
    BY DEF Init
  <2> QED BY <2>2, <2>4, <2>5 DEF Init, TypeOK, DocumentStatus
<1> USE DEF Init, RequestsInit, Idle
<1>2. BegunReached /\ RowsPosted
  BY DEF BegunReached, RowsPosted, TypeOK
<1>3. RequestsStand
  BY DEF RequestsStand, StillHolds
<1>4. SignedThroughout /\ Decidable
  BY DEF SignedThroughout, Decidable
<1> QED BY <1>1, <1>2, <1>3, <1>4 DEF Inv

(***************************************************************************)
(* Types.                                                                   *)
(***************************************************************************)
\* A request that is set to a request leaves requests.
LEMMA RequestTyped ==
  ASSUME request \in [Handler -> Request], NEW h \in Handler, NEW r \in Request,
         request' = [request EXCEPT ![h] = r]
  PROVE  request' \in [Handler -> Request]
OBVIOUS

LEMMA StepTypeOK == TypeOK /\ [Next]_vars => TypeOK'
<1> SUFFICES ASSUME TypeOK, [Next]_vars PROVE TypeOK'
  OBVIOUS
<1> USE DEF rows, history, Status, Active, StepStatus, DocumentStatus
<1>idle. Idle \in Request
  BY DEF Idle, Request
<1>typed. request \in [Handler -> Request] /\ overlapped \in BOOLEAN
  BY DEF TypeOK
<1>1. CASE UNCHANGED vars
  BY <1>1 DEF vars, requests, TypeOK
<1>2. ASSUME NEW h \in Handler, CreateReads(h) PROVE TypeOK'
  <2>1. [op |-> "create"] \in Request
    BY DEF Request
  <2>2. request' \in [Handler -> Request] /\ overlapped' \in BOOLEAN
    BY <1>2, <2>1, <1>typed, RequestTyped DEF CreateReads, Reads
  <2> QED BY <1>2, <2>2 DEF CreateReads, TypeOK
<1>3. ASSUME NEW h \in Handler, NEW w \in Workflow, NEW S \in SUBSET StepsOf(w), Create(h, w, S)
      PROVE  TypeOK'
  <2>1. request' \in [Handler -> Request] /\ overlapped' \in BOOLEAN
    BY <1>3, <1>idle, <1>typed, RequestTyped DEF Create, Answers, Continues
  <2>2. step' \in [Row -> StepStatus]
    BY <1>3 DEF Create, TypeOK, Initial
  <2>3. posted' \in [Workflow -> SUBSET Row]
    <3>1. S \in SUBSET Row /\ posted \in [Workflow -> SUBSET Row]
      BY DEF StepsOf, TypeOK
    <3> QED BY <1>3, <3>1 DEF Create
  <2> QED BY <1>3, <2>1, <2>2, <2>3 DEF Create, TypeOK
<1>4. ASSUME NEW h \in Handler, NEW s \in Row, DecisionReads(h, s) PROVE TypeOK'
  <2>1. PICK next \in Row \cup {NoStep} : Reads(h, [op |-> "decide", step |-> s, next |-> next])
    BY <1>4 DEF DecisionReads, Following
  <2>2. [op |-> "decide", step |-> s, next |-> next] \in Request
    BY DEF Request
  <2>3. request' \in [Handler -> Request] /\ overlapped' \in BOOLEAN
    BY <2>1, <2>2, <1>typed, RequestTyped DEF Reads
  <2> QED BY <1>4, <2>3 DEF DecisionReads, TypeOK
<1>5. ASSUME NEW h \in Handler, Decides(h),
             Advance(h) \/ Finish(h) \/ Reject(h) \/ RequestChanges(h)
      PROVE  TypeOK'
  <2>1. request' \in [Handler -> Request] /\ overlapped' \in BOOLEAN
    BY <1>5, <1>idle, <1>typed, RequestTyped DEF Decides, Answers, Continues
  <2>2. request[h].step \in Row /\ request[h].next \in Row \cup {NoStep}
    BY <1>5, <1>typed, Carried DEF Decides, Serves
  <2>3. Wf(request[h].step) \in Workflow /\ Order(request[h].step) \in 1 .. Steps
    BY <2>2, RowParts
  <2>4. ASSUME Advance(h) PROVE TypeOK'
    <3>1. request[h].next \in Row /\ Order(request[h].next) \in 1 .. Steps
      BY <2>2, <2>4, RowParts DEF Advance
    <3> QED BY <1>5, <2>1, <2>2, <2>3, <2>4, <3>1 DEF Advance, Decides, Sign, TypeOK
  <2>5. ASSUME Finish(h) PROVE TypeOK'
    <3>1. /\ workflow' \in [Workflow -> Status] /\ step' \in [Row -> StepStatus]
          /\ signed' \subseteq Workflow \X (1 .. Steps)
      BY <2>2, <2>3, <2>5 DEF Finish, Sign, TypeOK
    <3> QED BY <1>5, <2>1, <2>5, <3>1 DEF Finish, Decides, TypeOK
  <2>6. ASSUME Reject(h) PROVE TypeOK'
    BY <1>5, <2>1, <2>2, <2>3, <2>6 DEF Reject, Decides, TypeOK
  <2>7. ASSUME RequestChanges(h) PROVE TypeOK'
    BY <1>5, <2>1, <2>2, <2>3, <2>7 DEF RequestChanges, Decides, TypeOK
  <2> QED BY <1>5, <2>4, <2>5, <2>6, <2>7
<1>6. ASSUME NEW h \in Handler, NEW s \in Row, DelegationReads(h, s) PROVE TypeOK'
  <2>1. [op |-> "delegate", step |-> s] \in Request
    BY DEF Request
  <2>2. request' \in [Handler -> Request] /\ overlapped' \in BOOLEAN
    BY <1>6, <2>1, <1>typed, RequestTyped DEF DelegationReads, Reads
  <2> QED BY <1>6, <2>2 DEF DelegationReads, TypeOK
<1>7. ASSUME NEW h \in Handler, Delegate(h) PROVE TypeOK'
  <2>1. request[h].step \in Row
    BY <1>7, <1>typed, Carried DEF Delegate, Serves
  <2>2. [op |-> "clone", step |-> request[h].step] \in Request
    BY <2>1 DEF Request
  <2>3. request' \in [Handler -> Request] /\ overlapped' \in BOOLEAN
    BY <1>7, <2>2, <1>typed, RequestTyped DEF Delegate, Continues
  <2>4. handed' \in [Workflow -> Handed]
    BY <1>7 DEF Delegate, HandedOn, Handed, TypeOK
  <2> QED BY <1>7, <2>1, <2>3, <2>4 DEF Delegate, TypeOK
<1>8. ASSUME NEW h \in Handler, NEW t \in Row, Clone(h, t) PROVE TypeOK'
  <2>1. request' \in [Handler -> Request] /\ overlapped' \in BOOLEAN
    BY <1>8, <1>idle, <1>typed, RequestTyped DEF Clone, Answers, Continues
  <2> QED BY <1>8, <2>1 DEF Clone, TypeOK
<1>9. ASSUME NEW h \in Handler, NEW w \in Workflow, CancelReads(h, w) PROVE TypeOK'
  <2>1. [op |-> "cancel", workflow |-> w] \in Request
    BY DEF Request
  <2>2. request' \in [Handler -> Request] /\ overlapped' \in BOOLEAN
    BY <1>9, <2>1, <1>typed, RequestTyped DEF CancelReads, Reads
  <2> QED BY <1>9, <2>2 DEF CancelReads, TypeOK
<1>10. ASSUME NEW h \in Handler, Cancel(h) PROVE TypeOK'
  <2>1. request' \in [Handler -> Request] /\ overlapped' \in BOOLEAN
    BY <1>10, <1>idle, <1>typed, RequestTyped DEF Cancel, Answers, Continues
  <2> QED BY <1>10, <2>1 DEF Cancel, TypeOK
<1>11. ASSUME NEW h \in Handler, BreaksOff(h) PROVE TypeOK'
  <2>1. request' \in [Handler -> Request] /\ overlapped' \in BOOLEAN
    BY <1>11, <1>idle, <1>typed, RequestTyped DEF BreaksOff, Answers, Continues
  <2>2. Serves(h, "clone") => Wf(request[h].step) \in Workflow
    BY <1>typed, Carried, RowParts DEF Serves
  <2> QED BY <1>11, <2>1, <2>2 DEF BreaksOff, TypeOK
<1>12. CASE FindStale
  BY <1>12 DEF FindStale, requests, TypeOK
<1>13. ASSUME NEW w \in Workflow, Escalate(w) \/ EscalationFails(w) PROVE TypeOK'
  BY <1>13 DEF Escalate, EscalationFails, requests, TypeOK
<1>14. ASSUME NEW status \in DocumentStatus, UpdateStatus(status) PROVE TypeOK'
  BY <1>14, <1>typed DEF UpdateStatus, AtOnce, TypeOK
<1> QED
  BY <1>1, <1>2, <1>3, <1>4, <1>5, <1>6, <1>7, <1>8, <1>9, <1>10, <1>11, <1>12, <1>13, <1>14
  DEF Next, Advance, Finish, Reject, RequestChanges

(***************************************************************************)
(* What a step leaves as it was, by conjunct of the invariant.              *)
(***************************************************************************)
\* Steps are not deleted.
RowsStay == \A s \in Row : step[s] # "ABSENT" => step'[s] # "ABSENT"

\* Requests that a step leaves alone still stand, the one it moves on has to.
LEMMA RequestsStandOn ==
  ASSUME TypeOK, RequestsStand, RowsPosted, Grows, RowsStay,
         NEW h \in Handler, NEW r \in Request, StillHolds(r)',
         request' = [request EXCEPT ![h] = r]
  PROVE  RequestsStand'
<1> SUFFICES ASSUME NEW g \in Handler PROVE StillHolds(request[g])'
  BY DEF RequestsStand
<1>1. request \in [Handler -> Request]
  BY DEF TypeOK
<1>2. CASE g = h
  <2>1. request'[g] = r
    BY <1>1, <1>2
  <2> DEFINE q == request[g]
  <2>2. ASSUME q'.op \in {"decide", "clone"} PROVE Reached(Wf(q.step), Order(q.step))'
    BY <2>1, <2>2 DEF StillHolds, Reached, Orders, Wf, Order
  <2>3. ASSUME q'.op = "decide", q'.next = NoStep
        PROVE  (Order(q.step) + 1 \notin Orders(Wf(q.step)))'
    BY <2>1, <2>3 DEF StillHolds, Orders, Wf, Order
  <2>4. ASSUME q'.op = "decide", q'.next # NoStep
        PROVE  (/\ Wf(q.next) = Wf(q.step) /\ Order(q.next) = Order(q.step) + 1
                /\ Order(q.next) \in Orders(Wf(q.step)))'
    BY <2>1, <2>4 DEF StillHolds, Orders, Wf, Order
  <2>5. q'.op \in {"decide", "delegate", "clone"} => step'[q'.step] # "ABSENT"
    BY <2>1 DEF StillHolds
  <2> QED BY <2>2, <2>3, <2>4, <2>5 DEF StillHolds
<1>3. CASE g # h
  <2>1. request'[g] = request[g] /\ StillHolds(request[g]) /\ request[g] \in Request
    BY <1>1, <1>3 DEF RequestsStand
  <2>2. request[g].op \in {"decide", "delegate", "clone"} => request[g].step \in Row
    BY <2>1, Carried
  <2>3. request[g].op \in {"decide", "delegate", "clone"} => step'[request[g].step] # "ABSENT"
    BY <2>1, <2>2 DEF StillHolds, RowsStay
  <2>4. ASSUME request[g].op \in {"decide", "clone"}
        PROVE  /\ Reached(Wf(request[g].step), Order(request[g].step))'
               /\ Orders(Wf(request[g].step))' = Orders(Wf(request[g].step))
    <3> DEFINE s == request[g].step
    <3>1. s \in Row /\ Wf(s) \in Workflow /\ Reached(Wf(s), Order(s)) /\ step[s] # "ABSENT"
      BY <2>1, <2>2, <2>4, RowParts DEF StillHolds
    <3>2. Order(s) \in Orders(Wf(s))
      BY <3>1 DEF RowsPosted
    <3>3. s' = s
      BY <2>1
    <3> HIDE DEF s
    <3>4. Orders(Wf(s))' = Orders(Wf(s))
      <4>1. \A w \in Workflow : Orders(w) # {} => Orders(w)' = Orders(w)
        BY OrdersStay
      <4> QED BY <3>1, <3>2, <3>3, <4>1 DEF Orders, Wf, Order
    <3>5. Reached(Wf(s), Order(s))'
      <4>1. \A w \in Workflow : \A o : Reached(w, o) => Reached(w, o)'
        BY ReachedGrows
      <4> QED BY <3>1, <3>3, <4>1 DEF Reached, Orders, Wf, Order
    <3> QED BY <3>4, <3>5 DEF s
  <2> QED BY <2>1, <2>3, <2>4 DEF StillHolds, Reached, Orders, Wf, Order
<1> QED BY <1>2, <1>3

\* Idle requests stand.
LEMMA IdleStands == Idle \in Request /\ StillHolds(Idle)'
BY DEF Idle, Request, StillHolds

LEMMA BegunReachedOn ==
  ASSUME BegunReached, Grows,
         \A s \in Row : step'[s] \notin {"ABSENT", "PENDING"} =>
           step[s] \notin {"ABSENT", "PENDING"} \/ Reached(Wf(s), Order(s))'
  PROVE  BegunReached'
<1> SUFFICES ASSUME NEW s \in Row, step'[s] \notin {"ABSENT", "PENDING"}
             PROVE  Reached(Wf(s), Order(s))'
  BY DEF BegunReached
<1>1. CASE step[s] \notin {"ABSENT", "PENDING"}
  <2>1. Reached(Wf(s), Order(s)) /\ Wf(s) \in Workflow
    BY <1>1, RowParts DEF BegunReached
  <2>2. Reached(Wf(s), Order(s))'
    <3>1. \A w \in Workflow : \A o : Reached(w, o) => Reached(w, o)'
      BY ReachedGrows
    <3> QED BY <2>1, <3>1 DEF Reached, Orders, Wf, Order
  <2> QED BY <2>2
<1> QED BY <1>1

LEMMA RowsPostedOn ==
  ASSUME TypeOK, RowsPosted, posted' = posted,
         \A w \in Workflow : workflow'[w] = "ABSENT" => workflow[w] = "ABSENT",
         \A s \in Row : step'[s] # step[s] =>
           /\ step'[s] # "ABSENT"
           /\ \E t \in Row : Wf(t) = Wf(s) /\ Order(t) = Order(s) /\ step[t] # "ABSENT"
  PROVE  RowsPosted'
<1>1. ASSUME NEW w \in Workflow, workflow'[w] = "ABSENT", NEW s \in Row, Wf(s) = w
      PROVE  step'[s] = "ABSENT"
  BY <1>1 DEF RowsPosted
<1>2. ASSUME NEW w \in Workflow, NEW s \in posted'[w] PROVE Wf(s) = w /\ step'[s] # "ABSENT"
  <2>1. s \in Row /\ Wf(s) = w /\ step[s] # "ABSENT"
    BY <1>2, RowsOf DEF RowsPosted
  <2> QED BY <2>1
<1>3. ASSUME NEW s \in Row, step'[s] # "ABSENT" PROVE Order(s) \in Orders(Wf(s))
  BY <1>3 DEF RowsPosted
<1> QED BY <1>1, <1>2, <1>3 DEF RowsPosted, Orders, Wf, Order

LEMMA SignedOn ==
  ASSUME SignedThroughout, Grows,
         document' = "APPROVED" /\ ~direct' => document = "APPROVED" /\ ~direct,
         \A w \in Workflow : workflow'[w] = "APPROVED" => workflow[w] = "APPROVED"
  PROVE  SignedThroughout'
<1>1. \A w \in Workflow : FullySigned(w) => FullySigned(w)'
  BY ReachedGrows
<1> QED BY <1>1 DEF SignedThroughout

\* Somebody has, or is about to have, a step of workflow w to review.
Reviewed(w) ==
  InReview(w) # {} \/ \E h \in Handler : Serves(h, "clone") /\ Wf(request[h].step) = w

LEMMA ReviewedOn ==
  ASSUME NEW w \in Workflow, Reviewed(w),
         \A s \in Row : Wf(s) = w /\ step[s] = "IN_REVIEW" => step'[s] = "IN_REVIEW",
         \A g \in Handler : Serves(g, "clone") /\ Wf(request[g].step) = w =>
           request'[g] = request[g]
  PROVE  Reviewed(w)'
BY DEF Reviewed, InReview, Serves

LEMMA ReviewedElsewhere ==
  ASSUME TypeOK, NEW h \in Handler, ~Serves(h, "clone"), NEW r,
         request' = [request EXCEPT ![h] = r], NEW w \in Workflow, Reviewed(w),
         \A s \in Row : Wf(s) = w /\ step[s] = "IN_REVIEW" => step'[s] = "IN_REVIEW"
  PROVE  Reviewed(w)'
<1>1. \A g \in Handler : Serves(g, "clone") => request'[g] = request[g]
  BY DEF Serves, TypeOK
<1> QED BY <1>1, ReviewedOn

LEMMA DecidableOn ==
  ASSUME Decidable, dropped \subseteq dropped', posted' = posted,
         \A w \in Workflow \ dropped' : workflow'[w] = "IN_PROGRESS" =>
           \/ Reviewed(w)'
           \/ workflow[w] = "IN_PROGRESS" /\ (Reviewed(w) => Reviewed(w)')
  PROVE  Decidable'
BY DEF Decidable, Reviewed, Orders, Order

(***************************************************************************)
(* The steps.                                                               *)
(***************************************************************************)
\* A request reads, or breaks off: no row changes.
LEMMA OnlyRequest ==
  ASSUME Inv, TypeOK', NEW h \in Handler, NEW r \in Request, StillHolds(r),
         request' = [request EXCEPT ![h] = r],
         UNCHANGED <<rows, posted, signed, handed, direct>>, dropped \subseteq dropped',
         Serves(h, "clone") => Wf(request[h].step) \in dropped'
  PROVE  Inv'
<1> USE DEF rows
<1>1. Grows /\ RowsStay
  BY DEF Grows, RowsStay
<1>2. RequestsStand'
  <2>1. StillHolds(r)'
    BY DEF StillHolds, Reached, Orders, Wf, Order
  <2> QED BY <1>1, <2>1, RequestsStandOn DEF Inv
<1>3. BegunReached' /\ RowsPosted' /\ SignedThroughout'
  BY DEF Inv, BegunReached, RowsPosted, SignedThroughout, FullySigned, Reached, Orders, Wf, Order
<1>4. Decidable'
  <2>1. ASSUME NEW w \in Workflow \ dropped', Reviewed(w) PROVE Reviewed(w)'
    <3>1. request \in [Handler -> Request]
      BY DEF Inv, TypeOK
    <3>2. \A g \in Handler : Serves(g, "clone") /\ Wf(request[g].step) = w =>
            request'[g] = request[g]
      BY <3>1 DEF Serves
    <3> QED BY <2>1, <3>2, ReviewedOn
  <2> QED BY <2>1, DecidableOn DEF Inv
<1> QED BY <1>2, <1>3, <1>4 DEF Inv

LEMMA ReadStep ==
  ASSUME Inv, TypeOK', NEW h \in Handler, NEW r \in Request, StillHolds(r),
         Reads(h, r), UNCHANGED <<rows, overdue, history>>
  PROVE  Inv'
<1>1. /\ request' = [request EXCEPT ![h] = r]
      /\ UNCHANGED <<rows, posted, signed, handed, dropped, direct>> /\ ~Serves(h, "clone")
  BY DEF Reads, Serves, Idle, history
<1> QED BY <1>1, OnlyRequest

LEMMA CreateStep ==
  ASSUME Inv, TypeOK', NEW h \in Handler, NEW w \in Workflow, NEW S \in SUBSET StepsOf(w),
         Create(h, w, S)
  PROVE  Inv'
<1>1. /\ \A s \in Row : step'[s] =
           IF s \in S THEN IF Order(s) = 1 THEN "IN_REVIEW" ELSE "PENDING" ELSE step[s]
      /\ \A v \in Workflow : posted'[v] = IF v = w THEN S ELSE posted[v]
      /\ \A v \in Workflow : v # w => workflow'[v] = workflow[v]
      /\ workflow[w] = "ABSENT" /\ workflow'[w] = "IN_PROGRESS"
      /\ document' # "APPROVED" /\ UNCHANGED <<signed, handed, dropped>>
      /\ ~Serves(h, "clone") /\ request' = [request EXCEPT ![h] = Idle]
  BY DEF Create, Initial, Serves, Answers, Continues, Inv, TypeOK
<1>2. \A s \in S : s \in Row /\ Wf(s) = w
  BY RowsOf
<1>3. posted[w] = {}
  <2> SUFFICES ASSUME NEW s \in posted[w] PROVE FALSE
    OBVIOUS
  <2>1. s \in Row /\ Wf(s) = w /\ step[s] # "ABSENT"
    BY RowsOf DEF Inv, RowsPosted
  <2> QED BY <1>1, <2>1 DEF Inv, RowsPosted
<1>4. Grows
  BY <1>1, <1>3 DEF Grows
<1>5. RowsStay
  BY <1>1 DEF RowsStay
<1>6. RequestsStand'
  BY <1>1, <1>4, <1>5, IdleStands, RequestsStandOn DEF Inv
<1>7. BegunReached'
  <2>1. ASSUME NEW s \in Row, step'[s] \notin {"ABSENT", "PENDING"}
        PROVE  step[s] \notin {"ABSENT", "PENDING"} \/ Reached(Wf(s), Order(s))'
    <3>1. ASSUME s \in S, Order(s) = 1 PROVE Reached(Wf(s), Order(s))'
      <4>1. 1 \in Orders(w)'
        BY <1>1, <3>1 DEF Orders, Order
      <4>2. \A p \in 1 .. Steps : ~(p < 1) /\ (p <= 1 => p = 1)
        BY StepsAssumption
      <4>3. Wf(s) = w /\ Order(s) = 1
        BY <1>2, <3>1
      <4>4. Reached(w, 1)'
        BY <4>1, <4>2 DEF Reached
      <4> QED BY <4>3, <4>4 DEF Reached, Orders, Order, Wf
    <3> QED BY <1>1, <2>1, <3>1
  <2> QED BY <1>4, <2>1, BegunReachedOn DEF Inv
<1>8. RowsPosted'
  <2>1. ASSUME NEW v \in Workflow, workflow'[v] = "ABSENT", NEW s \in Row, Wf(s) = v
        PROVE  step'[s] = "ABSENT"
    BY <1>1, <1>2, <2>1 DEF Inv, RowsPosted
  <2>2. ASSUME NEW v \in Workflow, NEW s \in posted'[v]
        PROVE  Wf(s) = v /\ step'[s] # "ABSENT"
    <3>1. CASE v = w
      BY <1>1, <1>2, <2>2, <3>1
    <3>2. CASE v # w
      <4>1. s \in Row /\ Wf(s) = v /\ step[s] # "ABSENT"
        BY <1>1, <2>2, <3>2, RowsOf DEF Inv, RowsPosted
      <4> QED BY <1>1, <4>1
    <3> QED BY <3>1, <3>2
  <2>3. ASSUME NEW s \in Row, step'[s] # "ABSENT" PROVE Order(s) \in Orders(Wf(s))'
    <3>1. CASE s \in S
      BY <1>1, <1>2, <3>1 DEF Orders, Order, Wf
    <3>2. CASE s \notin S
      <4>1. step[s] # "ABSENT" /\ Wf(s) \in Workflow
        BY <1>1, <2>3, <3>2, RowParts
      <4>2. Order(s) \in Orders(Wf(s)) /\ Wf(s) # w
        BY <1>1, <4>1 DEF Inv, RowsPosted
      <4> QED BY <1>1, <4>1, <4>2 DEF Orders, Order, Wf
    <3> QED BY <3>1, <3>2
  <2> QED BY <2>1, <2>2, <2>3 DEF RowsPosted, Wf, Order
<1>9. SignedThroughout'
  <2>1. \A v \in Workflow : workflow'[v] = "APPROVED" => workflow[v] = "APPROVED"
    BY <1>1
  <2> QED BY <1>1, <1>4, <2>1, SignedOn DEF Inv
<1>10. Decidable'
  <2> SUFFICES ASSUME NEW v \in Workflow \ dropped', workflow'[v] = "IN_PROGRESS",
                      1 \in Orders(v)'
               PROVE  Reviewed(v)'
    BY DEF Decidable, Reviewed
  <2>1. CASE v = w
    <3>1. PICK s \in S : Order(s) = 1
      BY <1>1, <2>1 DEF Orders, Order
    <3> QED BY <1>1, <1>2, <2>1, <3>1 DEF Reviewed, InReview, Wf
  <2>2. CASE v # w
    <3>1. Reviewed(v)
      BY <1>1, <2>2 DEF Inv, Decidable, Reviewed, Orders, Order
    <3>2. \A s \in Row : Wf(s) = v /\ step[s] = "IN_REVIEW" => step'[s] = "IN_REVIEW"
      BY <1>1, <1>2, <2>2
    <3> QED BY <1>1, <3>1, <3>2, ReviewedElsewhere DEF Inv
  <2> QED BY <2>1, <2>2
<1> QED BY <1>6, <1>7, <1>8, <1>9, <1>10 DEF Inv

\* A decision is about a step that was reached, and the step after it.
LEMMA DecidesUpon ==
  ASSUME Inv, NEW h \in Handler, Decides(h)
  PROVE  \E s \in Row, next \in Row \cup {NoStep} :
           /\ request[h].step = s /\ request[h].next = next
           /\ step[s] # "ABSENT" /\ Reached(Wf(s), Order(s))
           /\ IF next = NoStep THEN Order(s) + 1 \notin Orders(Wf(s))
              ELSE /\ Wf(next) = Wf(s) /\ Order(next) = Order(s) + 1
                   /\ Order(next) \in Orders(Wf(s))
           /\ ~Serves(h, "clone") /\ request' = [request EXCEPT ![h] = Idle]
           /\ UNCHANGED <<overdue, posted, handed, dropped>>
<1>1. request[h] \in Request /\ StillHolds(request[h]) /\ request[h].op = "decide"
  BY DEF Inv, TypeOK, RequestsStand, Decides, Serves
<1>2. request[h].step \in Row /\ request[h].next \in Row \cup {NoStep}
  BY <1>1, Carried
<1> QED BY <1>1, <1>2 DEF StillHolds, Decides, Serves, Answers, Continues

LEMMA AdvanceStep ==
  ASSUME Inv, TypeOK', NEW h \in Handler, Advance(h)
  PROVE  Inv'
<1>1. PICK s \in Row, next \in Row :
        /\ step' = [step EXCEPT ![s] = "APPROVED", ![next] = "IN_REVIEW"]
        /\ signed' = signed \cup {<<Wf(s), Order(s)>>}
        /\ UNCHANGED <<document, direct, workflow, posted, handed, dropped>>
        /\ step[s] # "ABSENT" /\ Reached(Wf(s), Order(s))
        /\ Wf(next) = Wf(s) /\ Order(next) = Order(s) + 1
        /\ Order(next) \in Orders(Wf(s))
        /\ ~Serves(h, "clone") /\ request' = [request EXCEPT ![h] = Idle]
  BY DecidesUpon DEF Advance, Sign
<1>2. Wf(s) \in Workflow /\ Order(s) \in 1 .. Steps
  BY RowParts
<1>3. next # s
  BY <1>1, <1>2
<1>4. \A t \in Row : step'[t] = IF t = next THEN "IN_REVIEW"
                                ELSE IF t = s THEN "APPROVED" ELSE step[t]
  BY <1>1, <1>3 DEF Inv, TypeOK
<1>5. Grows /\ RowsStay
  <2>1. Grows
    BY <1>1 DEF Grows
  <2>2. RowsStay
    BY <1>4 DEF RowsStay
  <2> QED BY <2>1, <2>2
<1>6. RequestsStand'
  BY <1>1, <1>5, IdleStands, RequestsStandOn DEF Inv
<1>7. BegunReached'
  <2>1. Reached(Wf(s), Order(s))'
    BY <1>1, <1>2, <1>5, ReachedGrows DEF Reached, Orders, Wf, Order
  <2>2. Reached(Wf(next), Order(next))'
    <3>1. CASE handed[Wf(s)] = "also pending"
      BY <1>1, <3>1 DEF Reached, Wf
    <3>2. ASSUME \A p \in 1 .. Steps :
                   (p < Order(s) => <<Wf(s), p>> \in signed)
                     /\ (p <= Order(s) => p \in Orders(Wf(s))),
                 NEW p \in 1 .. Steps
          PROVE  /\ p < Order(next) => <<Wf(s), p>> \in signed'
                 /\ p <= Order(next) => p \in Orders(Wf(s))
      <4>1. /\ p < Order(next) => p < Order(s) \/ p = Order(s)
            /\ p <= Order(next) => p <= Order(s) \/ p = Order(next)
        BY <1>1, <1>2, OneMore
      <4>2. p < Order(next) => <<Wf(s), p>> \in signed'
        BY <1>1, <3>2, <4>1
      <4>3. p <= Order(next) => p \in Orders(Wf(s))
        BY <1>1, <3>2, <4>1
      <4> QED BY <4>2, <4>3
    <3> QED BY <1>1, <3>1, <3>2 DEF Reached, Orders, Wf, Order
  <2> QED BY <1>4, <1>5, <2>1, <2>2, BegunReachedOn DEF Inv
<1>8. RowsPosted'
  <2>1. PICK t \in posted[Wf(s)] : Order(t) = Order(next)
    BY <1>1 DEF Orders
  <2>2. t \in Row /\ Wf(t) = Wf(next) /\ step[t] # "ABSENT"
    BY <1>1, <1>2, <2>1, RowsOf DEF Inv, RowsPosted
  <2>3. ASSUME NEW u \in Row, step'[u] # step[u]
        PROVE  /\ step'[u] # "ABSENT"
               /\ \E v \in Row : Wf(v) = Wf(u) /\ Order(v) = Order(u) /\ step[v] # "ABSENT"
    <3>1. step'[u] # "ABSENT" /\ (u = s \/ u = next)
      BY <1>4, <2>3
    <3> QED BY <1>1, <2>1, <2>2, <3>1
  <2> QED BY <1>1, <2>3, RowsPostedOn DEF Inv
<1>9. SignedThroughout'
  BY <1>1, <1>5, SignedOn DEF Inv
<1>10. Decidable'
  <2>1. Reviewed(Wf(s))'
    BY <1>1, <1>4 DEF Reviewed, InReview, Wf
  <2>2. ASSUME NEW v \in Workflow, v # Wf(s), Reviewed(v) PROVE Reviewed(v)'
    BY <1>1, <1>4, <2>2, ReviewedElsewhere DEF Inv
  <2> QED BY <1>1, <2>1, <2>2, DecidableOn DEF Inv, Wf
<1> QED BY <1>6, <1>7, <1>8, <1>9, <1>10 DEF Inv
LEMMA FinishStep ==
  ASSUME Inv, TypeOK', NEW h \in Handler, Finish(h)
  PROVE  Inv'
<1>1. PICK s \in Row :
        /\ step' = [step EXCEPT ![s] = "APPROVED"]
        /\ signed' = signed \cup {<<Wf(s), Order(s)>>}
        /\ workflow' = [workflow EXCEPT ![Wf(s)] = "APPROVED"]
        /\ step[s] # "ABSENT" /\ Reached(Wf(s), Order(s)) /\ Order(s) + 1 \notin Orders(Wf(s))
        /\ ~Serves(h, "clone") /\ request' = [request EXCEPT ![h] = Idle]
        /\ UNCHANGED <<posted, handed, dropped>>
  BY DecidesUpon DEF Finish, Sign
<1>2. Wf(s) \in Workflow /\ Order(s) \in 1 .. Steps
  BY RowParts
<1>3. \A t \in Row : step'[t] = IF t = s THEN "APPROVED" ELSE step[t]
  BY <1>1 DEF Inv, TypeOK
<1>4. Grows /\ RowsStay
  <2>1. Grows
    BY <1>1 DEF Grows
  <2>2. RowsStay
    BY <1>3 DEF RowsStay
  <2> QED BY <2>1, <2>2
<1>5. RequestsStand'
  BY <1>1, <1>4, IdleStands, RequestsStandOn DEF Inv
<1>6. BegunReached'
  <2>1. Reached(Wf(s), Order(s))'
    BY <1>1, <1>2, <1>4, ReachedGrows DEF Reached, Orders, Wf, Order
  <2> QED BY <1>3, <1>4, <2>1, BegunReachedOn DEF Inv
<1>7. RowsPosted'
  <2>1. \A w \in Workflow : workflow'[w] = "ABSENT" => workflow[w] = "ABSENT"
    BY <1>1 DEF Inv, TypeOK
  <2> QED BY <1>1, <1>3, <2>1, RowsPostedOn DEF Inv
<1>8. SignedThroughout'
  <2>1. FullySigned(Wf(s))'
    <3>1. CASE handed[Wf(s)] = "also pending"
      BY <1>1, <3>1 DEF FullySigned, Wf
    <3>2. ASSUME \A p \in 1 .. Steps :
                   (p < Order(s) => <<Wf(s), p>> \in signed)
                     /\ (p <= Order(s) => p \in Orders(Wf(s)))
          PROVE  /\ 1 \in Orders(Wf(s))
                 /\ \A o \in 1 .. Steps :
                      1 .. o \subseteq Orders(Wf(s)) => <<Wf(s), o>> \in signed'
      <4>1. 1 \in 1 .. Steps /\ 1 <= Order(s)
        BY <1>2, OneMore
      <4>2. 1 \in Orders(Wf(s))
        BY <3>2, <4>1
      <4>3. ASSUME NEW o \in 1 .. Steps, 1 .. o \subseteq Orders(Wf(s))
            PROVE  <<Wf(s), o>> \in signed'
        <5>1. o < Order(s) \/ o = Order(s) \/ Order(s) + 1 \in 1 .. o
          BY <1>2, OneMore
        <5>2. Order(s) + 1 \notin 1 .. o
          BY <1>1, <4>3
        <5>3. o < Order(s) => <<Wf(s), o>> \in signed
          BY <3>2
        <5> QED BY <1>1, <5>1, <5>2, <5>3
      <4> QED BY <4>2, <4>3
    <3> QED BY <1>1, <3>1, <3>2 DEF Reached, FullySigned, Orders, Wf, Order
  <2>2. ASSUME NEW w \in Workflow, workflow'[w] = "APPROVED" PROVE FullySigned(w)'
    <3>1. CASE w = Wf(s)
      BY <2>1, <3>1 DEF FullySigned, Orders, Wf, Order
    <3>2. CASE w # Wf(s)
      <4>1. workflow[w] = "APPROVED"
        BY <1>1, <2>2, <3>2 DEF Inv, TypeOK
      <4> QED BY <1>4, <4>1, ReachedGrows DEF Inv, SignedThroughout
    <3> QED BY <3>1, <3>2
  <2>3. \E w \in Workflow : FullySigned(w)'
    BY <1>2, <2>1 DEF FullySigned, Orders, Wf, Order
  <2> QED BY <2>2, <2>3 DEF SignedThroughout
<1>9. Decidable'
  <2>1. \A w \in Workflow : workflow'[w] = "IN_PROGRESS" =>
          w # Wf(s) /\ workflow[w] = "IN_PROGRESS"
    BY <1>1 DEF Inv, TypeOK
  <2>2. ASSUME NEW w \in Workflow, w # Wf(s), Reviewed(w) PROVE Reviewed(w)'
    BY <1>1, <1>3, <2>2, ReviewedElsewhere DEF Inv
  <2> QED BY <1>1, <2>1, <2>2, DecidableOn DEF Inv
<1> QED BY <1>5, <1>6, <1>7, <1>8, <1>9 DEF Inv

LEMMA RejectStep ==
  ASSUME Inv, TypeOK', NEW h \in Handler, Reject(h)
  PROVE  Inv'
<1>1. PICK s \in Row :
        /\ step' = [step EXCEPT ![s] = "REJECTED"]
        /\ signed' = signed /\ document' = "DRAFT"
        /\ workflow' = [workflow EXCEPT ![Wf(s)] = "REJECTED"]
        /\ step[s] # "ABSENT" /\ Reached(Wf(s), Order(s))
        /\ ~Serves(h, "clone") /\ request' = [request EXCEPT ![h] = Idle]
        /\ UNCHANGED <<posted, handed, dropped>>
  BY DecidesUpon DEF Reject
<1>2. Wf(s) \in Workflow /\ Order(s) \in 1 .. Steps
  BY RowParts
<1>3. \A t \in Row : step'[t] = IF t = s THEN "REJECTED" ELSE step[t]
  BY <1>1 DEF Inv, TypeOK
<1>4. Grows /\ RowsStay
  <2>1. Grows
    BY <1>1 DEF Grows
  <2>2. RowsStay
    BY <1>3 DEF RowsStay
  <2> QED BY <2>1, <2>2
<1>5. RequestsStand'
  BY <1>1, <1>4, IdleStands, RequestsStandOn DEF Inv
<1>6. BegunReached'
  <2>1. Reached(Wf(s), Order(s))'
    BY <1>1, <1>2, <1>4, ReachedGrows DEF Reached, Orders, Wf, Order
  <2> QED BY <1>3, <1>4, <2>1, BegunReachedOn DEF Inv
<1>7. RowsPosted'
  <2>1. \A w \in Workflow : workflow'[w] = "ABSENT" => workflow[w] = "ABSENT"
    BY <1>1 DEF Inv, TypeOK
  <2> QED BY <1>1, <1>3, <2>1, RowsPostedOn DEF Inv
<1>8. SignedThroughout'
  <2>1. \A w \in Workflow : workflow'[w] = "APPROVED" => workflow[w] = "APPROVED"
    BY <1>1 DEF Inv, TypeOK
  <2> QED BY <1>1, <1>4, <2>1, SignedOn DEF Inv
<1>9. Decidable'
  <2>1. \A w \in Workflow : workflow'[w] = "IN_PROGRESS" =>
          w # Wf(s) /\ workflow[w] = "IN_PROGRESS"
    BY <1>1 DEF Inv, TypeOK
  <2>2. ASSUME NEW w \in Workflow, w # Wf(s), Reviewed(w) PROVE Reviewed(w)'
    BY <1>1, <1>3, <2>2, ReviewedElsewhere DEF Inv
  <2> QED BY <1>1, <2>1, <2>2, DecidableOn DEF Inv
<1> QED BY <1>5, <1>6, <1>7, <1>8, <1>9 DEF Inv

LEMMA RequestChangesStep ==
  ASSUME Inv, TypeOK', NEW h \in Handler, RequestChanges(h)
  PROVE  Inv'
<1>1. PICK s \in Row :
        /\ step' = [step EXCEPT ![s] = "IN_REVIEW"]
        /\ UNCHANGED <<document, direct, workflow, signed>>
        /\ step[s] # "ABSENT" /\ Reached(Wf(s), Order(s))
        /\ ~Serves(h, "clone") /\ request' = [request EXCEPT ![h] = Idle]
        /\ UNCHANGED <<posted, handed, dropped>>
  BY DecidesUpon DEF RequestChanges
<1>2. Wf(s) \in Workflow /\ Order(s) \in 1 .. Steps
  BY RowParts
<1>3. \A t \in Row : step'[t] = IF t = s THEN "IN_REVIEW" ELSE step[t]
  BY <1>1 DEF Inv, TypeOK
<1>4. Grows /\ RowsStay
  <2>1. Grows
    BY <1>1 DEF Grows
  <2>2. RowsStay
    BY <1>3 DEF RowsStay
  <2> QED BY <2>1, <2>2
<1>5. RequestsStand'
  BY <1>1, <1>4, IdleStands, RequestsStandOn DEF Inv
<1>6. BegunReached'
  <2>1. Reached(Wf(s), Order(s))'
    BY <1>1, <1>2, <1>4, ReachedGrows DEF Reached, Orders, Wf, Order
  <2> QED BY <1>3, <1>4, <2>1, BegunReachedOn DEF Inv
<1>7. RowsPosted'
  <2>1. \A w \in Workflow : workflow'[w] = "ABSENT" => workflow[w] = "ABSENT"
    BY <1>1 DEF Inv, TypeOK
  <2> QED BY <1>1, <1>3, <2>1, RowsPostedOn DEF Inv
<1>8. SignedThroughout'
  BY <1>1, <1>4, SignedOn DEF Inv
<1>9. Decidable'
  <2>1. ASSUME NEW w \in Workflow, Reviewed(w) PROVE Reviewed(w)'
    BY <1>1, <1>3, <2>1, ReviewedElsewhere DEF Inv
  <2> QED BY <1>1, <2>1, DecidableOn DEF Inv
<1> QED BY <1>5, <1>6, <1>7, <1>8, <1>9 DEF Inv
LEMMA DelegateStep ==
  ASSUME Inv, TypeOK', NEW h \in Handler, Delegate(h)
  PROVE  Inv'
<1>1. PICK s \in Row :
        /\ request[h].step = s /\ step[s] # "ABSENT"
        /\ step' = [step EXCEPT ![s] = "DELEGATED"]
        /\ handed' = [handed EXCEPT ![Wf(s)] = HandedOn(Wf(s), step[s])]
        /\ ~Serves(h, "clone")
        /\ request' = [request EXCEPT ![h] = [op |-> "clone", step |-> s]]
        /\ UNCHANGED <<document, direct, workflow, posted, signed, dropped>>
  <2>1. request[h] \in Request /\ StillHolds(request[h]) /\ request[h].op = "delegate"
    BY DEF Inv, TypeOK, RequestsStand, Delegate, Serves
  <2>2. request[h].step \in Row
    BY <2>1, Carried
  <2> QED BY <2>1, <2>2 DEF StillHolds, Delegate, Serves, Continues
<1>2. Wf(s) \in Workflow
  BY RowParts
<1>3. \A t \in Row : step'[t] = IF t = s THEN "DELEGATED" ELSE step[t]
  BY <1>1 DEF Inv, TypeOK
<1>4. handed \in [Workflow -> Handed]
  BY DEF Inv, TypeOK
<1>5. \A w \in Workflow : handed'[w] = IF w = Wf(s) THEN HandedOn(w, step[s]) ELSE handed[w]
  BY <1>1, <1>4
<1>6. Grows
  BY <1>1, <1>5 DEF Grows, HandedOn
<1>7. RowsStay
  BY <1>3 DEF RowsStay
<1>8. Reached(Wf(s), Order(s))'
  <2>1. CASE step[s] = "PENDING"
    <3>1. HandedOn(Wf(s), step[s]) = "also pending"
      BY <2>1 DEF HandedOn
    <3>2. handed'[Wf(s)] = "also pending"
      BY <1>2, <1>5, <3>1
    <3> QED BY <3>2 DEF Reached, Wf
  <2>2. CASE step[s] # "PENDING"
    <3>1. Reached(Wf(s), Order(s))
      BY <1>1, <2>2 DEF Inv, BegunReached
    <3> QED BY <1>1, <1>2, <1>6, <3>1, ReachedGrows DEF Reached, Orders, Wf, Order
  <2> QED BY <2>1, <2>2
<1>9. RequestsStand'
  <2>1. [op |-> "clone", step |-> s] \in Request
    BY DEF Request
  <2>2. step'[s] # "ABSENT"
    BY <1>3
  <2>3. StillHolds([op |-> "clone", step |-> s])'
    BY <1>8, <2>2 DEF StillHolds, Reached, Orders, Wf, Order
  <2> QED BY <1>1, <1>6, <1>7, <2>1, <2>3, RequestsStandOn DEF Inv
<1>10. BegunReached'
  BY <1>3, <1>6, <1>8, BegunReachedOn DEF Inv
<1>11. RowsPosted'
  BY <1>1, <1>3, RowsPostedOn DEF Inv
<1>12. SignedThroughout'
  BY <1>1, <1>6, SignedOn DEF Inv
<1>13. Decidable'
  <2>1. Reviewed(Wf(s))'
    <3>1. request'[h] = [op |-> "clone", step |-> s]
      BY <1>1 DEF Inv, TypeOK
    <3> QED BY <3>1 DEF Reviewed, Serves, Wf
  <2>2. ASSUME NEW w \in Workflow, w # Wf(s), Reviewed(w) PROVE Reviewed(w)'
    BY <1>1, <1>3, <2>2, ReviewedElsewhere DEF Inv
  <2> QED BY <1>1, <2>1, <2>2, DecidableOn DEF Inv, Wf
<1> QED BY <1>9, <1>10, <1>11, <1>12, <1>13 DEF Inv

LEMMA CloneStep ==
  ASSUME Inv, TypeOK', NEW h \in Handler, NEW t \in Row, Clone(h, t)
  PROVE  Inv'
<1>1. PICK s \in Row :
        /\ request[h].step = s /\ step[s] # "ABSENT" /\ Reached(Wf(s), Order(s))
        /\ Wf(t) = Wf(s) /\ Order(t) = Order(s)
        /\ Serves(h, "clone")
        /\ step' = [step EXCEPT ![t] = "IN_REVIEW"]
        /\ request' = [request EXCEPT ![h] = Idle]
        /\ UNCHANGED <<document, direct, workflow, posted, signed, handed, dropped>>
  <2>1. request[h] \in Request /\ StillHolds(request[h]) /\ request[h].op = "clone"
    BY DEF Inv, TypeOK, RequestsStand, Clone, Serves
  <2>2. request[h].step \in Row
    BY <2>1, Carried
  <2> QED BY <2>1, <2>2 DEF StillHolds, Clone, Answers, Continues, history
<1>2. Wf(t) \in Workflow
  BY RowParts
<1>3. \A u \in Row : step'[u] = IF u = t THEN "IN_REVIEW" ELSE step[u]
  BY <1>1 DEF Inv, TypeOK
<1>4. Grows
  BY <1>1 DEF Grows
<1>5. RowsStay
  BY <1>3 DEF RowsStay
<1>6. RequestsStand'
  BY <1>1, <1>4, <1>5, IdleStands, RequestsStandOn DEF Inv
<1>7. BegunReached'
  <2>1. Reached(Wf(t), Order(t))'
    BY <1>1, <1>2, <1>4, ReachedGrows DEF Reached, Orders, Wf, Order
  <2> QED BY <1>3, <1>4, <2>1, BegunReachedOn DEF Inv
<1>8. RowsPosted'
  BY <1>1, <1>3, RowsPostedOn DEF Inv
<1>9. SignedThroughout'
  BY <1>1, <1>4, SignedOn DEF Inv
<1>10. Decidable'
  <2>1. Reviewed(Wf(t))'
    BY <1>3 DEF Reviewed, InReview, Wf
  <2>2. ASSUME NEW w \in Workflow, w # Wf(t), Reviewed(w) PROVE Reviewed(w)'
    <3>1. request \in [Handler -> Request]
      BY DEF Inv, TypeOK
    <3>2. \A g \in Handler : Serves(g, "clone") /\ Wf(request[g].step) = w =>
            request'[g] = request[g]
      BY <1>1, <2>2, <3>1 DEF Serves
    <3> QED BY <1>3, <2>2, <3>2, ReviewedOn
  <2> QED BY <1>1, <2>1, <2>2, DecidableOn DEF Inv, Wf
<1> QED BY <1>6, <1>7, <1>8, <1>9, <1>10 DEF Inv

LEMMA CancelStep ==
  ASSUME Inv, TypeOK', NEW h \in Handler, Cancel(h)
  PROVE  Inv'
<1>1. /\ workflow' = [workflow EXCEPT ![request[h].workflow] = "CANCELLED"]
      /\ document' = "DRAFT"
      /\ ~Serves(h, "clone") /\ request' = [request EXCEPT ![h] = Idle]
      /\ UNCHANGED <<step, posted, signed, handed, dropped>>
  BY DEF Cancel, Serves, Answers, Continues, history
<1>2. \A w \in Workflow : workflow'[w] # workflow[w] => workflow'[w] = "CANCELLED"
  BY <1>1 DEF Inv, TypeOK
<1>3. Grows /\ RowsStay
  BY <1>1 DEF Grows, RowsStay
<1>4. RequestsStand'
  BY <1>1, <1>3, IdleStands, RequestsStandOn DEF Inv
<1>5. BegunReached' /\ RowsPosted'
  <2>1. BegunReached'
    BY <1>1 DEF Inv, BegunReached, Reached, Orders, Wf, Order
  <2> QED BY <1>1, <1>2, <2>1, RowsPostedOn DEF Inv
<1>6. SignedThroughout'
  BY <1>1, <1>2, <1>3, SignedOn DEF Inv
<1>7. Decidable'
  <2>1. ASSUME NEW w \in Workflow, Reviewed(w) PROVE Reviewed(w)'
    BY <1>1, <2>1, ReviewedElsewhere DEF Inv
  <2> QED BY <1>1, <1>2, <2>1, DecidableOn DEF Inv
<1> QED BY <1>4, <1>5, <1>6, <1>7 DEF Inv

LEMMA StaleStep ==
  ASSUME Inv, TypeOK',
         FindStale \/ \E w \in Workflow : Escalate(w) \/ EscalationFails(w)
  PROVE  Inv'
<1>1. /\ UNCHANGED <<document, direct, step, posted, signed, handed, dropped, request>>
      /\ \A w \in Workflow : workflow'[w] # workflow[w] => workflow'[w] = "ESCALATED"
  BY DEF FindStale, Escalate, EscalationFails, rows, history, requests, Inv, TypeOK
<1>2. BegunReached' /\ RequestsStand'
  BY <1>1 DEF Inv, BegunReached, RequestsStand, StillHolds, Reached, Orders, Wf, Order
<1>3. RowsPosted'
  BY <1>1, RowsPostedOn DEF Inv
<1>4. SignedThroughout'
  BY <1>1 DEF Inv, SignedThroughout, FullySigned, Orders, Order
<1>5. Decidable'
  BY <1>1 DEF Inv, Decidable, InReview, Orders, Serves, Wf, Order
<1> QED BY <1>2, <1>3, <1>4, <1>5 DEF Inv

LEMMA UpdateStatusStep ==
  ASSUME Inv, TypeOK', NEW status \in DocumentStatus, UpdateStatus(status)
  PROVE  Inv'
<1>1. direct' /\ UNCHANGED <<workflow, step, posted, signed, handed, dropped, request>>
  BY DEF UpdateStatus, AtOnce
<1>2. BegunReached' /\ RequestsStand' /\ RowsPosted'
  BY <1>1 DEF Inv, BegunReached, RequestsStand, StillHolds, RowsPosted, Reached, Orders, Wf, Order
<1>3. SignedThroughout'
  BY <1>1 DEF Inv, SignedThroughout, FullySigned, Orders, Order
<1>4. Decidable'
  BY <1>1 DEF Inv, Decidable, InReview, Orders, Serves, Wf, Order
<1> QED BY <1>2, <1>3, <1>4 DEF Inv

(***************************************************************************)
(* The invariant, and what follows from it.                                 *)
(***************************************************************************)
LEMMA StepInv == Inv /\ [Next]_vars => Inv'
<1> SUFFICES ASSUME Inv, [Next]_vars PROVE Inv'
  OBVIOUS
<1>1. TypeOK'
  BY StepTypeOK DEF Inv
<1>2. CASE UNCHANGED vars
  <2>1. UNCHANGED <<document, direct, workflow, step, posted, signed, handed, dropped, request>>
    BY <1>2 DEF vars, rows, history, requests
  <2>2. BegunReached' /\ RequestsStand' /\ RowsPosted'
    BY <2>1 DEF Inv, BegunReached, RequestsStand, StillHolds, RowsPosted, Reached, Orders, Wf, Order
  <2>3. SignedThroughout'
    BY <2>1 DEF Inv, SignedThroughout, FullySigned, Orders, Order
  <2>4. Decidable'
    BY <2>1 DEF Inv, Decidable, InReview, Orders, Serves, Wf, Order
  <2> QED BY <1>1, <2>2, <2>3, <2>4 DEF Inv
<1>3. ASSUME NEW h \in Handler, CreateReads(h) PROVE Inv'
  <2> DEFINE r == [op |-> "create"]
  <2>1. r \in Request /\ StillHolds(r)
    BY DEF Request, StillHolds
  <2>2. Reads(h, r) /\ UNCHANGED <<rows, overdue, history>>
    BY <1>3 DEF CreateReads
  <2> QED BY <1>1, <2>1, <2>2, ReadStep
<1>4. ASSUME NEW h \in Handler, NEW s \in Row, DecisionReads(h, s) PROVE Inv'
  <2>1. PICK next : /\ next \in IF Following(s) = {} THEN {NoStep} ELSE Following(s)
                    /\ Reads(h, [op |-> "decide", step |-> s, next |-> next])
    BY <1>4 DEF DecisionReads
  <2> DEFINE r == [op |-> "decide", step |-> s, next |-> next]
  <2>2. step[s] = "IN_REVIEW" /\ UNCHANGED <<rows, overdue, history>>
    BY <1>4 DEF DecisionReads
  <2>3. r \in Request
    BY <2>1 DEF Request, Following
  <2>4. Reached(Wf(s), Order(s))
    BY <2>2 DEF Inv, BegunReached
  <2>5. ASSUME next = NoStep PROVE Order(s) + 1 \notin Orders(Wf(s))
    <3> SUFFICES ASSUME NEW t \in posted[Wf(s)], Order(t) = Order(s) + 1 PROVE FALSE
      BY DEF Orders
    <3>1. Following(s) = {}
      BY <2>1, <2>5, NoStepAssumption DEF Following
    <3>2. t \in Row /\ Wf(t) = Wf(s) /\ step[t] # "ABSENT"
      BY RowParts, RowsOf DEF Inv, RowsPosted
    <3> QED BY <3>1, <3>2 DEF Following
  <2>6. ASSUME next # NoStep
        PROVE  /\ Wf(next) = Wf(s) /\ Order(next) = Order(s) + 1
               /\ Order(next) \in Orders(Wf(s))
    BY <2>1, <2>6 DEF Following, Inv, RowsPosted
  <2>7. StillHolds(r)
    BY <2>2, <2>4, <2>5, <2>6 DEF StillHolds
  <2> QED BY <1>1, <2>1, <2>2, <2>3, <2>7, ReadStep
<1>5. ASSUME NEW h \in Handler, NEW s \in Row, DelegationReads(h, s) PROVE Inv'
  <2> DEFINE r == [op |-> "delegate", step |-> s]
  <2>1. r \in Request /\ StillHolds(r)
    BY <1>5 DEF DelegationReads, Request, StillHolds
  <2>2. Reads(h, r) /\ UNCHANGED <<rows, overdue, history>>
    BY <1>5 DEF DelegationReads
  <2> QED BY <1>1, <2>1, <2>2, ReadStep
<1>6. ASSUME NEW h \in Handler, NEW w \in Workflow, CancelReads(h, w) PROVE Inv'
  <2> DEFINE r == [op |-> "cancel", workflow |-> w]
  <2>1. r \in Request /\ StillHolds(r)
    BY DEF Request, StillHolds
  <2>2. Reads(h, r) /\ UNCHANGED <<rows, overdue, history>>
    BY <1>6 DEF CancelReads
  <2> QED BY <1>1, <2>1, <2>2, ReadStep
<1>7. ASSUME NEW h \in Handler, BreaksOff(h) PROVE Inv'
  <2>1. Idle \in Request /\ StillHolds(Idle)
    BY DEF Idle, Request, StillHolds
  <2> QED BY <1>1, <1>7, <2>1, OnlyRequest DEF BreaksOff, Answers, Continues
<1> QED
  BY <1>1, <1>2, <1>3, <1>4, <1>5, <1>6, <1>7, CreateStep, AdvanceStep, FinishStep,
     RejectStep, RequestChangesStep, DelegateStep, CloneStep, CancelStep, StaleStep,
     UpdateStatusStep DEF Next

\* The rows and the requests stay within their types (the code behind every
\* operation of ApprovalWorkflowService).
THEOREM Typed == Spec => []TypeOK
<1>1. Init => TypeOK
  BY InitInv DEF Inv
<1> QED BY <1>1, StepTypeOK, PTL DEF Spec

LEMMA Invariant == Spec => []Inv
BY InitInv, StepInv, PTL DEF Spec

\* A workflow approves its policy document only when a step of each order up to the first
\* gap in those the client posted has been approved, whatever requests overlap, unless a
\* step that was still PENDING was delegated (createWorkflow, processStep, delegateStep).
THEOREM EveryStepSigned == Spec => []SignedThroughout
<1>1. Inv => SignedThroughout
  BY DEF Inv
<1> QED BY <1>1, Invariant, PTL

\* A workflow in progress that was posted with a step of order 1 always has a step in
\* review, or one that a delegation is about to create, unless a delegation broke off
\* (createWorkflow, processStep, delegateStep).
THEOREM NeverStuck == Spec => []Decidable
<1>1. Inv => Decidable
  BY DEF Inv
<1> QED BY <1>1, Invariant, PTL
-----------------------------------------------------------------------------
(***************************************************************************)
(* One request after the other.                                             *)
(***************************************************************************)
\* A workflow that has yet to be created has no steps and no signatures.
Fresh ==
  \A w \in Workflow : workflow[w] = "ABSENT" =>
    /\ current[w] = 1
    /\ \A s \in Row : Wf(s) = w => step[s] = "ABSENT"
    /\ \A o \in 1 .. Steps : <<w, o>> \notin signed

\* No second request is in service.
OneServed == \A g, h \in Handler : request[g] # Idle /\ request[h] # Idle => g = h

Regular(w) ==
  workflow[w] = "IN_PROGRESS" /\ OneFirst(w) /\ handed[w] = "only in review"

\* Request h is about to decide, or to clone, a step of workflow w.
About(h, op, w) == Serves(h, op) /\ Wf(request[h].step) = w

\* Where a workflow stands between the steps of the request in service.
InTurn(w) ==
  /\ \A o \in 1 .. Steps : <<w, o>> \in signed <=> o < current[w]
  /\ \A s, t \in InReview(w) : s = t
  /\ \A s \in InReview(w) : Order(s) = current[w]
  /\ \A h \in Handler :
       /\ About(h, "decide", w) => step[request[h].step] = "IN_REVIEW"
       /\ About(h, "clone", w) => InReview(w) = {} /\ Order(request[h].step) = current[w]

Sequential == ~overlapped => OneServed /\ \A w \in Workflow : Regular(w) => InTurn(w)

\* A workflow that a step leaves alone.
Kept(w) ==
  /\ Regular(w)
  /\ current'[w] = current[w]
  /\ \A s \in Row : Wf(s) = w => step'[s] = step[s]
  /\ \A o \in 1 .. Steps : <<w, o>> \in signed' <=> <<w, o>> \in signed

LEMMA FreshOn ==
  ASSUME Fresh,
         \A w \in Workflow : workflow'[w] = "ABSENT" =>
           /\ workflow[w] = "ABSENT" /\ current'[w] = current[w]
           /\ \A s \in Row : Wf(s) = w => step'[s] = step[s]
           /\ \A o \in 1 .. Steps : <<w, o>> \in signed' => <<w, o>> \in signed
  PROVE  Fresh'
BY DEF Fresh, Wf

\* A step of a row belongs to a workflow that has been created.
LEMMA NotFresh ==
  ASSUME Fresh, NEW s \in Row, step[s] # "ABSENT"
  PROVE  workflow[Wf(s)] # "ABSENT"
BY RowParts DEF Fresh

\* A workflow that a step leaves alone stays in turn, if the request that goes on is
\* about another one.
LEMMA InTurnOn ==
  ASSUME TypeOK, NEW w \in Workflow, InTurn(w), Kept(w), NEW h \in Handler, NEW r \in Request,
         request' = [request EXCEPT ![h] = r],
         r.op \in {"decide", "clone"} => Wf(r.step) # w
  PROVE  InTurn(w)'
<1>1. \A s : s \in InReview(w)' <=> s \in InReview(w)
  BY DEF InReview, Kept, Wf
<1>2. \A s \in InReview(w)' : Order(s) = current'[w]
  BY <1>1 DEF InTurn, Kept
<1>3. \A o \in 1 .. Steps : <<w, o>> \in signed' <=> o < current'[w]
  BY DEF InTurn, Kept
<1>4. ASSUME NEW g \in Handler,
             About(g, "decide", w)' \/ About(g, "clone", w)'
      PROVE  /\ request'[g] = request[g] /\ request[g].step \in Row
             /\ About(g, "decide", w)' => About(g, "decide", w)
             /\ About(g, "clone", w)' => About(g, "clone", w)
  <2>0. request \in [Handler -> Request]
    BY DEF TypeOK
  <2>1. g # h
    BY <1>4, <2>0 DEF About, Serves, Wf
  <2>2. request'[g] = request[g] /\ request[g] \in Request
    BY <2>0, <2>1
  <2>3. request[g].step \in Row
    BY <1>4, <2>2, Carried DEF About, Serves
  <2> QED BY <1>4, <2>2, <2>3 DEF About, Serves, Wf
<1>5. ASSUME NEW g \in Handler, About(g, "decide", w)'
      PROVE  step'[request'[g].step] = "IN_REVIEW"
  <2>1. request'[g] = request[g] /\ request[g].step \in Row /\ About(g, "decide", w)
    BY <1>4, <1>5
  <2> QED BY <2>1 DEF InTurn, Kept, About
<1>6. ASSUME NEW g \in Handler, About(g, "clone", w)'
      PROVE  InReview(w)' = {} /\ Order(request'[g].step) = current'[w]
  <2>1. request'[g] = request[g] /\ request[g].step \in Row /\ About(g, "clone", w)
    BY <1>4, <1>6
  <2> QED BY <1>1, <2>1 DEF InTurn, Kept
<1> QED BY <1>1, <1>2, <1>3, <1>5, <1>6 DEF InTurn, Order

\* When the request in service is answered, there is none.
LEMMA ThenQuiet ==
  ASSUME TypeOK, OneServed, NEW h \in Handler, request[h] # Idle,
         request' = [request EXCEPT ![h] = Idle]
  PROVE  Quiet' /\ \A g \in Handler : \A w : ~About(g, "decide", w)' /\ ~About(g, "clone", w)'
<1>1. \A g \in Handler : request'[g] = Idle
  BY DEF OneServed, TypeOK
<1> QED BY <1>1 DEF Quiet, About, Serves, Idle

LEMMA SequentialOn ==
  ASSUME TypeOK, Sequential, NEW h \in Handler, NEW r \in Request,
         request' = [request EXCEPT ![h] = r],
         (request[h] # Idle /\ overlapped' = overlapped) \/ Reads(h, r),
         \A w \in Workflow : ~overlapped /\ OneServed /\ Regular(w)' =>
           \/ Kept(w) /\ (r.op \in {"decide", "clone"} => Wf(r.step) # w)
           \/ InTurn(w)'
  PROVE  Sequential'
<1> SUFFICES ASSUME ~overlapped' PROVE OneServed' /\ \A w \in Workflow : Regular(w)' => InTurn(w)'
  BY DEF Sequential
<1>1. ~overlapped /\ OneServed
  BY DEF Reads, Sequential, TypeOK
<1>2. OneServed'
  <2>1. \A g \in Handler : g # h => request[g] = Idle /\ request'[g] = request[g]
    BY <1>1 DEF Reads, OneServed, Quiet, TypeOK
  <2> QED BY <2>1 DEF OneServed, Idle
<1>3. ASSUME NEW w \in Workflow, Regular(w)' PROVE InTurn(w)'
  <2>1. Kept(w) => InTurn(w)
    BY <1>1 DEF Sequential, Kept
  <2> QED BY <1>1, <1>3, <2>1, InTurnOn
<1> QED BY <1>2, <1>3

\* A step that only changes what a request is about to do, and does not decide or clone.
LEMMA OtherRequest ==
  ASSUME TypeOK, Fresh, Sequential, NEW h \in Handler, NEW r \in Request,
         request' = [request EXCEPT ![h] = r], r.op \notin {"decide", "clone"},
         (request[h] # Idle /\ overlapped' = overlapped) \/ Reads(h, r),
         UNCHANGED <<step, current, posted, signed, handed>>,
         \A w \in Workflow : workflow'[w] \in {"ABSENT", "IN_PROGRESS"} => workflow'[w] = workflow[w]
  PROVE  Fresh' /\ Sequential'
<1>1. Fresh'
  BY FreshOn
<1>2. \A w \in Workflow : Regular(w)' => Kept(w)
  BY DEF Regular, OneFirst, Order, Kept
<1> QED BY <1>1, <1>2, SequentialOn

LEMMA CreateInTurn ==
  ASSUME Inv, TypeOK', Fresh, Sequential, NEW h \in Handler, NEW w \in Workflow,
         NEW S \in SUBSET StepsOf(w), Create(h, w, S)
  PROVE  Fresh' /\ Sequential'
<1>1. /\ \A s \in Row : step'[s] =
           IF s \in S THEN IF Order(s) = 1 THEN "IN_REVIEW" ELSE "PENDING" ELSE step[s]
      /\ \A v \in Workflow : posted'[v] = IF v = w THEN S ELSE posted[v]
      /\ \A v \in Workflow : v # w => workflow'[v] = workflow[v]
      /\ workflow[w] = "ABSENT" /\ workflow'[w] = "IN_PROGRESS"
      /\ request[h] # Idle /\ overlapped' = overlapped
      /\ request' = [request EXCEPT ![h] = Idle]
      /\ UNCHANGED <<current, signed, handed>>
  BY DEF Create, Initial, Serves, Idle, Answers, Continues, Inv, TypeOK
<1>a. \A s \in S : s \in Row /\ Wf(s) = w
  BY RowsOf
<1>2. Fresh'
  BY <1>1, <1>a, FreshOn
<1>3. ASSUME NEW v \in Workflow, OneServed, Regular(v)', v = w PROVE InTurn(v)'
  <2>1. /\ current'[w] = 1 /\ \A o \in 1 .. Steps : <<w, o>> \notin signed'
        /\ \A s \in Row : Wf(s) = w => step[s] = "ABSENT"
    BY <1>1 DEF Fresh
  <2>2. \A o \in 1 .. Steps : <<w, o>> \in signed' <=> o < current'[w]
    BY <2>1, StepsAssumption
  <2>3. PICK first \in S : \A t \in S : Order(t) = 1 <=> t = first
    <3>1. OneFirst(w)' /\ posted'[w] = S
      BY <1>1, <1>3 DEF Regular
    <3> QED BY <3>1 DEF OneFirst, Order
  <2>4. \A s \in InReview(w)' : s = first /\ Order(s) = 1
    <3> SUFFICES ASSUME NEW s \in Row, Wf(s) = w, step'[s] = "IN_REVIEW"
                 PROVE  s = first /\ Order(s) = 1
      BY DEF InReview, Wf
    <3> QED BY <1>1, <2>1, <2>3
  <2>5. \A g \in Handler : ~About(g, "decide", v)' /\ ~About(g, "clone", v)'
    BY <1>1, <1>3, ThenQuiet DEF Inv
  <2> QED BY <1>3, <2>1, <2>2, <2>4, <2>5 DEF InTurn, Order
<1>4. ASSUME NEW v \in Workflow, v # w, Regular(v)' PROVE Kept(v)
  <2>1. Regular(v)
    <3>1. OneFirst(v)' /\ posted'[v] = posted[v]
      BY <1>1, <1>4 DEF Regular
    <3>2. OneFirst(v)
      BY <3>1 DEF OneFirst, Order
    <3> QED BY <1>1, <1>4, <3>2 DEF Regular
  <2>2. \A s \in Row : Wf(s) = v => step'[s] = step[s]
    BY <1>1, <1>a, <1>4
  <2> QED BY <1>1, <2>1, <2>2 DEF Kept
<1>5. Idle \in Request /\ Idle.op \notin {"decide", "clone"}
  BY DEF Idle, Request
<1>6. Sequential'
  BY <1>1, <1>3, <1>4, <1>5, SequentialOn DEF Inv
<1> QED BY <1>2, <1>6

\* The step a request is about to decide is the only one in review.
LEMMA DecidesInTurn ==
  ASSUME Inv, Fresh, Sequential, NEW h \in Handler, Decides(h)
  PROVE  \E s \in Row, next \in Row \cup {NoStep} :
           /\ request[h].step = s /\ request[h].next = next
           /\ workflow[Wf(s)] # "ABSENT" /\ Wf(s) \in Workflow /\ Order(s) \in 1 .. Steps
           /\ next # NoStep => Wf(next) = Wf(s) /\ Order(next) = Order(s) + 1
           /\ request[h] # Idle /\ overlapped' = overlapped /\ UNCHANGED <<posted, handed>>
           /\ request' = [request EXCEPT ![h] = Idle]
           /\ ~overlapped /\ Regular(Wf(s)) =>
                /\ InReview(Wf(s)) = {s} /\ Order(s) = current[Wf(s)]
                /\ \A o \in 1 .. Steps : <<Wf(s), o>> \in signed <=> o < current[Wf(s)]
<1>1. PICK s \in Row, next \in Row \cup {NoStep} :
        /\ request[h].step = s /\ request[h].next = next /\ step[s] # "ABSENT"
        /\ next # NoStep => Wf(next) = Wf(s) /\ Order(next) = Order(s) + 1
        /\ UNCHANGED <<posted, handed>> /\ request' = [request EXCEPT ![h] = Idle]
  BY DecidesUpon
<1>2. request[h] # Idle /\ overlapped' = overlapped /\ Serves(h, "decide")
  BY DEF Decides, Serves, Idle, Answers, Continues
<1>3. workflow[Wf(s)] # "ABSENT" /\ Wf(s) \in Workflow /\ Order(s) \in 1 .. Steps
  BY <1>1, NotFresh, RowParts
<1>4. ASSUME ~overlapped, Regular(Wf(s))
      PROVE  /\ InReview(Wf(s)) = {s} /\ Order(s) = current[Wf(s)]
             /\ \A o \in 1 .. Steps : <<Wf(s), o>> \in signed <=> o < current[Wf(s)]
  <2>1. InTurn(Wf(s))
    BY <1>3, <1>4 DEF Sequential
  <2>2. s \in InReview(Wf(s))
    BY <1>1, <1>2, <2>1 DEF InTurn, About, InReview
  <2> QED BY <2>1, <2>2 DEF InTurn
<1> QED BY <1>1, <1>2, <1>3, <1>4

LEMMA AdvanceInTurn ==
  ASSUME Inv, TypeOK', Fresh, Sequential, NEW h \in Handler, Advance(h)
  PROVE  Fresh' /\ Sequential'
<1>1. PICK s \in Row, next \in Row :
        /\ step' = [step EXCEPT ![s] = "APPROVED", ![next] = "IN_REVIEW"]
        /\ current' = [current EXCEPT ![Wf(s)] = Order(next)]
        /\ signed' = signed \cup {<<Wf(s), Order(s)>>} /\ workflow' = workflow
        /\ workflow[Wf(s)] # "ABSENT" /\ Wf(s) \in Workflow /\ Order(s) \in 1 .. Steps
        /\ Wf(next) = Wf(s) /\ Order(next) = Order(s) + 1
        /\ request[h] # Idle /\ overlapped' = overlapped /\ UNCHANGED <<posted, handed>>
        /\ request' = [request EXCEPT ![h] = Idle]
        /\ ~overlapped /\ Regular(Wf(s)) =>
             /\ InReview(Wf(s)) = {s} /\ Order(s) = current[Wf(s)]
             /\ \A o \in 1 .. Steps : <<Wf(s), o>> \in signed <=> o < current[Wf(s)]
  <2>1. Decides(h)
    BY DEF Advance
  <2> QED BY <2>1, DecidesInTurn DEF Advance, Sign
<1> DEFINE w == Wf(s)
<1>2. next # s
  BY <1>1
<1>3. \A t \in Row : step'[t] = IF t = next THEN "IN_REVIEW"
                                ELSE IF t = s THEN "APPROVED" ELSE step[t]
  BY <1>1, <1>2 DEF Inv, TypeOK
<1>4. /\ \A v \in Workflow : current'[v] = IF v = w THEN Order(next) ELSE current[v]
      /\ \A v \in Workflow, o \in 1 .. Steps :
           <<v, o>> \in signed' <=> <<v, o>> \in signed \/ (v = w /\ o = Order(s))
  BY <1>1 DEF Inv, TypeOK
<1>5. Fresh'
  BY <1>1, <1>3, <1>4, FreshOn
<1>6. ASSUME ~overlapped, OneServed, Regular(w)' PROVE InTurn(w)'
  <2>1. Regular(w)
    BY <1>1, <1>6 DEF Regular, OneFirst, Order, Wf
  <2>2. \A t \in InReview(w)' : t = next
    <3> SUFFICES ASSUME NEW t \in Row, Wf(t) = w, step'[t] = "IN_REVIEW", t # next
                 PROVE  FALSE
      BY DEF InReview, Wf
    <3>1. t # s /\ step[t] = "IN_REVIEW"
      BY <1>3
    <3>2. t \in InReview(w)
      BY <3>1 DEF InReview
    <3> QED BY <1>1, <1>6, <2>1, <3>1, <3>2
  <2>3. current'[w] = current[w] + 1 /\ current'[w] = Order(next)
    BY <1>1, <1>4, <1>6, <2>1
  <2>4. \A o \in 1 .. Steps : <<w, o>> \in signed' <=> o < current'[w]
    BY <1>1, <1>4, <1>6, <2>1, <2>3
  <2>5. \A g \in Handler : ~About(g, "decide", w)' /\ ~About(g, "clone", w)'
    BY <1>1, <1>6, ThenQuiet DEF Inv, Wf
  <2> QED BY <2>2, <2>3, <2>4, <2>5 DEF InTurn, Order, Wf
<1>7. \A v \in Workflow : v # w /\ Regular(v)' => Kept(v)
  BY <1>1, <1>3, <1>4 DEF Regular, OneFirst, Order, Kept
<1>8. Idle \in Request /\ Idle.op \notin {"decide", "clone"}
  BY DEF Idle, Request
<1>9. Sequential'
  BY <1>1, <1>6, <1>7, <1>8, SequentialOn DEF Inv, Wf
<1> QED BY <1>5, <1>9

\* A decision that ends its workflow: the workflow is not in progress any more.
LEMMA EndInTurn ==
  ASSUME Inv, TypeOK', Fresh, Sequential, NEW h \in Handler, Finish(h) \/ Reject(h)
  PROVE  Fresh' /\ Sequential'
<1>1. PICK s \in Row :
        /\ \E to \in {"APPROVED", "REJECTED"} :
             /\ step' = [step EXCEPT ![s] = to]
             /\ workflow' = [workflow EXCEPT ![Wf(s)] = to]
        /\ signed' \in {signed, signed \cup {<<Wf(s), Order(s)>>}} /\ current' = current
        /\ Wf(s) \in Workflow
        /\ request[h] # Idle /\ overlapped' = overlapped /\ UNCHANGED <<posted, handed>>
        /\ request' = [request EXCEPT ![h] = Idle]
  <2>1. Decides(h)
    BY DEF Finish, Reject
  <2> QED BY <2>1, DecidesInTurn DEF Finish, Reject, Sign
<1>2. \A v \in Workflow : workflow'[v] \in {"ABSENT", "IN_PROGRESS"} =>
        /\ v # Wf(s) /\ workflow'[v] = workflow[v]
        /\ \A t \in Row : Wf(t) = v => step'[t] = step[t]
        /\ \A o \in 1 .. Steps : <<v, o>> \in signed' <=> <<v, o>> \in signed
  BY <1>1 DEF Inv, TypeOK
<1>3. Fresh'
  BY <1>1, <1>2, FreshOn
<1>4. \A v \in Workflow : Regular(v)' => Kept(v)
  BY <1>1, <1>2 DEF Regular, OneFirst, Order, Kept
<1>5. Idle \in Request /\ Idle.op \notin {"decide", "clone"}
  BY DEF Idle, Request
<1>6. Sequential'
  BY <1>1, <1>4, <1>5, SequentialOn DEF Inv
<1> QED BY <1>3, <1>6

LEMMA ChangesInTurn ==
  ASSUME Inv, TypeOK', Fresh, Sequential, NEW h \in Handler, RequestChanges(h)
  PROVE  Fresh' /\ Sequential'
<1>1. PICK s \in Row :
        /\ step' = [step EXCEPT ![s] = "IN_REVIEW"]
        /\ UNCHANGED <<workflow, signed, current>>
        /\ workflow[Wf(s)] # "ABSENT" /\ Wf(s) \in Workflow
        /\ request[h] # Idle /\ overlapped' = overlapped /\ UNCHANGED <<posted, handed>>
        /\ request' = [request EXCEPT ![h] = Idle]
        /\ ~overlapped /\ Regular(Wf(s)) => InReview(Wf(s)) = {s}
  <2>1. Decides(h)
    BY DEF RequestChanges
  <2> QED BY <2>1, DecidesInTurn DEF RequestChanges
<1>2. \A t \in Row : step'[t] = IF t = s THEN "IN_REVIEW" ELSE step[t]
  BY <1>1 DEF Inv, TypeOK
<1>3. Fresh'
  BY <1>1, <1>2, FreshOn
<1>4. ASSUME ~overlapped, NEW v \in Workflow, Regular(v)' PROVE Kept(v)
  <2>1. Regular(v)
    BY <1>1, <1>4 DEF Regular, OneFirst, Order
  <2>2. v = Wf(s) => step[s] = "IN_REVIEW"
    BY <1>1, <1>4, <2>1 DEF InReview
  <2> QED BY <1>1, <1>2, <2>1, <2>2 DEF Kept
<1>5. Idle \in Request /\ Idle.op \notin {"decide", "clone"}
  BY DEF Idle, Request
<1>6. Sequential'
  BY <1>1, <1>4, <1>5, SequentialOn DEF Inv
<1> QED BY <1>3, <1>6

LEMMA DelegateInTurn ==
  ASSUME Inv, TypeOK', Fresh, Sequential, NEW h \in Handler, Delegate(h)
  PROVE  Fresh' /\ Sequential'
<1>1. PICK s \in Row :
        /\ request[h].step = s /\ step[s] # "ABSENT"
        /\ step' = [step EXCEPT ![s] = "DELEGATED"]
        /\ handed' = [handed EXCEPT ![Wf(s)] = HandedOn(Wf(s), step[s])]
        /\ request' = [request EXCEPT ![h] = [op |-> "clone", step |-> s]]
        /\ overlapped' = overlapped /\ UNCHANGED <<workflow, current, posted, signed>>
  <2>1. request[h] \in Request /\ StillHolds(request[h]) /\ request[h].op = "delegate"
    BY DEF Inv, TypeOK, RequestsStand, Delegate, Serves
  <2>2. request[h].step \in Row
    BY <2>1, Carried
  <2> QED BY <2>1, <2>2 DEF StillHolds, Delegate, Serves, Continues
<1>a. request[h] # Idle
  BY DEF Delegate, Serves, Idle
<1> DEFINE w == Wf(s)
<1> DEFINE r == [op |-> "clone", step |-> s]
<1>2. w \in Workflow /\ workflow[w] # "ABSENT"
  BY <1>1, NotFresh, RowParts
<1>3. /\ \A t \in Row : step'[t] = IF t = s THEN "DELEGATED" ELSE step[t]
      /\ \A v \in Workflow : handed'[v] = IF v = w THEN HandedOn(w, step[s]) ELSE handed[v]
  BY <1>1 DEF Inv, TypeOK
<1>4. Fresh'
  BY <1>1, <1>2, <1>3, FreshOn
<1>5. ASSUME ~overlapped, OneServed, Regular(w)' PROVE InTurn(w)'
  <2>1. HandedOn(w, step[s]) = "only in review"
    BY <1>2, <1>3, <1>5 DEF Regular, Wf
  <2>2. step[s] = "IN_REVIEW" /\ handed[w] = "only in review"
    BY <2>1 DEF HandedOn
  <2>3. Regular(w)
    BY <1>1, <1>5, <2>2 DEF Regular, OneFirst, Order, Wf
  <2>4. InTurn(w) /\ s \in InReview(w)
    BY <1>2, <1>5, <2>2, <2>3 DEF Sequential, InReview
  <2>5. InReview(w)' = {}
    <3> SUFFICES ASSUME NEW t \in Row, Wf(t) = w, step'[t] = "IN_REVIEW" PROVE FALSE
      BY DEF InReview, Wf
    <3>1. t # s /\ t \in InReview(w)
      BY <1>3 DEF InReview
    <3> QED BY <2>4, <3>1 DEF InTurn
  <2>6. ASSUME NEW g \in Handler, About(g, "decide", w)' \/ About(g, "clone", w)'
        PROVE  g = h /\ request'[g] = r
    <3>1. request \in [Handler -> Request]
      BY DEF Inv, TypeOK
    <3>2. CASE g # h
      <4>1. request[g] = Idle /\ request'[g] = request[g]
        BY <1>1, <1>a, <1>5, <3>1, <3>2 DEF OneServed
      <4> QED BY <2>6, <4>1 DEF About, Serves, Idle
    <3>3. CASE g = h
      BY <1>1, <3>1, <3>3
    <3> QED BY <3>2, <3>3
  <2>7. \A g \in Handler : ~About(g, "decide", w)'
    BY <2>6 DEF About, Serves
  <2>8. \A g \in Handler : About(g, "clone", w)' => Order(request'[g].step) = current'[w]
    BY <1>1, <2>4, <2>6 DEF InTurn
  <2> QED BY <1>1, <2>4, <2>5, <2>7, <2>8 DEF InTurn, Order
<1>6. \A v \in Workflow : v # w /\ Regular(v)' => Kept(v)
  BY <1>1, <1>3 DEF Regular, OneFirst, Order, Kept
<1>7. r \in Request /\ r.step = s
  BY DEF Request
<1>8. Sequential'
  BY <1>1, <1>a, <1>5, <1>6, <1>7, SequentialOn DEF Inv, Wf
<1> QED BY <1>4, <1>8

LEMMA CloneInTurn ==
  ASSUME Inv, TypeOK', Fresh, Sequential, NEW h \in Handler, NEW t \in Row, Clone(h, t)
  PROVE  Fresh' /\ Sequential'
<1>1. PICK s \in Row :
        /\ request[h].step = s /\ step[s] # "ABSENT"
        /\ Wf(t) = Wf(s) /\ Order(t) = Order(s)
        /\ step' = [step EXCEPT ![t] = "IN_REVIEW"]
        /\ request' = [request EXCEPT ![h] = Idle]
        /\ Serves(h, "clone") /\ request[h] # Idle /\ overlapped' = overlapped
        /\ UNCHANGED <<workflow, current, posted, signed, handed>>
  <2>1. request[h] \in Request /\ StillHolds(request[h]) /\ request[h].op = "clone"
    BY DEF Inv, TypeOK, RequestsStand, Clone, Serves
  <2>2. request[h].step \in Row
    BY <2>1, Carried
  <2> QED BY <2>1, <2>2 DEF StillHolds, Clone, Serves, Answers, Continues, Idle, history
<1> DEFINE w == Wf(t)
<1>2. w \in Workflow /\ workflow[w] # "ABSENT"
  BY <1>1, NotFresh, RowParts
<1>3. \A u \in Row : step'[u] = IF u = t THEN "IN_REVIEW" ELSE step[u]
  BY <1>1 DEF Inv, TypeOK
<1>4. Fresh'
  BY <1>1, <1>2, <1>3, FreshOn
<1>5. ASSUME ~overlapped, OneServed, Regular(w)' PROVE InTurn(w)'
  <2>1. Regular(w) /\ InTurn(w)
    BY <1>1, <1>2, <1>5 DEF Regular, OneFirst, Order, Sequential, Wf
  <2>2. InReview(w) = {} /\ Order(t) = current[w]
    BY <1>1, <2>1 DEF InTurn, About
  <2>3. \A u \in InReview(w)' : u = t
    <3> SUFFICES ASSUME NEW u \in Row, Wf(u) = w, step'[u] = "IN_REVIEW", u # t PROVE FALSE
      BY DEF InReview, Wf
    <3>1. u \in InReview(w)
      BY <1>3 DEF InReview
    <3> QED BY <2>2, <3>1
  <2>4. \A g \in Handler : ~About(g, "decide", w)' /\ ~About(g, "clone", w)'
    BY <1>1, <1>5, ThenQuiet DEF Inv, Wf
  <2> QED BY <1>1, <2>1, <2>2, <2>3, <2>4 DEF InTurn, Order, Wf
<1>6. \A v \in Workflow : v # w /\ Regular(v)' => Kept(v)
  BY <1>1, <1>3 DEF Regular, OneFirst, Order, Kept
<1>7. Idle \in Request /\ Idle.op \notin {"decide", "clone"}
  BY DEF Idle, Request
<1>8. Sequential'
  BY <1>1, <1>5, <1>6, <1>7, SequentialOn DEF Inv, Wf
<1> QED BY <1>4, <1>8

LEMMA ReadsInTurn ==
  ASSUME Inv, TypeOK', Fresh, Sequential, NEW h \in Handler, NEW s \in Row, DecisionReads(h, s)
  PROVE  Fresh' /\ Sequential'
<1>1. PICK next \in Row \cup {NoStep} : Reads(h, [op |-> "decide", step |-> s, next |-> next])
  BY DEF DecisionReads, Following
<1> DEFINE w == Wf(s)
<1> DEFINE r == [op |-> "decide", step |-> s, next |-> next]
<1>2. /\ step[s] = "IN_REVIEW" /\ request' = [request EXCEPT ![h] = r]
      /\ UNCHANGED <<workflow, current, step, posted, signed, handed>>
  BY <1>1 DEF DecisionReads, Reads, rows, history
<1>3. Fresh'
  BY <1>2, FreshOn
<1>4. r \in Request /\ r.step = s /\ r.op = "decide"
  BY DEF Request
<1>5. ASSUME ~overlapped, OneServed, Regular(w)' PROVE InTurn(w)'
  <2>1. Regular(w) /\ InTurn(w) /\ s \in InReview(w)
    BY <1>2, <1>5, RowParts DEF Regular, OneFirst, Order, Sequential, InReview, Wf
  <2>2. InReview(w)' = InReview(w)
    BY <1>2 DEF InReview, Wf
  <2>3. ASSUME NEW g \in Handler
        PROVE  /\ ~About(g, "clone", w)'
               /\ About(g, "decide", w)' => step'[request'[g].step] = "IN_REVIEW"
    <3>1. request \in [Handler -> Request]
      BY DEF Inv, TypeOK
    <3>2. CASE g = h
      BY <1>2, <1>4, <3>1, <3>2 DEF About, Serves
    <3>3. CASE g # h
      <4>1. request'[g] = request[g]
        BY <1>2, <3>1, <3>3
      <4> QED BY <1>2, <2>1, <4>1 DEF InTurn, About, Serves, Wf
    <3> QED BY <3>2, <3>3
  <2>4. InTurn(w)'
    BY <1>2, <2>1, <2>2, <2>3 DEF InTurn, Order
  <2> QED BY <2>4
<1>6. \A v \in Workflow : v # w /\ Regular(v)' => Kept(v)
  BY <1>2 DEF Regular, OneFirst, Order, Kept
<1>7. Sequential'
  BY <1>1, <1>2, <1>4, <1>5, <1>6, SequentialOn DEF Inv, Wf
<1> QED BY <1>3, <1>7

LEMMA StaleInTurn ==
  ASSUME Inv, Fresh, Sequential,
         \/ FindStale \/ \E w \in Workflow : Escalate(w) \/ EscalationFails(w)
         \/ (\E status \in DocumentStatus : UpdateStatus(status)) \/ UNCHANGED vars
  PROVE  Fresh' /\ Sequential'
<1>1. /\ UNCHANGED <<step, current, posted, signed, handed, request>>
      /\ overlapped => overlapped'
      /\ \A w \in Workflow : workflow'[w] # workflow[w] => workflow'[w] = "ESCALATED"
  BY DEF FindStale, Escalate, EscalationFails, UpdateStatus, AtOnce, vars, rows, history,
         requests, Inv, TypeOK
<1>2. Fresh'
  BY <1>1, FreshOn
<1>3. ASSUME NEW w \in Workflow, InTurn(w) PROVE InTurn(w)'
  BY <1>1, <1>3 DEF InTurn, InReview, About, Serves, Wf, Order
<1>4. \A w \in Workflow : Regular(w)' => Regular(w)
  BY <1>1 DEF Regular, OneFirst, Order
<1> QED BY <1>1, <1>2, <1>3, <1>4 DEF Sequential, OneServed

LEMMA StepSequential ==
  ASSUME Inv, Inv', Fresh, Sequential, [Next]_vars
  PROVE  Fresh' /\ Sequential'
<1>1. TypeOK /\ TypeOK'
  BY DEF Inv
<1>2. ASSUME NEW h \in Handler, CreateReads(h) PROVE Fresh' /\ Sequential'
  <2>1. [op |-> "create"] \in Request
    BY DEF Request
  <2> QED BY <1>1, <1>2, <2>1, OtherRequest DEF CreateReads, Reads, rows, history
<1>3. ASSUME NEW h \in Handler, NEW s \in Row, DelegationReads(h, s) PROVE Fresh' /\ Sequential'
  <2>1. [op |-> "delegate", step |-> s] \in Request
    BY DEF Request
  <2> QED BY <1>1, <1>3, <2>1, OtherRequest DEF DelegationReads, Reads, rows, history
<1>4. ASSUME NEW h \in Handler, NEW w \in Workflow, CancelReads(h, w) PROVE Fresh' /\ Sequential'
  <2>1. [op |-> "cancel", workflow |-> w] \in Request
    BY DEF Request
  <2> QED BY <1>1, <1>4, <2>1, OtherRequest DEF CancelReads, Reads, rows, history
<1>5. ASSUME NEW h \in Handler, Cancel(h) \/ BreaksOff(h) PROVE Fresh' /\ Sequential'
  <2>1. Idle \in Request /\ Idle.op \notin {"decide", "clone"}
    BY DEF Idle, Request
  <2>2. /\ request' = [request EXCEPT ![h] = Idle]
        /\ request[h] # Idle /\ overlapped' = overlapped
        /\ UNCHANGED <<step, current, posted, signed, handed>>
    BY <1>5 DEF Cancel, BreaksOff, Serves, Idle, Answers, Continues, rows, history
  <2>3. \A w \in Workflow : workflow'[w] \in {"ABSENT", "IN_PROGRESS"} => workflow'[w] = workflow[w]
    BY <1>1, <1>5 DEF Cancel, BreaksOff, TypeOK, rows
  <2> QED BY <1>1, <2>1, <2>2, <2>3, OtherRequest
<1> QED
  BY <1>1, <1>2, <1>3, <1>4, <1>5, CreateInTurn, AdvanceInTurn, EndInTurn, ChangesInTurn,
     DelegateInTurn, CloneInTurn, ReadsInTurn, StaleInTurn DEF Next

LEMMA SequentialInit == Init => Fresh /\ Sequential
<1> SUFFICES ASSUME Init PROVE Fresh /\ Sequential
  OBVIOUS
<1>1. Fresh
  BY RowParts DEF Init, Fresh
<1>2. \A h \in Handler : request[h] = Idle
  BY DEF Init, RequestsInit
<1>3. \A w \in Workflow : ~Regular(w)
  BY DEF Init, Regular
<1> QED BY <1>1, <1>2, <1>3 DEF Sequential, OneServed

LEMMA SequentialOne == Inv /\ Sequential => OneInReview
<1> SUFFICES ASSUME Inv, Sequential, ~overlapped, Quiet, NEW w \in Workflow \ dropped, Regular(w)
             PROVE  /\ \E s \in Row : InReview(w) = {s} /\ Order(s) = current[w]
                    /\ \A o \in 1 .. Steps : <<w, o>> \in signed <=> o < current[w]
  BY DEF OneInReview, Regular
<1>1. InTurn(w)
  BY DEF Sequential
<1>2. InReview(w) # {}
  <2>1. ~ \E h \in Handler : Serves(h, "clone")
    BY DEF Quiet, Serves, Idle
  <2>2. Decidable /\ workflow[w] = "IN_PROGRESS" /\ 1 \in Orders(w)
    BY DEF Inv, Regular, OneFirst, Orders
  <2> QED BY <2>1, <2>2 DEF Decidable
<1>3. PICK s : s \in InReview(w)
  BY <1>2
<1>4. s \in Row /\ InReview(w) = {s} /\ Order(s) = current[w]
  BY <1>1, <1>3 DEF InTurn, InReview
<1> QED BY <1>1, <1>4 DEF InTurn

\* When requests come one after the other and only steps in review are delegated, a
\* workflow in progress that was posted with one step of order 1 has one step in review,
\* of order currentStepOrder, and exactly the orders before it are signed (createWorkflow,
\* processStep, delegateStep).
THEOREM InOrder == Spec => []OneInReview
BY Invariant, SequentialInit, StepSequential, SequentialOne, PTL DEF Spec
=============================================================================
