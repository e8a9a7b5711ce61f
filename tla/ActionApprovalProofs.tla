------------------------ MODULE ActionApprovalProofs ------------------------
(***************************************************************************)
(* Proofs about the approval pipeline, for any number of proposals,         *)
(* reviewers and concurrent requests.                                       *)
(***************************************************************************)
EXTENDS ActionApproval, TLAPS

USE DEF Status, Round, Phase, Working, row, history, handlers

\* Nothing has happened before the first request: the rows are as proposed.
LEMMA InitTypeOK == Init => TypeOK
<1> SUFFICES ASSUME Init PROVE TypeOK
  OBVIOUS
<1>1. 0 \in 0 .. MaxRounds
  BY RoundsAssumption
<1>2. /\ round \in [Action -> 0 .. MaxRounds]
      /\ claim \in [Handler -> 0 .. MaxRounds]
  BY <1>1 DEF Init
<1>3. effects \in [Action -> [Round -> Nat]]
  BY DEF Init
<1> QED
  BY <1>2, <1>3 DEF Init, TypeOK

\* Counting one more effect gives a count of effects.
LEMMA IncrementIsCount ==
  ASSUME NEW f \in [Round -> Nat], NEW n \in 0 .. MaxRounds
  PROVE  [f EXCEPT ![n] = @ + 1] \in [Round -> Nat]
<1>1. ASSUME NEW m \in Round PROVE [f EXCEPT ![n] = @ + 1][m] \in Nat
  <2>1. CASE m = n  BY <2>1
  <2>2. CASE m # n  BY <2>2
  <2> QED BY <2>1, <2>2
<1> QED
  BY <1>1

\* Every handler and every fault keeps the types.
LEMMA StepTypeOK == TypeOK /\ [Next]_vars => TypeOK'
<1> SUFFICES ASSUME TypeOK, [Next]_vars PROVE TypeOK'
  OBVIOUS
<1> USE RoundsAssumption, HandlerAssumption DEF TypeOK, Goto
<1>1. ASSUME NEW a \in Action, Create(a) PROVE TypeOK'
  <2>1. 1 \in 0 .. MaxRounds
    OBVIOUS
  <2>2. round' \in [Action -> 0 .. MaxRounds]
    BY <1>1, <2>1 DEF Create
  <2> QED
    BY <1>1, <2>2 DEF Create
<1>2. ASSUME NEW a \in Action, NEW r \in Reviewer, Reject(a, r) PROVE TypeOK'
  BY <1>2 DEF Reject
<1>3. ASSUME NEW h \in Handler, NEW a \in Action, NEW r \in Reviewer,
             Approve(h, a, r)
      PROVE  TypeOK'
  BY <1>3 DEF Approve, Approvable
<1>4. ASSUME NEW h \in Handler, NEW a \in Action, RetryRead(h, a)
      PROVE  TypeOK'
  BY <1>4 DEF RetryRead, Retryable
<1>5. ASSUME NEW h \in Handler, Continue(h) PROVE TypeOK'
  <2>1. CASE Dispatch(h)          BY <2>1 DEF Dispatch
  <2>2. CASE LoadFails(h)         BY <2>2 DEF LoadFails
  <2>3. CASE ExecutorSucceeds(h)
    <3>2. on[h] \in Action /\ claim[h] \in 0 .. MaxRounds
      OBVIOUS
    <3>3. effects' =
            [effects EXCEPT ![on[h]] = [effects[on[h]] EXCEPT ![claim[h]] = @ + 1]]
      BY <2>3 DEF ExecutorSucceeds
    <3>4. effects' \in [Action -> [Round -> Nat]]
      BY <3>2, <3>3, IncrementIsCount
    <3> QED BY <2>3, <3>4 DEF ExecutorSucceeds
  <2>4. CASE ExecutorThrows(h)    BY <2>4 DEF ExecutorThrows
  <2>5. CASE MarkExecuted(h)      BY <2>5 DEF MarkExecuted, Settle
  <2>6. CASE MarkExecutedFails(h) BY <2>6 DEF MarkExecutedFails
  <2>7. CASE MarkFailed(h)        BY <2>7 DEF MarkFailed, Settle
  <2>8. CASE MarkFailedFails(h)   BY <2>8 DEF MarkFailedFails
  <2>9. CASE RetryWrite(h)
    <3>1. round[on[h]] + 1 \in 0 .. MaxRounds
      BY <2>9 DEF RetryWrite
    <3>2. round' \in [Action -> 0 .. MaxRounds]
      BY <2>9, <3>1 DEF RetryWrite
    <3> QED
      BY <2>9, <3>2 DEF RetryWrite
  <2> QED
    BY <1>5, <2>1, <2>2, <2>3, <2>4, <2>5, <2>6, <2>7, <2>8, <2>9 DEF Continue
<1>6. CASE Crash
  BY <1>6 DEF Crash
<1>7. CASE UNCHANGED vars
  BY <1>7 DEF vars
<1> QED
  BY <1>1, <1>2, <1>3, <1>4, <1>5, <1>6, <1>7 DEF Next

\* Every variable of the pipeline keeps its type.
THEOREM TypeCorrect == Spec => []TypeOK
  BY InitTypeOK, StepTypeOK, PTL DEF Spec

-----------------------------------------------------------------------------
RoundsInv == TypeOK /\ Rounds /\ OneEffectPerApproval

\* Where an executor that succeeds is counted.
LEMMA EffectCounted ==
  ASSUME TypeOK, NEW h \in Handler, ExecutorSucceeds(h), claim[h] \in Round
  PROVE  \A a \in Action, n \in Round :
           effects'[a][n] = IF a = on[h] /\ n = claim[h]
                              THEN effects[a][n] + 1 ELSE effects[a][n]
  BY DEF TypeOK, ExecutorSucceeds

\* The invariant about rounds holds before any row is decided.
LEMMA InitRounds == Init => RoundsInv
<1> SUFFICES ASSUME Init PROVE Rounds /\ OneEffectPerApproval
  BY InitTypeOK DEF RoundsInv
<1> QED
  BY RoundsAssumption DEF Init, Rounds, RoundOK, ClaimOK, OneEffectPerApproval

\* Every step keeps the rounds apart: an approval belongs to one request, and
\* a request past its executor has been counted.
LEMMA StepRounds == RoundsInv /\ [Next]_vars => RoundsInv'
<1> SUFFICES ASSUME RoundsInv, [Next]_vars
             PROVE  Rounds' /\ OneEffectPerApproval'
  BY StepTypeOK DEF RoundsInv
<1>0. TypeOK /\ TypeOK' /\ Rounds /\ OneEffectPerApproval
  BY StepTypeOK DEF RoundsInv
<1> USE <1>0, RoundsAssumption, HandlerAssumption
        DEF TypeOK, Rounds, OneEffectPerApproval, Goto
<1>1. ASSUME NEW a \in Action, Create(a)
      PROVE  Rounds' /\ OneEffectPerApproval'
  BY <1>1 DEF Create, RoundOK, ClaimOK
<1>2. ASSUME NEW a \in Action, NEW r \in Reviewer, Reject(a, r)
      PROVE  Rounds' /\ OneEffectPerApproval'
  BY <1>2 DEF Reject, RoundOK, ClaimOK
<1>3. ASSUME NEW h \in Handler, NEW a \in Action, NEW r \in Reviewer,
             Approve(h, a, r)
      PROVE  Rounds' /\ OneEffectPerApproval'
  <2> USE <1>3 DEF Approve, Approvable
  <2>1. /\ status[a] = "PENDING" /\ round[a] \in Round
        /\ effects[a][round[a]] = 0
    BY DEF RoundOK
  <2>2. ASSUME NEW b \in Action PROVE RoundOK(b)'
    BY DEF RoundOK
  <2>3. ClaimOK(h)'
    BY <2>1 DEF ClaimOK
  <2>4. ASSUME NEW g \in Handler, g # h PROVE ClaimOK(g)'
    BY <2>4 DEF ClaimOK
  <2>5. ASSUME NEW g \in Handler, g # h, pc[g] \in Working, on[g] = a
        PROVE  claim[g] # round[a]
    BY <2>5, <2>1 DEF ClaimOK
  <2>6. OneEffectPerApproval'
    BY <2>5
  <2> QED
    BY <2>2, <2>3, <2>4, <2>6
<1>4. ASSUME NEW h \in Handler, NEW a \in Action, RetryRead(h, a)
      PROVE  Rounds' /\ OneEffectPerApproval'
  <2> USE <1>4 DEF RetryRead, Retryable
  <2>1. round[a] > 0
    BY DEF RoundOK
  <2>2. ASSUME NEW b \in Action PROVE RoundOK(b)'
    BY DEF RoundOK
  <2>3. ClaimOK(h)'
    BY <2>1 DEF ClaimOK
  <2>4. ASSUME NEW g \in Handler, g # h PROVE ClaimOK(g)'
    BY <2>4 DEF ClaimOK
  <2>5. OneEffectPerApproval'
    OBVIOUS
  <2> QED
    BY <2>2, <2>3, <2>4, <2>5
<1>5. ASSUME NEW h \in Handler, Continue(h)
      PROVE  Rounds' /\ OneEffectPerApproval'
  \* The steps of a request that change neither its row's round nor its
  \* effects, and advance or end the request.
  <2>0. ASSUME UNCHANGED <<round, effects, on, claim>>,
               status' = status \/
                 (pc[h] \in Working /\ \E s \in {"EXECUTED", "FAILED"} :
                    status' = [status EXCEPT ![on[h]] = s]),
               \A g \in Handler : pc'[g] \in Working => pc[g] \in Working,
               \A g \in Handler : pc'[g] \in {"claimed", "executing"} =>
                                     pc[g] \in {"claimed", "executing"},
               \A g \in Handler : pc'[g] = "retrying" => pc[g] = "retrying"
        PROVE  Rounds' /\ OneEffectPerApproval'
    <3>1. pc[h] \in Working => status[on[h]] # "ABSENT"
      BY DEF RoundOK, ClaimOK
    <3>2. ASSUME NEW b \in Action PROVE RoundOK(b)'
      BY <2>0, <3>1 DEF RoundOK
    <3>3. ASSUME NEW g \in Handler PROVE ClaimOK(g)'
      <4>1. status'[on[g]] = "PENDING" => status[on[g]] = "PENDING"
        BY <2>0
      <4> QED
        BY <2>0, <4>1 DEF ClaimOK
    <3>4. OneEffectPerApproval'
      <4>1. \A a \in Action, n \in Round : effects'[a][n] <= 1
        BY <2>0
      <4>2. ASSUME NEW f \in Handler, NEW g \in Handler,
                   pc'[f] \in Working, pc'[g] \in Working,
                   on'[f] = on'[g], claim'[f] = claim'[g]
            PROVE  f = g
        <5>1. pc[f] \in Working /\ pc[g] \in Working
          BY <2>0, <4>2
        <5>2. on[f] = on[g] /\ claim[f] = claim[g]
          BY <2>0, <4>2
        <5> QED
          BY <5>1, <5>2
      <4> QED
        BY <4>1, <4>2
    <3> QED
      BY <3>2, <3>3, <3>4
  <2>1. CASE Dispatch(h)          BY <2>0, <2>1 DEF Dispatch
  <2>2. CASE LoadFails(h)         BY <2>0, <2>2 DEF LoadFails
  <2>3. CASE ExecutorSucceeds(h)
    <3> USE <2>3 DEF ExecutorSucceeds
    <3>1. claim[h] \in Round /\ claim[h] <= round[on[h]]
      BY DEF ClaimOK
    <3>2. \A a \in Action, n \in Round :
            effects'[a][n] = IF a = on[h] /\ n = claim[h]
                               THEN effects[a][n] + 1 ELSE effects[a][n]
      BY <3>1, EffectCounted
    <3>3. effects[on[h]][claim[h]] = 0
      BY DEF ClaimOK
    <3>4. OneEffectPerApproval'
      <4>1. \A a \in Action, n \in Round : effects'[a][n] <= 1
        BY <3>1, <3>2, <3>3
      <4>2. \A g \in Handler : pc'[g] \in Working => pc[g] \in Working
        OBVIOUS
      <4> QED
        BY <4>1, <4>2
    <3>5. ASSUME NEW b \in Action PROVE RoundOK(b)'
      <4>1. ASSUME status[b] = "PENDING", b = on[h] PROVE claim[h] # round[b]
        BY <4>1 DEF ClaimOK
      <4>2. status[b] = "PENDING" => round[b] \in Round
        BY DEF RoundOK
      <4> QED
        BY <3>1, <3>2, <4>1, <4>2 DEF RoundOK
    <3>6. ClaimOK(h)'
      BY <3>1 DEF ClaimOK
    <3>7. ASSUME NEW g \in Handler, g # h PROVE ClaimOK(g)'
      <4>1. ASSUME pc[g] \in Working
            PROVE  claim[g] \in Round /\ (on[g] = on[h] => claim[g] # claim[h])
        BY <3>7, <4>1 DEF ClaimOK
      <4> QED
        BY <3>2, <3>7, <4>1 DEF ClaimOK
    <3> QED
      BY <3>4, <3>5, <3>6, <3>7
  <2>4. CASE ExecutorThrows(h)    BY <2>0, <2>4 DEF ExecutorThrows
  <2>5. CASE MarkExecuted(h)      BY <2>0, <2>5 DEF MarkExecuted, Settle
  <2>6. CASE MarkExecutedFails(h) BY <2>0, <2>6 DEF MarkExecutedFails
  <2>7. CASE MarkFailed(h)        BY <2>0, <2>7 DEF MarkFailed, Settle
  <2>8. CASE MarkFailedFails(h)   BY <2>0, <2>8 DEF MarkFailedFails
  <2>9. CASE RetryWrite(h)
    <3> USE <2>9 DEF RetryWrite
    <3>1. round'[on[h]] = round[on[h]] + 1 /\ round[on[h]] > 0
      BY DEF ClaimOK
    <3>2. effects[on[h]][round[on[h]] + 1] = 0
      BY DEF RoundOK
    <3>3. ASSUME NEW b \in Action PROVE RoundOK(b)'
      BY <3>1, <3>2 DEF RoundOK
    <3>4. ASSUME NEW g \in Handler PROVE ClaimOK(g)'
      BY <3>1 DEF ClaimOK
    <3>5. OneEffectPerApproval'
      OBVIOUS
    <3> QED
      BY <3>3, <3>4, <3>5
  <2> QED
    BY <1>5, <2>1, <2>2, <2>3, <2>4, <2>5, <2>6, <2>7, <2>8, <2>9 DEF Continue
<1>6. CASE Crash
  BY <1>6 DEF Crash, RoundOK, ClaimOK
<1>7. CASE UNCHANGED vars
  BY <1>7 DEF vars, RoundOK, ClaimOK
<1> QED
  BY <1>1, <1>2, <1>3, <1>4, <1>5, <1>6, <1>7 DEF Next

\* Whatever retries, database errors and crashes there are, an approval is
\* acted on by one request and applies its payload at most once.
THEOREM OneEffect == Spec => []OneEffectPerApproval
<1>1. Spec => []RoundsInv
  BY InitRounds, StepRounds, PTL DEF Spec
<1>2. RoundsInv => OneEffectPerApproval
  BY DEF RoundsInv
<1> QED
  BY <1>1, <1>2, PTL

-----------------------------------------------------------------------------
SerialInv == RoundsInv /\ Serial /\ AuditTrail

Busy == Working \cup {"retrying"}

\* Two requests in the middle of their work are not about the same action.
LEMMA BusyApart ==
  ASSUME SerialRetries, SerialInv,
         NEW g \in Handler, NEW h \in Handler, g # h,
         pc[g] \in Busy, pc[h] \in Busy
  PROVE  on[g] # on[h]
<1>1. CASE pc[g] \in Working /\ pc[h] \in Working
  <2>1. claim[g] = round[on[g]] /\ claim[h] = round[on[h]]
    BY <1>1 DEF SerialInv, Serial, SeenOK
  <2> QED
    BY <1>1, <2>1 DEF SerialInv, RoundsInv, OneEffectPerApproval
<1>2. CASE pc[g] = "retrying" /\ pc[h] = "retrying"
  BY <1>2 DEF SerialInv, Serial, SeenOK, SerialRetries
<1>3. \A f \in Handler :
        /\ pc[f] \in Working => status[on[f]] = "APPROVED"
        /\ pc[f] = "retrying" => status[on[f]] = "FAILED"
  BY DEF SerialInv, Serial, SeenOK
<1>4. CASE pc[g] = "retrying" /\ pc[h] \in Working
  BY <1>3, <1>4
<1>5. CASE pc[g] \in Working /\ pc[h] = "retrying"
  BY <1>3, <1>5
<1> QED
  BY <1>1, <1>2, <1>4, <1>5 DEF Busy

\* A request about an action that a step leaves alone has still seen the truth.
LEMMA Untouched ==
  ASSUME NEW g \in Handler, SeenOK(g),
         pc'[g] = pc[g] \/ pc'[g] = "idle",
         on'[g] = on[g], as'[g] = as[g], claim'[g] = claim[g],
         pc'[g] \in Busy =>
           /\ status'[on[g]] = status[on[g]]
           /\ reviewedBy'[on[g]] = reviewedBy[on[g]]
           /\ round'[on[g]] = round[on[g]]
           /\ actor'[on[g]] = actor[on[g]]
           /\ effects'[on[g]] = effects[on[g]]
  PROVE  SeenOK(g)'
<1>1. CASE pc'[g] = "idle"
  BY <1>1 DEF SeenOK
<1>2. CASE pc'[g] = pc[g]
  BY <1>2 DEF SeenOK, Busy
<1> QED
  BY <1>1, <1>2

\* The invariant for serial retries holds before any row is decided.
LEMMA InitSerial == Init => SerialInv
<1> SUFFICES ASSUME Init PROVE Serial /\ AuditTrail
  BY InitRounds DEF SerialInv
<1> QED
  BY DEF Init, Serial, SeenOK, AuditTrail, Signed

\* While retries do not overlap, what a request has read stays true until it
\* writes: every step keeps the serial invariant.
LEMMA StepSerial ==
  ASSUME SerialRetries PROVE SerialInv /\ [Next]_vars => SerialInv'
<1> SUFFICES ASSUME SerialInv, [Next]_vars PROVE Serial' /\ AuditTrail'
  BY StepRounds DEF SerialInv
<1>0. TypeOK /\ TypeOK' /\ Serial /\ AuditTrail
  BY StepRounds DEF SerialInv, RoundsInv
<1>s. \A g \in Handler : SeenOK(g)
  BY <1>0 DEF Serial
<1>a. \A b \in Action : Signed(b)
  BY <1>0 DEF AuditTrail
\* The requests at work on an action whose row is not APPROVED nor FAILED.
<1>b. ASSUME NEW g \in Handler, pc[g] \in Busy
      PROVE  status[on[g]] \in {"APPROVED", "FAILED"}
  BY <1>s, <1>b DEF SeenOK, Busy
<1>r. SUFFICES /\ \A g \in Handler : SeenOK(g)'
               /\ \A b \in Action : Signed(b)'
  BY DEF Serial, AuditTrail
<1> USE <1>0, <1>s, <1>a, RoundsAssumption, HandlerAssumption,
        ReviewerAssumption DEF TypeOK, Goto
<1>1. ASSUME NEW a \in Action, Create(a)
      PROVE  /\ \A g \in Handler : SeenOK(g)'
             /\ \A b \in Action : Signed(b)'
  <2> USE <1>1 DEF Create
  <2>1. ASSUME NEW g \in Handler PROVE SeenOK(g)'
    <3>1. pc[g] \in Busy => on[g] # a
      BY <1>b
    <3> QED
      BY <3>1, Untouched
  <2>2. ASSUME NEW b \in Action PROVE Signed(b)'
    BY DEF Signed
  <2> QED
    BY <2>1, <2>2
<1>2. ASSUME NEW a \in Action, NEW r \in Reviewer, Reject(a, r)
      PROVE  /\ \A g \in Handler : SeenOK(g)'
             /\ \A b \in Action : Signed(b)'
  <2> USE <1>2 DEF Reject
  <2>1. ASSUME NEW g \in Handler PROVE SeenOK(g)'
    <3>1. pc[g] \in Busy => on[g] # a
      BY <1>b
    <3> QED
      BY <3>1, Untouched
  <2>2. ASSUME NEW b \in Action PROVE Signed(b)'
    BY DEF Signed
  <2> QED
    BY <2>1, <2>2
<1>3. ASSUME NEW h \in Handler, NEW a \in Action, NEW r \in Reviewer,
             Approve(h, a, r)
      PROVE  /\ \A g \in Handler : SeenOK(g)'
             /\ \A b \in Action : Signed(b)'
  <2> USE <1>3 DEF Approve, Approvable
  <2>1. SeenOK(h)'
    BY DEF SeenOK
  <2>2. ASSUME NEW g \in Handler, g # h PROVE SeenOK(g)'
    <3>1. pc[g] \in Busy => on[g] # a
      BY <1>b
    <3> QED
      BY <2>2, <3>1, Untouched
  <2>3. ASSUME NEW b \in Action PROVE Signed(b)'
    BY DEF Signed
  <2> QED
    BY <2>1, <2>2, <2>3
<1>4. ASSUME NEW h \in Handler, NEW a \in Action, RetryRead(h, a)
      PROVE  /\ \A g \in Handler : SeenOK(g)'
             /\ \A b \in Action : Signed(b)'
  <2> USE <1>4 DEF RetryRead, Retryable
  <2>1. SeenOK(h)'
    BY DEF SeenOK
  <2>2. ASSUME NEW g \in Handler, g # h PROVE SeenOK(g)'
    BY <2>2, Untouched
  <2>3. ASSUME NEW b \in Action PROVE Signed(b)'
    BY DEF Signed
  <2> QED
    BY <2>1, <2>2, <2>3
<1>5. ASSUME NEW h \in Handler, Continue(h)
      PROVE  /\ \A g \in Handler : SeenOK(g)'
             /\ \A b \in Action : Signed(b)'
  <2>0. pc[h] \in Busy
    BY <1>5 DEF Continue, Dispatch, LoadFails, ExecutorSucceeds, ExecutorThrows,
             MarkExecuted, MarkExecutedFails, MarkFailed, MarkFailedFails,
             RetryWrite, Busy
  \* A step of h touches no row but that of on[h], and no request but h.
  <2>1. ASSUME NEW g \in Handler, g # h,
               UNCHANGED <<on, as, claim>>, pc'[g] = pc[g],
               \A b \in Action : b # on[h] =>
                 /\ status'[b] = status[b]
                 /\ reviewedBy'[b] = reviewedBy[b]
                 /\ round'[b] = round[b]
                 /\ actor'[b] = actor[b]
                 /\ effects'[b] = effects[b]
        PROVE  SeenOK(g)'
    <3>1. pc[g] \in Busy => on[g] # on[h]
      BY <2>0, <2>1, BusyApart
    <3> QED
      BY <2>1, <3>1, Untouched
  <2>2. CASE \/ Dispatch(h) \/ LoadFails(h) \/ ExecutorThrows(h)
             \/ MarkExecutedFails(h) \/ MarkFailedFails(h)
    <3> USE <2>2 DEF Dispatch, LoadFails, ExecutorThrows, MarkExecutedFails,
                     MarkFailedFails, row, history
    <3>1. SeenOK(h)'
      BY DEF SeenOK
    <3>2. ASSUME NEW g \in Handler, g # h PROVE SeenOK(g)'
      BY <3>2, <2>1
    <3>3. ASSUME NEW b \in Action PROVE Signed(b)'
      BY DEF Signed
    <3> QED
      BY <3>1, <3>2, <3>3
  <2>3. CASE ExecutorSucceeds(h)
    <3> USE <2>3 DEF ExecutorSucceeds
    <3>1. claim[h] \in Round /\ effects[on[h]][claim[h]] = 0
      BY DEF SerialInv, RoundsInv, Rounds, ClaimOK
    <3>2. effects'[on[h]][claim[h]] = 1
      BY <3>1, EffectCounted
    <3>3. SeenOK(h)'
      BY <3>2 DEF SeenOK
    <3>4. ASSUME NEW g \in Handler, g # h PROVE SeenOK(g)'
      BY <3>4, <2>1
    <3>5. status[on[h]] = "APPROVED"
      BY DEF SeenOK
    <3>6. ASSUME NEW b \in Action PROVE Signed(b)'
      BY <3>5 DEF Signed
    <3> QED
      BY <3>3, <3>4, <3>6
  <2>4. CASE MarkExecuted(h) \/ MarkFailed(h)
    <3> USE <2>4 DEF MarkExecuted, MarkFailed, Settle
    <3>1. SeenOK(h)'
      BY DEF SeenOK
    <3>2. ASSUME NEW g \in Handler, g # h PROVE SeenOK(g)'
      BY <3>2, <2>1
    <3>3. ASSUME NEW b \in Action PROVE Signed(b)'
      <4>1. CASE b = on[h]
        <5>s. SeenOK(h) /\ Signed(b) /\ pc[h] \in {"applied", "raised"}
          OBVIOUS
        <5>a. status[b] = "APPROVED"
          BY <4>1, <5>s DEF SeenOK
        <5>r. reviewedBy[b] # NoReviewer
          BY <5>a, <5>s DEF Signed
        <5>1. /\ status[b] = "APPROVED" /\ reviewedBy[b] # NoReviewer
              /\ pc[h] = "applied" => /\ actor[b] = reviewedBy[b]
                                      /\ effects[b][round[b]] = 1
          BY <4>1, <5>s, <5>a, <5>r DEF SeenOK
        <5>2. CASE MarkExecuted(h)
          BY <4>1, <5>1, <5>2 DEF Signed
        <5>3. CASE MarkFailed(h)
          BY <4>1, <5>1, <5>3 DEF Signed
        <5> QED
          BY <5>2, <5>3
      <4>2. CASE b # on[h]
        BY <4>2 DEF Signed
      <4> QED
        BY <4>1, <4>2
    <3> QED
      BY <3>1, <3>2, <3>3
  <2>5. CASE RetryWrite(h)
    <3> USE <2>5 DEF RetryWrite
    <3>1. SeenOK(h)'
      BY DEF SeenOK
    <3>2. ASSUME NEW g \in Handler, g # h PROVE SeenOK(g)'
      BY <3>2, <2>1
    <3>3. ASSUME NEW b \in Action PROVE Signed(b)'
      BY DEF Signed
    <3> QED
      BY <3>1, <3>2, <3>3
  <2> QED
    BY <1>5, <2>2, <2>3, <2>4, <2>5 DEF Continue
<1>6. CASE Crash
  <2> USE <1>6 DEF Crash, row, history
  <2>1. ASSUME NEW g \in Handler PROVE SeenOK(g)'
    BY Untouched
  <2>2. ASSUME NEW b \in Action PROVE Signed(b)'
    BY DEF Signed
  <2> QED
    BY <2>1, <2>2
<1>7. CASE UNCHANGED vars
  BY <1>7 DEF vars, SeenOK, Signed
<1> QED
  BY <1>1, <1>2, <1>3, <1>4, <1>5, <1>6, <1>7 DEF Next

\* The serial invariant holds in every reachable state.
LEMMA AlwaysSerial == ASSUME SerialRetries PROVE Spec => []SerialInv
  BY InitSerial, StepSerial, PTL DEF Spec

\* While retries do not overlap, a proposal is executed by one request at a
\* time and only while its row says APPROVED.
THEOREM ApprovedExecution ==
  ASSUME SerialRetries PROVE Spec => []ExecutedOnlyWhileApproved
<1>1. SerialInv => ExecutedOnlyWhileApproved
  BY BusyApart DEF SerialInv, Serial, SeenOK, ExecutedOnlyWhileApproved, Busy
<1> QED
  BY <1>1, AlwaysSerial, PTL

\* While retries do not overlap, every decision is signed, and an executed
\* action by the reviewer it was executed for.
THEOREM SignedDecisions == ASSUME SerialRetries PROVE Spec => []AuditTrail
<1>1. SerialInv => AuditTrail
  BY DEF SerialInv
<1> QED
  BY <1>1, AlwaysSerial, PTL

-----------------------------------------------------------------------------
(***************************************************************************)
(* A payload is applied at most once over all rounds.                       *)
(***************************************************************************)
\* Nothing of the action has been applied, in any round.
Undone(a) == \A n \in Round : effects[a][n] = 0

\* What has been applied is settled or about to be: neither a row that can still be
\* decided or retried, nor a request that may yet apply it or mark it FAILED.
NotAgain ==
  /\ \A a \in Action : status[a] \in {"EXECUTED", "APPROVED"} \/ Undone(a)
  /\ \A h \in Handler : pc[h] \in {"claimed", "executing", "raised"} => Undone(on[h])
  /\ AppliedAtMostOnce

LEMMA StepNotAgain ==
  ASSUME SerialRetries, "db" \notin Faults, SerialInv, NotAgain, [Next]_vars
  PROVE  NotAgain'
<1> USE DEF NotAgain
<1>1. TypeOK /\ \A h \in Handler : SeenOK(h) /\ on[h] \in Action
  BY DEF SerialInv, RoundsInv, Serial, TypeOK
<1>2. CASE effects' = effects
  <2>1. \A a \in Action : Undone(a)' <=> Undone(a)
    BY <1>2 DEF Undone
  <2>2. AppliedAtMostOnce'
    BY <1>2 DEF AppliedAtMostOnce
  <2>3. ASSUME NEW a \in Action, Create(a) PROVE NotAgain'
    BY <1>1, <2>1, <2>2, <2>3 DEF Create, TypeOK
  <2>4. ASSUME NEW a \in Action, NEW r \in Reviewer, Reject(a, r) PROVE NotAgain'
    BY <1>1, <2>1, <2>2, <2>4 DEF Reject, TypeOK
  <2>5. ASSUME NEW h \in Handler, NEW a \in Action, NEW r \in Reviewer, Approve(h, a, r)
        PROVE  NotAgain'
    BY <1>1, <2>1, <2>2, <2>5 DEF Approve, Approvable, Goto, TypeOK
  <2>6. ASSUME NEW h \in Handler, NEW a \in Action, RetryRead(h, a) PROVE NotAgain'
    BY <1>1, <2>1, <2>2, <2>6 DEF RetryRead, Retryable, Goto, TypeOK
  <2>7. ASSUME NEW h \in Handler, Dispatch(h) \/ ExecutorThrows(h) PROVE NotAgain'
    BY <1>1, <2>1, <2>2, <2>7 DEF Dispatch, ExecutorThrows, Goto, TypeOK
  <2>8. ASSUME NEW h \in Handler, MarkExecuted(h) \/ MarkFailed(h) PROVE NotAgain'
    BY <1>1, <2>1, <2>2, <2>8 DEF MarkExecuted, MarkFailed, Settle, Goto, TypeOK
  <2>9. ASSUME NEW h \in Handler, RetryWrite(h) PROVE NotAgain'
    <3>1. Undone(on[h])
      BY <1>1, <2>9 DEF RetryWrite, SeenOK
    <3> QED BY <1>1, <2>1, <2>2, <2>9, <3>1 DEF RetryWrite, Goto, TypeOK
  <2>10. CASE Crash \/ UNCHANGED vars
    BY <1>1, <2>1, <2>2, <2>10 DEF Crash, vars, TypeOK
  <2>11. ASSUME NEW h \in Handler, ExecutorSucceeds(h) PROVE FALSE
    <3>1. on[h] \in Action /\ claim[h] \in Round /\ effects[on[h]][claim[h]] \in Nat
      BY <1>1, <2>11 DEF ExecutorSucceeds, SerialInv, RoundsInv, Rounds, ClaimOK, TypeOK
    <3>2. effects'[on[h]][claim[h]] = effects[on[h]][claim[h]] + 1
      BY <1>1, <2>11, <3>1, EffectCounted
    <3> QED BY <1>2, <3>1, <3>2
  <2> QED
    BY <2>3, <2>4, <2>5, <2>6, <2>7, <2>8, <2>9, <2>10, <2>11
    DEF Next, Continue, LoadFails, MarkExecutedFails, MarkFailedFails
<1>3. ASSUME NEW h \in Handler, ExecutorSucceeds(h) PROVE NotAgain'
  <2>0. SeenOK(h) /\ ClaimOK(h) /\ on[h] \in Action /\ pc[h] = "executing"
    BY <1>1, <1>3 DEF ExecutorSucceeds, SerialInv, RoundsInv, Rounds
  <2>a. claim[h] \in Round
    BY <2>0, <1>1 DEF ClaimOK, TypeOK, Working, Round
  <2>1. on[h] \in Action /\ claim[h] \in Round /\ Undone(on[h]) /\ status[on[h]] = "APPROVED"
    BY <2>0, <2>a DEF SeenOK, Working
  <2>2. \A a \in Action, n \in Round :
          effects'[a][n] = IF a = on[h] /\ n = claim[h] THEN effects[a][n] + 1
                           ELSE effects[a][n]
    BY <1>1, <1>3, <2>1, EffectCounted
  <2>3. \A a \in Action : a # on[h] => (Undone(a)' <=> Undone(a))
    BY <2>2 DEF Undone
  <2>4. \A g \in Handler : g # h /\ pc[g] \in Working => on[g] # on[h]
    BY <1>3, BusyApart DEF ExecutorSucceeds, Busy
  <2>5. AppliedAtMostOnce'
    BY <2>1, <2>2 DEF AppliedAtMostOnce, Undone
  <2> QED BY <1>1, <1>3, <2>1, <2>3, <2>4, <2>5 DEF ExecutorSucceeds, Goto, TypeOK
<1>4. effects' # effects => \E h \in Handler : ExecutorSucceeds(h)
  BY DEF Next, Continue, Create, Reject, Approve, RetryRead, Dispatch, LoadFails,
     ExecutorThrows, MarkExecuted, MarkExecutedFails, MarkFailed, MarkFailedFails, Settle,
     RetryWrite, Crash, vars
<1> QED BY <1>2, <1>3, <1>4

\* Over all its rounds an action is applied at most once, as long as retries do not
\* overlap and no query rejects; the server may stop at any moment.
THEOREM AppliedOnce ==
  ASSUME SerialRetries, "db" \notin Faults PROVE Spec => []AppliedAtMostOnce
<1>1. Init => NotAgain
  BY DEF Init, NotAgain, Undone, AppliedAtMostOnce
<1>2. NotAgain => AppliedAtMostOnce
  BY DEF NotAgain
<1> QED
  BY <1>1, <1>2, AlwaysSerial, StepNotAgain, PTL DEF Spec

-----------------------------------------------------------------------------
(***************************************************************************)
(* The pipeline implements ActionLifecycle.                                 *)
(***************************************************************************)
\* The pipeline starts where the lifecycle starts.
LEMMA InitRefines == Init => Lifecycle!Init
  BY DEF Init, Lifecycle!Init, Lifecycle!Round

\* Every step of the pipeline is a step of the lifecycle, or leaves the
\* statuses and effects as they are.
LEMMA StepRefines ==
  ASSUME SerialRetries
  PROVE  SerialInv /\ [Next]_vars => [Lifecycle!Next]_(Lifecycle!vars)
<1> SUFFICES ASSUME SerialInv, [Next]_vars
             PROVE  Lifecycle!Next \/ UNCHANGED Lifecycle!vars
  OBVIOUS
<1>0. TypeOK /\ Rounds /\ Serial
  BY DEF SerialInv, RoundsInv
<1> USE <1>0 DEF TypeOK, Lifecycle!vars, Goto
<1>1. ASSUME NEW a \in Action, Create(a) PROVE Lifecycle!Next
  <2>1. Lifecycle!Propose(a)
    BY <1>1 DEF Create, Lifecycle!Propose, Lifecycle!Move
  <2> QED
    BY <2>1 DEF Lifecycle!Next
<1>2. ASSUME NEW a \in Action, NEW r \in Reviewer, Reject(a, r)
      PROVE  Lifecycle!Next
  <2>1. Lifecycle!Decide(a)
    BY <1>2 DEF Reject, Lifecycle!Decide, Lifecycle!Move
  <2> QED
    BY <2>1 DEF Lifecycle!Next
<1>3. ASSUME NEW h \in Handler, NEW a \in Action, NEW r \in Reviewer,
             Approve(h, a, r)
      PROVE  Lifecycle!Next
  <2>1. Lifecycle!Decide(a)
    BY <1>3 DEF Approve, Approvable, Lifecycle!Decide, Lifecycle!Move
  <2> QED
    BY <2>1 DEF Lifecycle!Next
<1>4. ASSUME NEW h \in Handler, NEW a \in Action, RetryRead(h, a)
      PROVE  UNCHANGED Lifecycle!vars
  BY <1>4 DEF RetryRead
<1>5. ASSUME NEW h \in Handler, Continue(h)
      PROVE  Lifecycle!Next \/ UNCHANGED Lifecycle!vars
  <2>0. SeenOK(h) /\ ClaimOK(h) /\ on[h] \in Action
    BY DEF Serial, Rounds
  <2>1. CASE \/ Dispatch(h) \/ LoadFails(h) \/ ExecutorThrows(h)
             \/ MarkExecutedFails(h) \/ MarkFailedFails(h)
    BY <2>1 DEF Dispatch, LoadFails, ExecutorThrows, MarkExecutedFails,
                MarkFailedFails
  <2>2. CASE ExecutorSucceeds(h)
    <3> USE <2>2 DEF ExecutorSucceeds
    <3>1. /\ status[on[h]] = "APPROVED" /\ claim[h] = round[on[h]]
          /\ effects[on[h]][round[on[h]]] = 0
      BY <2>0 DEF SeenOK, ClaimOK
    <3>2. effects' = [effects EXCEPT ![on[h]][round[on[h]]] = 1]
      BY <3>1
    <3>3. Lifecycle!Apply(on[h])
      BY <3>1, <3>2 DEF Lifecycle!Apply
    <3> QED
      BY <2>0, <3>3 DEF Lifecycle!Next
  <2>3. CASE MarkExecuted(h)
    <3> USE <2>3 DEF MarkExecuted, Settle
    <3>1. /\ status[on[h]] = "APPROVED"
          /\ effects[on[h]][round[on[h]]] = 1
      BY <2>0 DEF SeenOK
    <3>2. Lifecycle!Settle(on[h])
      BY <3>1 DEF Lifecycle!Settle, Lifecycle!Move
    <3> QED
      BY <2>0, <3>2 DEF Lifecycle!Next
  <2>4. CASE MarkFailed(h)
    <3> USE <2>4 DEF MarkFailed, Settle
    <3>1. status[on[h]] = "APPROVED"
      BY <2>0 DEF SeenOK
    <3>2. Lifecycle!Settle(on[h])
      BY <3>1 DEF Lifecycle!Settle, Lifecycle!Move
    <3> QED
      BY <2>0, <3>2 DEF Lifecycle!Next
  <2>5. CASE RetryWrite(h)
    <3> USE <2>5 DEF RetryWrite
    <3>1. status[on[h]] = "FAILED"
      BY <2>0 DEF SeenOK
    <3>2. Lifecycle!Retry(on[h])
      BY <3>1 DEF Lifecycle!Retry, Lifecycle!Move
    <3> QED
      BY <2>0, <3>2 DEF Lifecycle!Next
  <2> QED
    BY <1>5, <2>1, <2>2, <2>3, <2>4, <2>5 DEF Continue
<1>6. CASE Crash
  BY <1>6 DEF Crash
<1>7. CASE UNCHANGED vars
  BY <1>7 DEF vars
<1> QED
  BY <1>1, <1>2, <1>3, <1>4, <1>5, <1>6, <1>7 DEF Next

\* While retries do not overlap, the server's pipeline implements the
\* lifecycle: rejected and executed proposals are final, only failed ones
\* come back, and an approval applies a payload once.
THEOREM Refinement == ASSUME SerialRetries PROVE Spec => ImplementsLifecycle
<1>1. Spec => []SerialInv
  BY AlwaysSerial
<1>2. SerialInv /\ [Next]_vars => [Lifecycle!Next]_(Lifecycle!vars)
  BY StepRefines
<1> QED
  BY <1>1, <1>2, InitRefines, PTL DEF Spec, ImplementsLifecycle, Lifecycle!Spec
=============================================================================
