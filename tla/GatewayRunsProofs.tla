------------------------- MODULE GatewayRunsProofs --------------------------
(***************************************************************************)
(* Proofs about GatewayRuns, for every number of users, chats, scheduled    *)
(* jobs, clients and lane objects: the limit on concurrent chats, from the  *)
(* invariant of the lanes, and the streams.                                 *)
(***************************************************************************)
EXTENDS GatewayRuns, FiniteSetTheorems, WellFoundedInduction, TLAPS

Proved == INSTANCE LaneQueueProofs

(***************************************************************************)
(* The queue of GatewayRuns is the one LaneQueueProofs is about.            *)
(***************************************************************************)
LEMMA SameInit == Queue!Init <=> Proved!Init
BY DEF Queue!Init, Proved!Init

LEMMA SameAccept ==
  ASSUME NEW j \in Job
  PROVE  Queue!EnqueueAccepts(j) <=> Proved!EnqueueAccepts(j)
BY DEF Queue!EnqueueAccepts, Proved!EnqueueAccepts, Queue!LaneFor, Proved!LaneFor,
   Queue!Full, Proved!Full, Queue!First, Proved!First, Queue!Fresh, Proved!Fresh

LEMMA SameRefuse ==
  ASSUME NEW j \in Job
  PROVE  Queue!EnqueueRefuses(j) <=> Proved!EnqueueRefuses(j)
BY DEF Queue!EnqueueRefuses, Proved!EnqueueRefuses, Queue!Full, Proved!Full

LEMMA SameEnd ==
  ASSUME NEW j \in Job
  PROVE  Queue!End(j) <=> Proved!End(j)
BY DEF Queue!End, Proved!End, Queue!Emptied, Proved!Emptied, Queue!NextOn, Proved!NextOn,
   Queue!First, Proved!First

LEMMA SameRunning ==
  ASSUME NEW j \in Job
  PROVE  (Running(j) <=> Proved!Running(j)) /\ (Running(j)' <=> Proved!Running(j)')
BY DEF Running, Queue!Running, Proved!Running

(***************************************************************************)
(* The limit.  The counter is inductive together with the lanes: a chat     *)
(* that ends hands its place to the next chat of the same user.             *)
(***************************************************************************)
RunningChats == {j \in Chat : Running(j)}

Counted ==
  /\ Proved!Inv
  /\ IsFiniteSet(RunningChats)
  /\ ConcurrencyBound

\* A turn that starts and ends no job.
LEMMA NothingStarts ==
  ASSUME Counted, aborted' \subseteq Job,
         UNCHANGED <<laneOf, depth, chain, active, phase, concurrent>>
  PROVE  Counted'
<1>1. Proved!Inv'
  BY Proved!AbortInv, QueueAssumption DEF Counted
<1>2. RunningChats' = RunningChats
  BY DEF RunningChats, Running, Queue!Running
<1> QED BY <1>1, <1>2 DEF Counted, ConcurrencyBound, RunningChats

\* A set that gains at most one element gains as many as it gains.
LEMMA OneMore ==
  ASSUME NEW S, IsFiniteSet(S), NEW j, j \notin S, NEW B, B = {} \/ B = {j}
  PROVE  /\ IsFiniteSet(S \cup B)
         /\ Cardinality(S \cup B) = Cardinality(S) + Cardinality(B)
         /\ Cardinality(S) \in Nat /\ Cardinality(B) \in 0 .. 1
<1>1. Cardinality(S) \in Nat
  BY FS_CardinalityType
<1>2. CASE B = {}
  <2>1. S \cup B = S
    BY <1>2
  <2>2. IsFiniteSet(S \cup B) /\ Cardinality(S \cup B) = Cardinality(S)
    BY <2>1, Zenon
  <2>3. Cardinality(B) = 0
    BY <1>2, FS_EmptySet
  <2> QED BY <1>1, <2>2, <2>3
<1>3. CASE B = {j}
  <2>1. S \cup B = S \cup {j} /\ Cardinality(B) = 1
    BY <1>3, FS_Singleton
  <2>2. IsFiniteSet(S \cup {j}) /\ Cardinality(S \cup {j}) = Cardinality(S) + 1
    BY FS_AddElement
  <2> QED BY <1>1, <2>1, <2>2
<1> QED BY <1>2, <1>3

\* A job that is accepted begins to run, or none does.
LEMMA AcceptBegins ==
  ASSUME Counted, NEW j \in Job, Queue!EnqueueAccepts(j)
  PROVE  /\ Proved!Inv' /\ RunningChats' = RunningChats \cup Began
         /\ j \notin RunningChats
         /\ Began = {} \/ (Began = {j} /\ j \in Chat)
<1>1. Proved!Inv /\ Proved!EnqueueAccepts(j)
  BY SameAccept DEF Counted
<1>2. Proved!Inv'
  BY <1>1, Proved!AcceptInv, QueueAssumption
<1>3. ~Running(j) /\ \A k \in Job : k # j => (Running(k)' <=> Running(k))
  BY <1>1, Proved!AcceptRunning, QueueAssumption, SameRunning
<1>4. Chat \subseteq Job
  BY DEF Job
<1> QED BY <1>2, <1>3, <1>4 DEF RunningChats, Began

\* The end of a job.
LEMMA FinishCounts ==
  ASSUME Counted, NEW j \in Job, Finish(j)
  PROVE  Counted'
<1>1. /\ Proved!Inv /\ Proved!End(j)
      /\ concurrent' = (concurrent - Ended(j)) + Cardinality(Began)
  BY SameEnd DEF Counted, Finish
<1>2. Proved!Inv'
  BY <1>1, Proved!EndInv, QueueAssumption
<1>3. Running(j)
  BY <1>1, Proved!EndRunning, QueueAssumption, SameRunning
<1>4. PICK next \in Job \cup {None} :
        /\ next \in Job => next # j /\ Owner[next] = Owner[j] /\ ~Running(next)
        /\ \A k \in Job : Running(k)' <=> k = next \/ (Running(k) /\ k # j)
  BY <1>1, Proved!EndRunning, QueueAssumption, SameRunning
<1>5. Chat \subseteq Job /\ Scheduled \subseteq Job
  BY DEF Job
<1> DEFINE S == RunningChats \ {j}
<1>6. RunningChats' = S \cup Began /\ next \notin S /\ (Began = {} \/ Began = {next})
  BY <1>4, <1>5, QueueAssumption DEF RunningChats, Began
<1>7. IsFiniteSet(S) /\ IsFiniteSet(RunningChats) /\ Cardinality(RunningChats) \in Nat
      /\ concurrent = Cardinality(RunningChats) /\ concurrent <= MaxConcurrent
  BY FS_Subset, FS_CardinalityType DEF Counted, ConcurrencyBound, RunningChats
<1>8. CASE j \in Chat
  <2>1. j \in RunningChats
    BY <1>3, <1>8 DEF RunningChats
  <2>2. Cardinality(S) = Cardinality(RunningChats) - 1
    BY <1>7, <2>1, FS_RemoveElement
  <2>3. /\ IsFiniteSet(S \cup Began)
        /\ Cardinality(S \cup Began) = Cardinality(S) + Cardinality(Began)
        /\ Cardinality(S) \in Nat /\ Cardinality(Began) \in 0 .. 1
    BY <1>6, <1>7, OneMore
  <2>4. Ended(j) = 1
    BY <1>7, <1>8, <2>2, <2>3 DEF Ended
  <2> HIDE DEF S
  <2>5. concurrent' = Cardinality(S \cup Began) /\ concurrent' <= MaxConcurrent
    BY <1>1, <1>7, <2>2, <2>3, <2>4, LimitAssumption
  <2> QED BY <1>2, <1>6, <2>3, <2>5 DEF Counted, ConcurrencyBound, RunningChats
<1>9. CASE j \in Scheduled
  <2>1. Began = {}
    <3>1. next \notin Chat
      BY <1>4, <1>5, <1>9, KeyAssumption, QueueAssumption
    <3> QED BY <1>4, <1>5, <3>1 DEF Began
  <2>2. RunningChats' = RunningChats
    BY <1>6, <1>9, <2>1, ClientAssumption DEF RunningChats
  <2>3. Ended(j) = 0 /\ Cardinality(Began) = 0
    BY <1>9, <2>1, ClientAssumption, FS_EmptySet DEF Ended
  <2>4. concurrent' = concurrent
    BY <1>1, <1>7, <2>3
  <2> QED BY <1>2, <1>7, <2>2, <2>4 DEF Counted, ConcurrencyBound, RunningChats
<1> QED BY <1>8, <1>9 DEF Job

LEMMA InitCounted == Init => Counted
<1> SUFFICES ASSUME Init PROVE Counted
  OBVIOUS
<1>1. Proved!Inv
  BY SameInit, Proved!InitInv, QueueAssumption DEF Init
<1>2. RunningChats = {}
  BY QueueAssumption DEF Init, Queue!Init, RunningChats, Running, Queue!Running, Job
<1>3. concurrent = 0
  BY DEF Init
<1> QED BY <1>1, <1>2, <1>3, FS_EmptySet, LimitAssumption DEF Counted, ConcurrencyBound, RunningChats

LEMMA StepCounted == Counted /\ [Next]_vars => Counted'
<1> SUFFICES ASSUME Counted, [Next]_vars PROVE Counted'
  OBVIOUS
<1>1. Chat \subseteq Job /\ Scheduled \subseteq Job /\ aborted \subseteq Job
  BY DEF Job, Counted, Proved!Inv, Proved!TypeOK
<1>2. ASSUME NEW j \in Chat, Dispatch(j) PROVE Counted'
  <2>1. /\ Proved!Inv' /\ RunningChats' = RunningChats \cup Began
        /\ j \notin RunningChats
        /\ Began = {} \/ (Began = {j} /\ j \in Chat)
    BY <1>1, <1>2, AcceptBegins DEF Dispatch
  <2>2. /\ concurrent = Cardinality(RunningChats) /\ IsFiniteSet(RunningChats)
        /\ concurrent < MaxConcurrent
        /\ concurrent' = concurrent + Cardinality(Began)
    BY <1>2 DEF Dispatch, Admits, Counted, ConcurrencyBound, RunningChats
  <2>3. /\ IsFiniteSet(RunningChats \cup Began)
        /\ Cardinality(RunningChats \cup Began) = Cardinality(RunningChats) + Cardinality(Began)
        /\ Cardinality(RunningChats) \in Nat /\ Cardinality(Began) \in 0 .. 1
    BY <2>1, <2>2, OneMore
  <2>4. concurrent' = Cardinality(RunningChats') /\ concurrent' <= MaxConcurrent
    BY <2>1, <2>2, <2>3, LimitAssumption
  <2> QED BY <2>1, <2>3, <2>4 DEF Counted, ConcurrencyBound, RunningChats
<1>3. ASSUME NEW j \in Chat, DispatchRefused(j) PROVE Counted'
  <2>1. Proved!Inv'
    BY <1>1, <1>3, SameRefuse, Proved!RefuseInv, QueueAssumption DEF DispatchRefused, Counted
  <2>2. active' = active /\ concurrent' = concurrent
    BY <1>3 DEF DispatchRefused, Queue!EnqueueRefuses
  <2>3. RunningChats' = RunningChats
    BY <2>2 DEF RunningChats, Running, Queue!Running
  <2> QED BY <2>1, <2>2, <2>3 DEF Counted, ConcurrencyBound, RunningChats
<1>4. ASSUME NEW j \in Scheduled, DispatchScheduled(j) PROVE Counted'
  <2>1. /\ Proved!Inv' /\ RunningChats' = RunningChats \cup Began
        /\ Began = {} \/ (Began = {j} /\ j \in Chat)
    BY <1>1, <1>4, AcceptBegins DEF DispatchScheduled
  <2>2. Began = {} /\ concurrent' = concurrent
    BY <1>4, <2>1, ClientAssumption DEF DispatchScheduled
  <2> QED BY <2>1, <2>2 DEF Counted, ConcurrencyBound, RunningChats
<1>5. ASSUME NEW j \in Job, Return(j) \/ Throw(j) \/ ThrowScheduled(j) PROVE Counted'
  BY <1>5, FinishCounts DEF Return, Throw, ThrowScheduled
<1>6. ASSUME UNCHANGED <<queueVars, concurrent>> PROVE Counted'
  BY <1>1, <1>6, NothingStarts DEF queueVars
<1>7. ASSUME NEW j \in Chat,
             Prepared(j) \/ CouncilAnswers(j) \/ CouncilFails(j) \/ Answer(j) \/ Text(j)
      PROVE  Counted'
  BY <1>6, <1>7 DEF Prepared, CouncilAnswers, CouncilFails, Answer, Text, Move
<1>8. ASSUME NEW j \in Scheduled, WorkScheduled(j) PROVE Counted'
  BY <1>6, <1>8 DEF WorkScheduled, Move
<1>9. ASSUME NEW j \in Chat, CancelRun(j) PROVE Counted'
  BY <1>1, <1>9, NothingStarts DEF CancelRun
<1>10. ASSUME NEW j \in Chat, Cleanup(j) PROVE Counted'
  BY <1>6, <1>10 DEF Cleanup
<1>11. ASSUME NEW j \in Job, Timeout(j) PROVE Counted'
  BY <1>1, <1>11, NothingStarts DEF Timeout, Queue!Timeout
<1>12. ASSUME NEW c \in Client, NEW j \in Chat, Subscribe(c, j) PROVE Counted'
  BY <1>6, <1>12 DEF Subscribe
<1>13. ASSUME NEW c \in Client, Close(c) PROVE Counted'
  BY <1>6, <1>13 DEF Close
<1>14. CASE UNCHANGED vars
  BY <1>6, <1>14 DEF vars
<1> QED
  BY <1>1, <1>2, <1>3, <1>4, <1>5, <1>7, <1>8, <1>9, <1>10, <1>11, <1>12, <1>13, <1>14
  DEF Next, Work, WorkForSchedule

\* The counter of the concurrency limit is the number of chats that run, and is never
\* above maxConcurrent, however chats queue behind each other (rate-limit.ts,
\* executeJob): a chat that ends can only hand its place on.
THEOREM LimitHolds == Spec => []ConcurrencyBound
<1>1. Counted => ConcurrencyBound
  BY DEF Counted
<1> QED BY <1>1, InitCounted, StepCounted, PTL DEF Spec

(***************************************************************************)
(* Streams: up to where a sequence of events is written to a client.        *)
(***************************************************************************)
\* A set of numbers has a least one.
LEMMA Least ==
  ASSUME NEW S \in SUBSET Nat, S # {}
  PROVE  Min(S) \in S /\ \A n \in S : Min(S) <= n
<1> DEFINE R == OpToRel(<, Nat)
<1>1. PICK x \in S : \A y \in S : ~(<<y, x>> \in R)
  BY NatLessThanWellFounded, WFMin
<1>2. ASSUME NEW y \in S PROVE x <= y
  <2>1. <<y, x>> \in R <=> <<y, x>> \in Nat \X Nat /\ <<y, x>>[1] < <<y, x>>[2]
    BY Zenon DEF OpToRel
  <2> HIDE DEF R
  <2> QED BY <1>1, <2>1
<1> QED BY <1>2 DEF Min

Ends(s) == {n \in 1 .. Len(s) : Over(s[n])}

LEMMA Until == 
  ASSUME NEW s
  PROVE UntilOver(s) = IF Ends(s) = {} \/ Min(Ends(s)) = 0 THEN s ELSE SubSeq(s, 1, Min(Ends(s)))
BY DEF UntilOver, SelectInSeq, Ends

LEMMA OpenStream ==
  ASSUME NEW s \in Seq(Event), Ends(s) = {}
  PROVE  UntilOver(s) = s
BY Until

LEMMA UntilType ==
  ASSUME NEW s \in Seq(Event)
  PROVE  UntilOver(s) \in Seq(Event)
<1>1. CASE Ends(s) = {}
  BY <1>1, Until
<1>2. CASE Ends(s) # {}
  <2>1. Ends(s) \in SUBSET Nat /\ Ends(s) \subseteq 1 .. Len(s)
    BY DEF Ends
  <2>2. Min(Ends(s)) \in 1 .. Len(s)
    BY <1>2, <2>1, Least
  <2>3. UntilOver(s) = SubSeq(s, 1, Min(Ends(s)))
    BY <1>2, <2>2, Until
  <2> QED BY <2>2, <2>3
<1> QED BY <1>1, <1>2

LEMMA OverStays ==
  ASSUME NEW s \in Seq(Event), NEW e \in Event, Ends(s) # {}
  PROVE  UntilOver(Append(s, e)) = UntilOver(s) /\ Ends(Append(s, e)) # {}
<1> DEFINE t == Append(s, e)  m == Min(Ends(s))
<1>1. t \in Seq(Event) /\ Len(t) = Len(s) + 1 /\ Len(s) \in Nat
      /\ \A n \in 1 .. Len(s) : t[n] = s[n]
  OBVIOUS
<1> HIDE DEF t
<1>2. Ends(s) \in SUBSET Nat /\ Ends(t) \in SUBSET Nat
  BY <1>1 DEF Ends
<1>3. m \in Ends(s) /\ \A n \in Ends(s) : m <= n
  BY <1>2, Least
<1> HIDE DEF m
<1>4. m \in Ends(t) /\ m \in 1 .. Len(s)
  BY <1>1, <1>3 DEF Ends
<1>5. \A n \in Ends(t) : m <= n
  BY <1>1, <1>3, <1>4 DEF Ends
<1>6. Min(Ends(t)) \in Ends(t) /\ \A n \in Ends(t) : Min(Ends(t)) <= n
  BY <1>2, <1>4, Least
<1>7. Min(Ends(t)) = m
  BY <1>2, <1>4, <1>5, <1>6
<1>8. SubSeq(t, 1, m) = SubSeq(s, 1, m)
  BY <1>1, <1>4
<1>9. UntilOver(s) = SubSeq(s, 1, m) 
  BY <1>3, <1>4, Until DEF m
<1>10. UntilOver(t) = SubSeq(t, 1, m)
  BY <1>4, <1>7, Until
<1> QED BY <1>4, <1>8, <1>9, <1>10 DEF t

(***************************************************************************)
(* Runs and their clients.  A run that is active has emitted no terminal    *)
(* event and is followed by the clients that joined and stayed; one that is *)
(* over has, and by then its clients have heard all they will.              *)
(***************************************************************************)
RunOK(j) ==
  /\ run[j] = "active" => Ends(events[j]) = {}
  /\ run[j] \in Terminal => Ends(events[j]) # {}
  /\ run[j] = "none" => events[j] = <<>>
  /\ phase[j] = "new" => run[j] = "none"

ClientOK(c) ==
  /\ c \in closed => stream[c] # None
  /\ \A j \in Chat :
       /\ c \in subscribers[j] <=> stream[c] = j /\ c \notin closed /\ run[j] = "active"
       /\ stream[c] = j => phase[j] # "new"

Following ==
  /\ run \in [Chat -> {"none", "active", "done", "error"}]
  /\ events \in [Chat -> Seq(Event)]
  /\ subscribers \in [Chat -> SUBSET Client]
  /\ stream \in [Client -> Chat \cup {None}]
  /\ heard \in [Client -> Seq(Event)]
  /\ closed \subseteq Client
  /\ \A j \in Chat : RunOK(j)
  /\ \A c \in Client : ClientOK(c)
  /\ StreamIsTheRun

\* No job becomes new again.
Older == \A k \in Job : phase'[k] = "new" => phase[k] = "new"

\* A step that emits nothing and that no client makes.
LEMMA QuietFollows ==
  ASSUME Following, Older, UNCHANGED <<run, events, subscribers, clientVars>>
  PROVE  Following'
<1>1. Chat \subseteq Job
  BY DEF Job
<1>2. ASSUME NEW j \in Chat PROVE RunOK(j)'
  BY <1>1 DEF Following, RunOK, Older, Ends
<1>3. ASSUME NEW c \in Client PROVE ClientOK(c)'
  BY <1>1 DEF Following, ClientOK, Older, clientVars
<1>4. StreamIsTheRun'
  BY DEF Following, StreamIsTheRun, clientVars
<1> QED BY <1>2, <1>3, <1>4 DEF Following, clientVars

LEMMA EmitFollows ==
  ASSUME Following, Older, NEW j \in Chat, NEW e \in Event, Emit(j, e),
         UNCHANGED <<stream, closed>>
  PROVE  Following'
<1>1. Chat \subseteq Job
  BY DEF Job
<1>2. CASE run[j] = "none"
  BY <1>2, QuietFollows DEF Emit, clientVars
<1>3. CASE run[j] # "none"
  <2> DEFINE t == Append(events[j], e)
  <2>1. /\ events' = [events EXCEPT ![j] = t]
        /\ heard' = [c \in Client |->
                       IF c \in subscribers[j] THEN UntilOver(Append(heard[c], e))
                                               ELSE heard[c]]
        /\ run' = IF Over(e) THEN [run EXCEPT ![j] = e] ELSE run
        /\ subscribers' = IF Over(e) THEN [subscribers EXCEPT ![j] = {}]
                                     ELSE subscribers
    BY <1>3 DEF Emit
  <2>2. events[j] \in Seq(Event) /\ t \in Seq(Event) /\ Len(t) = Len(events[j]) + 1
        /\ Len(events[j]) \in Nat /\ t[Len(t)] = e
        /\ \A n \in 1 .. Len(events[j]) : t[n] = events[j][n]
    BY DEF Following
  <2>3. Ends(events[j]) # {} => UntilOver(t) = UntilOver(events[j]) /\ Ends(t) # {}
    BY <2>2, OverStays
  <2> HIDE DEF t
  <2>4. Over(e) => Ends(t) # {}
    BY <2>2 DEF Ends
  <2>5. ~Over(e) /\ Ends(events[j]) = {} => Ends(t) = {}
    BY <2>2 DEF Ends
  <2>6. \A c \in Client : c \in subscribers[j] => heard[c] = events[j]
    BY <1>3, <2>2, OpenStream DEF Following, StreamIsTheRun, ClientOK, RunOK
  <2>7. \A c \in Client : heard'[c] = IF c \in subscribers[j] THEN UntilOver(t) ELSE heard[c]
    BY <2>1, <2>6 DEF t
  <2>8. run[j] = "active" \/ run[j] \in Terminal
    BY <1>3 DEF Following, Terminal
  <2>9. /\ run' \in [Chat -> {"none", "active", "done", "error"}]
        /\ events' \in [Chat -> Seq(Event)]
        /\ subscribers' \in [Chat -> SUBSET Client]
        /\ stream' \in [Client -> Chat \cup {None}]
        /\ closed' \subseteq Client
    BY <2>1, <2>2 DEF Following, Over, Terminal
  <2>10. heard' \in [Client -> Seq(Event)]
    BY <2>1, <2>2, <2>7, UntilType DEF Following
  <2>11. ASSUME NEW k \in Chat PROVE RunOK(k)'
    <3>1. CASE k = j
      <4>1. events'[k] = t /\ phase'[k] # "new" /\ run'[k] = IF Over(e) THEN e ELSE run[j]
        BY <1>1, <1>3, <2>1, <3>1 DEF Following, RunOK, Older
      <4> QED BY <1>3, <2>3, <2>4, <2>5, <2>8, <4>1
              DEF Following, RunOK, Over, Terminal, Ends
    <3>2. CASE k # j
      <4>1. events'[k] = events[k] /\ run'[k] = run[k]
        BY <2>1, <3>2 DEF Following
      <4> QED BY <1>1, <4>1 DEF Following, RunOK, Older, Ends
    <3> QED BY <3>1, <3>2
  <2>12. ASSUME NEW c \in Client PROVE ClientOK(c)'
    <3>1. ASSUME NEW k \in Chat
          PROVE  run'[k] = (IF k = j /\ Over(e) THEN e ELSE run[k])
                 /\ subscribers'[k] = IF k = j /\ Over(e) THEN {} ELSE subscribers[k]
      BY <2>1 DEF Following
    <3> QED BY <1>1, <3>1 DEF Following, ClientOK, Older, Over, Terminal
  <2>13. StreamIsTheRun'
    <3> SUFFICES ASSUME NEW c \in Client, NEW k \in Chat, stream[c] = k, c \notin closed,
                        run'[k] # "none"
                 PROVE  heard'[c] = UntilOver(events'[k])
      BY DEF StreamIsTheRun
    <3>1. CASE k = j
      <4>1. events'[k] = t
        BY <2>1, <3>1 DEF Following
      <4>2. CASE c \in subscribers[j]
        BY <2>7, <4>1, <4>2
      <4>3. CASE c \notin subscribers[j]
        <5>1. run[j] \in Terminal
          BY <2>8, <3>1, <4>3 DEF Following, ClientOK
        <5>2. UntilOver(t) = UntilOver(events[j])
          BY <2>3, <5>1 DEF Following, RunOK
        <5> QED BY <1>3, <2>7, <3>1, <4>1, <4>3, <5>2 DEF Following, StreamIsTheRun
      <4> QED BY <4>2, <4>3
    <3>2. CASE k # j
      <4>1. events'[k] = events[k] /\ run'[k] = run[k] /\ c \notin subscribers[j]
        BY <2>1, <3>2 DEF Following, ClientOK
      <4> QED BY <2>7, <4>1 DEF Following, StreamIsTheRun
    <3> QED BY <3>1, <3>2
  <2> QED BY <2>9, <2>10, <2>11, <2>12, <2>13 DEF Following
<1> QED BY <1>2, <1>3

LEMMA InitFollows == Init => Following
<1> SUFFICES ASSUME Init PROVE Following
  OBVIOUS
<1> USE QueueAssumption DEF Init, Job
<1>1. ASSUME NEW j \in Chat PROVE RunOK(j)
  BY DEF RunOK, Terminal
<1>2. ASSUME NEW c \in Client PROVE ClientOK(c)
  BY DEF ClientOK
<1>3. StreamIsTheRun
  BY DEF StreamIsTheRun
<1> QED BY <1>1, <1>2, <1>3 DEF Following

\* A dispatch makes a new run, which nobody follows yet.
LEMMA NewRunFollows ==
  ASSUME Following, Older, NEW j \in Chat, phase[j] = "new", phase'[j] # "new",
         UNCHANGED <<subscribers, clientVars>>,
         \/ run' = [run EXCEPT ![j] = "active"] /\ events' = events
         \/ /\ run' = [run EXCEPT ![j] = "error"]
            /\ events' = [events EXCEPT ![j] = <<"error">>]
  PROVE  Following'
<1>1. Chat \subseteq Job
  BY DEF Job
<1>2. /\ run' \in [Chat -> {"none", "active", "done", "error"}]
      /\ events' \in [Chat -> Seq(Event)]
  <2>1. <<"error">> \in Seq(Event)
    BY DEF Event
  <2>2. run' \in [Chat -> {"none", "active", "done", "error"}]
    BY DEF Following
  <2>3. events' \in [Chat -> Seq(Event)]
    BY <2>1 DEF Following
  <2> QED BY <2>2, <2>3
<1>3. ASSUME NEW k \in Chat PROVE RunOK(k)'
  <2>1. CASE k = j
    <3>1. events[j] = <<>>
      BY DEF Following, RunOK
    <3>2. CASE run'[j] = "active" /\ events'[j] = <<>>
      BY <2>1, <3>2 DEF RunOK, Ends, Terminal
    <3>3. CASE run'[j] = "error" /\ events'[j] = <<"error">>
      <4>1. 1 \in Ends(events[j])'
        BY <3>3 DEF Ends, Over, Terminal
      <4> QED BY <2>1, <3>3, <4>1 DEF RunOK
    <3> QED BY <3>1, <3>2, <3>3 DEF Following
  <2>2. CASE k # j
    <3>1. events'[k] = events[k] /\ run'[k] = run[k]
      BY <2>2 DEF Following
    <3> QED BY <1>1, <3>1 DEF Following, RunOK, Older, Ends
  <2> QED BY <2>1, <2>2
<1>4. ASSUME NEW c \in Client PROVE ClientOK(c)'
  <2>1. \A k \in Chat : k # j => run'[k] = run[k]
    BY DEF Following
  <2> QED BY <1>1, <2>1 DEF Following, ClientOK, Older, clientVars
<1>5. StreamIsTheRun'
  <2> SUFFICES ASSUME NEW c \in Client, NEW k \in Chat, stream[c] = k, c \notin closed,
                      run'[k] # "none"
               PROVE  heard[c] = UntilOver(events'[k])
    BY DEF StreamIsTheRun, clientVars
  <2>1. k # j
    BY DEF Following, ClientOK
  <2>2. events'[k] = events[k] /\ run'[k] = run[k]
    BY <2>1 DEF Following
  <2> QED BY <2>2 DEF Following, StreamIsTheRun
<1> QED BY <1>2, <1>3, <1>4, <1>5 DEF Following, clientVars

LEMMA SubscribeFollows ==
  ASSUME Following, NEW c \in Client, NEW j \in Chat, Subscribe(c, j)
  PROVE  Following'
<1>1. /\ stream[c] = None /\ phase[j] # "new" /\ None \notin Chat
      /\ stream' = [stream EXCEPT ![c] = j]
      /\ heard' = [heard EXCEPT ![c] = Replay(j)]
      /\ subscribers' = IF run[j] = "active"
                        THEN [subscribers EXCEPT ![j] = @ \cup {c}] ELSE subscribers
      /\ UNCHANGED <<run, events, closed, phase>>
  BY QueueAssumption DEF Subscribe, queueVars, Job
<1>2. Replay(j) \in Seq(Event)
  <2>1. <<"error">> \in Seq(Event)
    BY DEF Event
  <2>2. events[j] \in Seq(Event) /\ UntilOver(events[j]) \in Seq(Event)
    BY UntilType DEF Following
  <2> QED BY <2>1, <2>2 DEF Replay
<1>3. /\ stream' \in [Client -> Chat \cup {None}]
      /\ heard' \in [Client -> Seq(Event)]
      /\ subscribers' \in [Chat -> SUBSET Client]
  BY <1>1, <1>2 DEF Following
<1>4. ASSUME NEW k \in Chat PROVE RunOK(k)'
  BY <1>1 DEF Following, RunOK, Ends
<1>5. ASSUME NEW d \in Client PROVE ClientOK(d)'
  <2>1. ASSUME NEW k \in Chat
        PROVE  subscribers'[k] = IF k = j /\ run[j] = "active" THEN subscribers[k] \cup {c}
                                                               ELSE subscribers[k]
    BY <1>1 DEF Following
  <2>2. stream'[d] = IF d = c THEN j ELSE stream[d]
    BY <1>1 DEF Following
  <2>3. CASE d = c
    BY <1>1, <2>1, <2>2, <2>3 DEF Following, ClientOK
  <2>4. CASE d # c
    BY <1>1, <2>1, <2>2, <2>4 DEF Following, ClientOK
  <2> QED BY <2>3, <2>4
<1>6. StreamIsTheRun'
  <2> SUFFICES ASSUME NEW d \in Client, NEW k \in Chat, stream'[d] = k, d \notin closed,
                      run[k] # "none"
               PROVE  heard'[d] = UntilOver(events[k])
    BY <1>1 DEF StreamIsTheRun
  <2>1. CASE d = c
    BY <1>1, <2>1 DEF Following, Replay
  <2>2. CASE d # c
    BY <1>1, <2>2 DEF Following, StreamIsTheRun
  <2> QED BY <2>1, <2>2
<1> QED BY <1>1, <1>3, <1>4, <1>5, <1>6 DEF Following

LEMMA CloseFollows ==
  ASSUME Following, NEW c \in Client, Close(c)
  PROVE  Following'
<1>1. /\ stream[c] # None /\ closed' = closed \cup {c}
      /\ subscribers' = [subscribers EXCEPT ![stream[c]] = @ \ {c}]
      /\ UNCHANGED <<run, events, stream, heard, phase>>
  BY DEF Close, queueVars
<1>2. ASSUME NEW k \in Chat
      PROVE  subscribers'[k] = IF k = stream[c] THEN subscribers[k] \ {c} ELSE subscribers[k]
  BY <1>1 DEF Following
<1>3. subscribers' \in [Chat -> SUBSET Client] /\ closed' \subseteq Client
  BY <1>1 DEF Following
<1>4. ASSUME NEW k \in Chat PROVE RunOK(k)'
  BY <1>1 DEF Following, RunOK, Ends
<1>5. ASSUME NEW d \in Client PROVE ClientOK(d)'
  BY <1>1, <1>2 DEF Following, ClientOK
<1>6. StreamIsTheRun'
  BY <1>1 DEF Following, StreamIsTheRun
<1> QED BY <1>1, <1>3, <1>4, <1>5, <1>6 DEF Following

\* A run that is forgotten has no subscribers left.
LEMMA CleanupFollows ==
  ASSUME Following, NEW j \in Chat, Cleanup(j)
  PROVE  Following'
<1>1. /\ run[j] \in Terminal
      /\ run' = [run EXCEPT ![j] = "none"] /\ events' = [events EXCEPT ![j] = <<>>]
      /\ UNCHANGED <<subscribers, stream, heard, closed, phase>>
  BY DEF Cleanup, Expires, queueVars, clientVars
<1>2. /\ run' \in [Chat -> {"none", "active", "done", "error"}]
      /\ events' \in [Chat -> Seq(Event)]
  BY <1>1 DEF Following
<1>3. ASSUME NEW k \in Chat
      PROVE  run'[k] = (IF k = j THEN "none" ELSE run[k])
             /\ events'[k] = IF k = j THEN <<>> ELSE events[k]
  BY <1>1 DEF Following
<1>4. ASSUME NEW k \in Chat PROVE RunOK(k)'
  BY <1>1, <1>3 DEF Following, RunOK, Ends, Terminal
<1>5. ASSUME NEW d \in Client PROVE ClientOK(d)'
  BY <1>1, <1>3 DEF Following, ClientOK, Terminal
<1>6. StreamIsTheRun'
  BY <1>1, <1>3 DEF Following, StreamIsTheRun
<1> QED BY <1>1, <1>2, <1>4, <1>5, <1>6 DEF Following

\* The jobs a turn of the queue makes older.
LEMMA QueueOlder ==
  ASSUME Counted, NEW j \in Job
  PROVE  /\ Queue!EnqueueAccepts(j) \/ Queue!EnqueueRefuses(j) =>
              Older /\ phase[j] = "new" /\ phase'[j] # "new"
         /\ Queue!End(j) => Older
         /\ phase' = phase => Older
<1>1. phase \in [Job -> {"new", "accepted", "ended", "refused"}]
  BY DEF Counted, Proved!Inv, Proved!TypeOK
<1> QED BY <1>1 DEF Queue!EnqueueAccepts, Queue!EnqueueRefuses, Queue!End, Older

LEMMA StepFollows == Counted /\ Following /\ [Next]_vars => Following'
<1> SUFFICES ASSUME Counted, Following, [Next]_vars PROVE Following'
  OBVIOUS
<1>1. Chat \subseteq Job /\ Scheduled \subseteq Job
  BY DEF Job
<1>2. ASSUME NEW j \in Chat, Dispatch(j) \/ DispatchRefused(j) PROVE Following'
  <2>1. Older /\ phase[j] = "new" /\ phase'[j] # "new"
    BY <1>1, <1>2, QueueOlder DEF Dispatch, DispatchRefused
  <2> QED BY <1>2, <2>1, NewRunFollows DEF Dispatch, DispatchRefused
<1>3. ASSUME UNCHANGED <<phase, run, events, subscribers, clientVars>> PROVE Following'
  BY <1>3, QuietFollows DEF Older
<1>4. ASSUME NEW j \in Chat, Prepared(j) \/ CancelRun(j) PROVE Following'
  BY <1>3, <1>4 DEF Prepared, CancelRun, Move, queueVars, clientVars
<1>5. ASSUME NEW j \in Chat, CouncilAnswers(j) \/ CouncilFails(j) \/ Text(j) \/ Answer(j)
      PROVE  Following'
  <2>1. PICK e \in Event : Emit(j, e)
    BY <1>5 DEF CouncilAnswers, CouncilFails, Text, Answer, Event
  <2>2. Older /\ UNCHANGED <<stream, closed>>
    BY <1>5 DEF CouncilAnswers, CouncilFails, Text, Answer, Move, queueVars, Older
  <2> QED BY <2>1, <2>2, EmitFollows
<1>6. ASSUME NEW j \in Chat, Throw(j) PROVE Following'
  <2>1. Older /\ UNCHANGED <<stream, closed>> /\ Emit(j, "error")
    BY <1>1, <1>6, QueueOlder DEF Throw, Finish, Reports
  <2> QED BY <2>1, EmitFollows DEF Event
<1>7. ASSUME NEW j \in Job, Return(j) \/ ThrowScheduled(j) PROVE Following'
  <2>1. Older /\ UNCHANGED <<run, events, subscribers, clientVars>>
    BY <1>7, QueueOlder DEF Return, ThrowScheduled, Finish, clientVars
  <2> QED BY <2>1, QuietFollows
<1>8. ASSUME NEW j \in Scheduled, DispatchScheduled(j) PROVE Following'
  <2>1. Older /\ UNCHANGED <<run, events, subscribers, clientVars>>
    BY <1>1, <1>8, QueueOlder DEF DispatchScheduled, runVars
  <2> QED BY <2>1, QuietFollows
<1>9. ASSUME NEW j \in Scheduled, WorkScheduled(j) PROVE Following'
  BY <1>3, <1>9 DEF WorkScheduled, Move, queueVars, clientVars
<1>10. ASSUME NEW j \in Job, Timeout(j) PROVE Following'
  BY <1>3, <1>10 DEF Timeout, Queue!Timeout, runVars, clientVars
<1>11. CASE UNCHANGED vars
  BY <1>3, <1>11 DEF vars, queueVars, runVars
<1> QED
  BY <1>1, <1>2, <1>4, <1>5, <1>6, <1>7, <1>8, <1>9, <1>10, <1>11,
     CleanupFollows, SubscribeFollows, CloseFollows
  DEF Next, Work, WorkForSchedule

\* A client that joins a run at any moment and stays hears what the run emits, in order
\* and up to its first terminal event: the replay and the subscription of
\* GET /stream/:runId lose nothing and repeat nothing.
THEOREM StreamsFaithful == Spec => []StreamIsTheRun
<1>1. Following => StreamIsTheRun
  BY DEF Following
<1> QED BY <1>1, InitCounted, StepCounted, InitFollows, StepFollows, PTL DEF Spec

(***************************************************************************)
(* Types.                                                                   *)
(***************************************************************************)
Rest ==
  /\ cancellable \subseteq Chat
  /\ stage \in [Job -> {"preparing", "council", "loop", "answered"}]

LEMMA StepRest == Rest /\ [Next]_vars => Rest'
<1> SUFFICES ASSUME Rest, [Next]_vars PROVE Rest'
  OBVIOUS
<1>1. ASSUME UNCHANGED <<cancellable, stage>> PROVE Rest'
  BY <1>1 DEF Rest
<1>2. ASSUME NEW j \in Chat, Dispatch(j) \/ DispatchRefused(j) \/ CancelRun(j) \/ Cleanup(j)
      PROVE  Rest'
  BY <1>2 DEF Rest, Dispatch, DispatchRefused, CancelRun, Cleanup
<1>3. ASSUME NEW j \in Job, NEW from, NEW to \in {"council", "loop", "answered"},
             Move(j, from, to)
      PROVE  Rest'
  BY <1>3 DEF Rest, Move
<1>4. ASSUME NEW j \in Chat, Work(j) \/ Text(j) PROVE Rest'
  BY <1>1, <1>3, <1>4 DEF Work, Text, Prepared, CouncilAnswers, CouncilFails, Answer,
     Return, Throw, Finish, Job
<1>5. ASSUME NEW j \in Scheduled, DispatchScheduled(j) \/ WorkForSchedule(j) PROVE Rest'
  BY <1>1, <1>3, <1>5 DEF DispatchScheduled, WorkForSchedule, WorkScheduled, Return,
     ThrowScheduled, Finish, runVars, Job
<1>6. ASSUME NEW j \in Job, Timeout(j) PROVE Rest'
  BY <1>1, <1>6 DEF Timeout, runVars
<1>7. ASSUME NEW c \in Client, NEW j \in Chat, Subscribe(c, j) PROVE Rest'
  BY <1>1, <1>7 DEF Subscribe
<1>8. ASSUME NEW c \in Client, Close(c) PROVE Rest'
  BY <1>1, <1>8 DEF Close
<1>9. CASE UNCHANGED vars
  BY <1>1, <1>9 DEF vars, runVars
<1> QED BY <1>2, <1>4, <1>5, <1>6, <1>7, <1>8, <1>9 DEF Next

\* The state of the runs stays within its types; the count of running chats is
\* between zero and maxConcurrent.
THEOREM TypeCorrect == Spec => []TypeOK
<1>1. Init => Rest
  BY DEF Init, Rest
<1>2. Counted => concurrent \in 0 .. MaxConcurrent
  <2> SUFFICES ASSUME Counted PROVE concurrent \in 0 .. MaxConcurrent
    OBVIOUS
  <2>1. concurrent = Cardinality(RunningChats) /\ IsFiniteSet(RunningChats)
        /\ concurrent <= MaxConcurrent
    BY DEF Counted, ConcurrencyBound, RunningChats
  <2>2. concurrent \in Nat
    BY <2>1, FS_CardinalityType
  <2> QED BY <2>1, <2>2, LimitAssumption
<1>3. Counted /\ Following /\ Rest => TypeOK
  BY <1>2 DEF Following, Rest, TypeOK
<1> QED BY <1>1, <1>3, InitCounted, StepCounted, InitFollows, StepFollows, StepRest, PTL
    DEF Spec
=============================================================================
