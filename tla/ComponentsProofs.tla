------------------------- MODULE ComponentsProofs --------------------------
(***************************************************************************)
(* Proofs about the parts of the gateway that are modelled on their own     *)
(* (the connections to a tool server, the shutdown, the hourly limits and   *)
(* the council of agents) and about the whole composition: the types of     *)
(* every component.                                                         *)
(***************************************************************************)
EXTENDS RecordProofs, PolicyApprovalProofs

(***************************************************************************)
(* ToolServerPool.                                                          *)
(***************************************************************************)
\* What the timer of a connection waits for.
Timer == (SUBSET Call) \cup {None}

LEMMA NoTimer == None \in Timer
BY DEF Timer

\* A call that connects has a connection of its own, that nobody else knows of.
Connecting ==
  \A k \in Call : call[k] = "connecting" =>
    /\ run = "working"
    /\ via[k] \in Connection /\ state[via[k]] = "starting"
    /\ \A j \in Call : call[j] = "connecting" /\ via[j] = via[k] => j = k

\* A call in progress goes over a connection that is up, whose timer waits for it.
Calling ==
  \A k \in Call : call[k] = "calling" =>
    /\ run = "working"
    /\ via[k] \in Connection /\ state[via[k]] = "up"
    /\ covered[via[k]] # None /\ k \in covered[via[k]]

\* A timer is that of a connection that has been up; the map leads to such a one, and
\* while the run works that is up or being closed.
Timed ==
  \A c \in Connection :
    covered[c] # None \/ mapped = c => state[c] \notin {"unused", "starting"}

Leads == mapped # None /\ run = "working" => state[mapped] \in {"up", "closing"}

ToolServersInv ==
  /\ ToolServers!TypeOK
  /\ Connecting
  /\ Calling
  /\ Timed
  /\ Leads
  /\ ToolServers!NoServerLeaks

LEMMA ToolServersInit == ToolServers!Init => ToolServersInv
<1> SUFFICES ASSUME ToolServers!Init PROVE ToolServersInv
  OBVIOUS
<1> USE DEF ToolServers!Init
<1>1. ToolServers!TypeOK
  <2>1. covered \in [Connection -> Timer]
    BY DEF Timer
  <2> QED BY <2>1 DEF ToolServers!TypeOK, Timer
<1>2. Connecting /\ Calling /\ Leads
  BY DEF Connecting, Calling, Leads
<1>3. Timed /\ ToolServers!NoServerLeaks
  BY NoneAssumption DEF Timed, ToolServers!NoServerLeaks
<1> QED BY <1>1, <1>2, <1>3 DEF ToolServersInv

LEMMA ToolServersStep ==
  ASSUME ToolServersInv, [ToolServers!Next]_(ToolServers!vars)
  PROVE  ToolServersInv'
<1> USE NoneAssumption DEF ToolServersInv, ToolServers!TypeOK, Connecting, Calling, Timed, Leads,
      ToolServers!NoServerLeaks
<1>0. covered \in [Connection -> Timer]
  BY DEF Timer
<1>1. CASE UNCHANGED ToolServers!vars
  BY <1>1 DEF ToolServers!vars
<1>2. ASSUME NEW k \in Call, ToolServers!Reuse(k) PROVE ToolServersInv'
  BY <1>2 DEF ToolServers!Reuse, ToolServers!ResetIdleTimer, ToolServers!Calls
<1>3. ASSUME NEW k \in Call, NEW c \in Connection, ToolServers!Spawn(k, c) PROVE ToolServersInv'
  BY <1>3 DEF ToolServers!Spawn
<1>4. ASSUME NEW k \in Call, ToolServers!Connected(k) PROVE ToolServersInv'
  BY <1>4 DEF ToolServers!Connected, ToolServers!ResetIdleTimer, ToolServers!Calls
<1>5. ASSUME NEW k \in Call, ToolServers!ConnectFails(k) PROVE ToolServersInv'
  BY <1>5 DEF ToolServers!ConnectFails
<1>6. ASSUME NEW k \in Call, ToolServers!Ends(k) PROVE ToolServersInv'
  BY <1>6 DEF ToolServers!Ends
<1>7. ASSUME NEW c \in Connection, ToolServers!Dies(c) PROVE ToolServersInv'
  BY <1>7 DEF ToolServers!Dies, ToolServers!Calls
<1>8. ASSUME NEW c \in Connection, ToolServers!IdleFires(c) PROVE ToolServersInv'
  <2>0. covered' \in [Connection -> Timer]
    BY <1>0, <1>8, NoTimer DEF ToolServers!IdleFires
  <2>1. ToolServers!TypeOK' /\ Timed' /\ Leads'
    BY <1>8, <2>0 DEF ToolServers!IdleFires, Timer
  <2>2. Calling'
    BY <1>8 DEF ToolServers!IdleFires
  <2>3. Connecting' /\ ToolServers!NoServerLeaks'
    BY <1>8 DEF ToolServers!IdleFires
  <2> QED BY <2>1, <2>2, <2>3
<1>9. ASSUME NEW c \in Connection, ToolServers!IdleClosed(c) PROVE ToolServersInv'
  BY <1>9 DEF ToolServers!IdleClosed
<1>10. CASE ToolServers!Shutdown
  <2>0. covered' \in [Connection -> Timer]
    BY <1>0, <1>10, NoTimer DEF ToolServers!Shutdown
  <2>1. ToolServers!TypeOK' /\ Timed' /\ Leads'
    BY <1>10, <2>0 DEF ToolServers!Shutdown, Timer
  <2>2. Calling' /\ Connecting'
    BY <1>10 DEF ToolServers!Shutdown
  <2>3. ToolServers!NoServerLeaks'
    BY <1>10 DEF ToolServers!Shutdown
  <2> QED BY <2>1, <2>2, <2>3
<1>11. CASE ToolServers!Cleared
  BY <1>11 DEF ToolServers!Cleared
<1> QED
  BY <1>1, <1>2, <1>3, <1>4, <1>5, <1>6, <1>7, <1>8, <1>9, <1>10, <1>11 DEF ToolServers!Next

(***************************************************************************)
(* GatewayShutdown.                                                         *)
(***************************************************************************)
\* A lane holds jobs of its user, and every job that was accepted and has not ended.
Laned ==
  /\ \A u \in User : \A i \in 1 .. Len(lane[u]) : Owner[lane[u][i]] = u
  /\ \A j \in Shutdown!Accepted :
       \E i \in 1 .. Len(lane[Owner[j]]) : lane[Owner[j]][i] = j

\* A client's job that was accepted.
Accepted(j) == j \in Shutdown!Accepted \ Scheduled

\* Once a shutdown began no client's job is accepted; once it drained, those there
\* are were awaited; once it drained and went on, its timer went off and what ran was
\* aborted; and the process exits after that.
Stopping ==
  /\ \A s \in Signal :
       /\ stop[s] # "none" => ~listening
       /\ stop[s] \in {"draining", "disconnecting"} =>
            \A j \in Job : Accepted(j) => j \in awaited[s]
       /\ stop[s] = "disconnecting" =>
            \A j \in Job : Accepted(j) =>
              timedOut # {} /\ \E i \in jobAborted : Owner[i] = Owner[j]
  /\ exited => \E s \in Signal : stop[s] = "disconnecting"

ShutdownInv == Shutdown!TypeOK /\ Laned /\ Stopping

LEMMA ShutdownInit == Shutdown!Init => ShutdownInv
<1> SUFFICES ASSUME Shutdown!Init PROVE ShutdownInv
  OBVIOUS
<1> USE DEF Shutdown!Init
<1>1. Shutdown!TypeOK
  <2>1. lane \in [User -> Seq(Job)]
    OBVIOUS
  <2>2. /\ jobPhase \in [Job -> {"new", "accepted", "ended"}]
        /\ stop \in [Signal -> {"none", "closing", "draining", "disconnecting"}]
        /\ awaited \in [Signal -> SUBSET Job]
    OBVIOUS
  <2> QED BY <2>1, <2>2 DEF Shutdown!TypeOK
<1>2. Laned
  BY DEF Laned, Shutdown!Accepted
<1>3. Stopping
  BY DEF Stopping
<1> QED BY <1>1, <1>2, <1>3 DEF ShutdownInv

\* The owner of a job that is accepted runs one of its jobs.
LEMMA OwnerRuns ==
  ASSUME Shutdown!TypeOK, Laned, NEW j \in Job, Accepted(j)
  PROVE  \E i \in Shutdown!Running : Owner[i] = Owner[j]
<1>1. Owner[j] \in User /\ lane[Owner[j]] \in Seq(Job) /\ lane[Owner[j]] # <<>>
  BY OwnerAssumption DEF Shutdown!TypeOK, Laned, Accepted, Shutdown!Accepted
<1>2. Owner[Head(lane[Owner[j]])] = Owner[j]
  BY <1>1 DEF Laned
<1> QED BY <1>1, <1>2 DEF Shutdown!Running

\* Stopping stays as long as no signal is handled and no client's job accepted.
LEMMA StoppingOn ==
  ASSUME Stopping, UNCHANGED <<stop, awaited, timedOut, exited, jobAborted, listening>>,
         \A j \in Job : Accepted(j)' => Accepted(j) \/ listening
  PROVE  Stopping'
BY DEF Stopping

LEMMA ShutdownStep ==
  ASSUME ShutdownInv, [Shutdown!Next]_(Shutdown!vars)
  PROVE  ShutdownInv'
<1> USE OwnerAssumption DEF ShutdownInv, Shutdown!jobs, Shutdown!server, Shutdown!shutdown
<1>1. ASSUME UNCHANGED <<lane, jobPhase, jobAborted, streams>> \/ UNCHANGED <<lane, jobPhase>>
      PROVE  Laned' /\ \A j \in Job : Accepted(j)' <=> Accepted(j)
  BY <1>1 DEF Laned, Accepted, Shutdown!Accepted
<1>2. CASE UNCHANGED Shutdown!vars
  BY <1>1, <1>2 DEF Shutdown!vars, Shutdown!TypeOK, Stopping, Shutdown!Accepted
<1>3. ASSUME NEW j \in Job, Shutdown!Enqueue(j) PROVE ShutdownInv'
  <2>1. Shutdown!TypeOK'
    BY <1>3 DEF Shutdown!Enqueue, Shutdown!TypeOK, Shutdown!Accepted
  <2>2. Laned'
    <3> DEFINE u == Owner[j]
    <3>1. u \in User /\ lane[u] \in Seq(Job) /\ lane' = [lane EXCEPT ![u] = Append(lane[u], j)]
      BY <1>3 DEF Shutdown!Enqueue, Shutdown!TypeOK
    <3>2. /\ Len(lane'[u]) = Len(lane[u]) + 1 /\ lane'[u][Len(lane[u]) + 1] = j
          /\ \A i \in 1 .. Len(lane[u]) : lane'[u][i] = lane[u][i]
          /\ Len(lane[u]) \in Nat
      BY <3>1 DEF Shutdown!TypeOK
    <3>3. \A v \in User : v # u => lane'[v] = lane[v]
      BY <3>1 DEF Shutdown!TypeOK
    <3>4. \A v \in User : \A i \in 1 .. Len(lane'[v]) : Owner[lane'[v][i]] = v
      BY <3>2, <3>3 DEF Laned
    <3>5. ASSUME NEW k \in Shutdown!Accepted'
          PROVE  \E i \in 1 .. Len(lane'[Owner[k]]) : lane'[Owner[k]][i] = k
      <4>1. k \in Job /\ Owner[k] \in User /\ (k = j \/ k \in Shutdown!Accepted)
        BY <1>3, <3>5 DEF Shutdown!Enqueue, Shutdown!TypeOK, Shutdown!Accepted
      <4>2. CASE k = j
        BY <3>2, <4>2
      <4>3. CASE k \in Shutdown!Accepted
        BY <3>2, <3>3, <4>1, <4>3 DEF Laned
      <4> QED BY <4>1, <4>2, <4>3
    <3> QED BY <3>4, <3>5 DEF Laned
  <2>3. \A i \in Job : Accepted(i)' => Accepted(i) \/ listening
    BY <1>3 DEF Shutdown!Enqueue, Shutdown!MayEnqueue, Shutdown!TypeOK, Accepted, Shutdown!Accepted
  <2>4. Stopping'
    BY <1>3, <2>3, StoppingOn DEF Shutdown!Enqueue
  <2> QED BY <2>1, <2>2, <2>4
<1>4. ASSUME NEW j \in Job, Shutdown!End(j) PROVE ShutdownInv'
  <2>1. Shutdown!TypeOK'
    BY <1>4 DEF Shutdown!End, Shutdown!TypeOK, Shutdown!Accepted
  <2>2. Laned'
    <3> DEFINE u == Owner[j]
    <3>1. /\ u \in User /\ lane[u] \in Seq(Job) /\ lane[u] # <<>> /\ lane[u][1] = j
          /\ lane' = [lane EXCEPT ![u] = Tail(lane[u])]
      BY <1>4 DEF Shutdown!End, Shutdown!TypeOK
    <3>2. /\ Len(lane[u]) \in Nat \ {0} /\ Len(lane'[u]) = Len(lane[u]) - 1
          /\ \A i \in 1 .. Len(lane[u]) - 1 : lane'[u][i] = lane[u][i + 1]
      BY <3>1 DEF Shutdown!TypeOK
    <3>3. \A v \in User : v # u => lane'[v] = lane[v]
      BY <3>1 DEF Shutdown!TypeOK
    <3>4. ASSUME NEW v \in User, NEW i \in 1 .. Len(lane'[v]) PROVE Owner[lane'[v][i]] = v
      <4>1. CASE v = u
        <5>1. i + 1 \in 1 .. Len(lane[u]) /\ lane'[u][i] = lane[u][i + 1]
          BY <3>2, <4>1
        <5> QED BY <4>1, <5>1 DEF Laned
      <4> QED BY <3>3, <4>1 DEF Laned
    <3>5. ASSUME NEW k \in Shutdown!Accepted'
          PROVE  \E i \in 1 .. Len(lane'[Owner[k]]) : lane'[Owner[k]][i] = k
      <4>1. k \in Job /\ Owner[k] \in User /\ k # j /\ k \in Shutdown!Accepted
        BY <1>4, <3>5 DEF Shutdown!End, Shutdown!TypeOK, Shutdown!Accepted
      <4>2. CASE Owner[k] = u
        <5>1. PICK i \in 1 .. Len(lane[u]) : lane[u][i] = k
          BY <4>1, <4>2 DEF Laned
        <5>2. i # 1 /\ i - 1 \in 1 .. Len(lane[u]) - 1
          BY <3>1, <3>2, <4>1, <5>1
        <5>3. lane'[u][i - 1] = lane[u][(i - 1) + 1] /\ (i - 1) + 1 = i
          BY <3>2, <5>2
        <5> QED BY <3>2, <4>2, <5>1, <5>2, <5>3
      <4>3. CASE Owner[k] # u
        BY <3>3, <4>1, <4>3 DEF Laned
      <4> QED BY <4>2, <4>3
    <3> QED BY <3>4, <3>5 DEF Laned
  <2>3. \A i \in Job : Accepted(i)' => Accepted(i)
    BY <1>4 DEF Shutdown!End, Shutdown!TypeOK, Accepted, Shutdown!Accepted
  <2>4. Stopping'
    BY <1>4, <2>3, StoppingOn DEF Shutdown!End
  <2> QED BY <2>1, <2>2, <2>4
<1>5. ASSUME NEW j \in Job, Shutdown!OpenStream(j) \/ Shutdown!CloseStream(j) PROVE ShutdownInv'
  BY <1>1, <1>5, StoppingOn DEF Shutdown!OpenStream, Shutdown!CloseStream, Shutdown!TypeOK,
    Shutdown!Accepted
<1>6. CASE Shutdown!Tick \/ Shutdown!TickEnds
  BY <1>1, <1>6, StoppingOn DEF Shutdown!Tick, Shutdown!TickEnds, Shutdown!TypeOK, Shutdown!Accepted
<1>7. ASSUME NEW s \in Signal, Shutdown!Stop(s) PROVE ShutdownInv'
  <2>1. Shutdown!TypeOK'
    BY <1>7 DEF Shutdown!Stop, Shutdown!TypeOK, Shutdown!Accepted
  <2>2. Stopping'
    BY <1>1, <1>7 DEF Shutdown!Stop, Shutdown!TypeOK, Stopping
  <2> QED BY <1>1, <1>7, <2>1, <2>2 DEF Shutdown!Stop
<1>8. ASSUME NEW s \in Signal, Shutdown!Drain(s) PROVE ShutdownInv'
  <2>1. Shutdown!TypeOK'
    BY <1>8 DEF Shutdown!Drain, Shutdown!TypeOK, Shutdown!Accepted, Shutdown!Chained
  <2>2. Stopping'
    BY <1>1, <1>8 DEF Shutdown!Drain, Shutdown!TypeOK, Stopping, Shutdown!Chained, Accepted
  <2> QED BY <1>1, <1>8, <2>1, <2>2 DEF Shutdown!Drain
<1>9. ASSUME NEW s \in Signal, Shutdown!DrainEnds(s) PROVE ShutdownInv'
  <2>1. Shutdown!Running \subseteq Job
    BY DEF Shutdown!Running, Shutdown!TypeOK
  <2>2. Shutdown!TypeOK'
    BY <1>9, <2>1 DEF Shutdown!DrainEnds, Shutdown!TypeOK, Shutdown!Accepted, Shutdown!Aborts
  <2>3. ASSUME NEW j \in Job, Accepted(j)
        PROVE  timedOut' # {} /\ \E i \in jobAborted' : Owner[i] = Owner[j]
    <3>1. j \in awaited[s] /\ jobPhase[j] = "accepted"
      BY <1>9, <2>3 DEF Shutdown!DrainEnds, Stopping, Accepted, Shutdown!Accepted
    <3>2. timedOut' = timedOut \cup {s}
      BY <1>9, <3>1 DEF Shutdown!DrainEnds, Shutdown!Ended
    <3> QED BY <1>9, <2>3, <3>2, OwnerRuns DEF Shutdown!DrainEnds, Shutdown!Aborts
  <2>4. Stopping'
    BY <1>1, <1>9, <2>3 DEF Shutdown!DrainEnds, Shutdown!TypeOK, Stopping
  <2> QED BY <1>1, <1>9, <2>2, <2>4 DEF Shutdown!DrainEnds
<1>10. ASSUME NEW s \in Signal, Shutdown!Exit(s) PROVE ShutdownInv'
  <2>1. Shutdown!TypeOK'
    BY <1>10 DEF Shutdown!Exit, Shutdown!TypeOK, Shutdown!Accepted
  <2>2. Stopping'
    BY <1>1, <1>10 DEF Shutdown!Exit, Stopping
  <2> QED BY <1>1, <1>10, <2>1, <2>2 DEF Shutdown!Exit
<1> QED
  BY <1>2, <1>3, <1>4, <1>5, <1>6, <1>7, <1>8, <1>9, <1>10 DEF Shutdown!Next

(***************************************************************************)
(* HourlyLimit.                                                             *)
(***************************************************************************)
\* w holds the timestamps of the accepted requests of S, in their order, but for some that
\* have expired at time t: the i-th is that of request of[i].
Follows(of, w, S, hits, t) ==
  /\ of \in [1 .. Len(w) -> DOMAIN hits]
  /\ \A i, j \in 1 .. Len(w) : of[i] = of[j] => i = j
  /\ \A i \in 1 .. Len(w) : hits[of[i]].user \in S /\ hits[of[i]].at = w[i]
  /\ \A k \in DOMAIN hits :
       hits[k].user \in S /\ hits[k].at >= t - Window => \E i \in 1 .. Len(w) : of[i] = k

Tracks(w, S, hits, t, limit) ==
  /\ w \in Seq(Nat) /\ Len(w) <= limit
  /\ \A i, j \in 1 .. Len(w) : i <= j => w[i] <= w[j]
  /\ \A i \in 1 .. Len(w) : w[i] <= t
  /\ \E of \in [1 .. Len(w) -> DOMAIN hits] : Follows(of, w, S, hits, t)

RateLimitInv ==
  /\ now \in Nat
  /\ accepted \in Seq([user : User, at : Nat])
  /\ DOMAIN userWindow = User
  /\ \A u \in User : Tracks(userWindow[u], {u}, accepted, now, PerUser)
  /\ Tracks(orgWindow, User, accepted, now, PerOrg)

\* The loop of pruneWindow ends where the first timestamp within the window is, or at the end.
LEMMA CutsOff ==
  ASSUME now \in Nat, NEW w \in Seq(Nat)
  PROVE  /\ RateLimit!CutOff(w) \in 0 .. Len(w)
         /\ \A j \in 1 .. RateLimit!CutOff(w) : w[j] < now - Window
         /\ RateLimit!CutOff(w) < Len(w) => ~(w[RateLimit!CutOff(w) + 1] < now - Window)
<1> DEFINE Cut(i) ==
      (\A j \in 1 .. i : RateLimit!Expired(w[j])) /\ (i < Len(w) => ~RateLimit!Expired(w[i + 1]))
           stops == {i \in 0 .. Len(w) : i < Len(w) => ~RateLimit!Expired(w[i + 1])}
<1>1. stops \in SUBSET Nat /\ stops # {}
  <2>1. Len(w) \in stops
    OBVIOUS
  <2> QED BY <2>1
<1>2. PICK i \in stops : \A j \in stops : i <= j
  <2> HIDE DEF stops
  <2>1. PICK i \in stops : \A j \in stops : ~(<<j, i>> \in OpToRel(<, Nat))
    BY <1>1, NatLessThanWellFounded, WFMin
  <2>2. ASSUME NEW j \in stops PROVE i <= j
    <3>1. ~(j < i)
      BY <1>1, <2>1 DEF OpToRel
    <3> QED BY <1>1, <3>1
  <2> QED BY <2>2
<1>3. i \in 0 .. Len(w) /\ (i < Len(w) => ~RateLimit!Expired(w[i + 1]))
  OBVIOUS
<1>4. ASSUME NEW j \in 1 .. i PROVE RateLimit!Expired(w[j])
  <2>1. j - 1 \in 0 .. Len(w) /\ j - 1 < Len(w) /\ ~(i <= j - 1) /\ (j - 1) + 1 = j
    BY <1>3, <1>4
  <2>2. j - 1 \notin stops
    <3> HIDE DEF stops
    <3> QED BY <1>2, <2>1
  <2> QED BY <2>1, <2>2
<1>5. \E k \in 0 .. Len(w) : Cut(k)
  BY <1>3, <1>4
<1>6. RateLimit!CutOff(w) \in 0 .. Len(w) /\ Cut(RateLimit!CutOff(w))
  <2>1. RateLimit!CutOff(w) = CHOOSE k \in 0 .. Len(w) : Cut(k)
    BY DEF RateLimit!CutOff
  <2> HIDE DEF Cut
  <2> QED BY <1>5, <2>1
<1> QED BY <1>6 DEF RateLimit!Expired

\* A window that is cut still tracks the hour,
LEMMA CutTracks ==
  ASSUME NEW S, NEW hits, NEW t \in Nat, NEW limit \in Nat, NEW w, Tracks(w, S, hits, t, limit),
         NEW c \in 0 .. Len(w), \A j \in 1 .. c : w[j] < t - Window
  PROVE  Tracks(SubSeq(w, c + 1, Len(w)), S, hits, t, limit)
<1> USE LimitsAssumption
<1> DEFINE v == SubSeq(w, c + 1, Len(w))
<1>1. w \in Seq(Nat) /\ Len(w) \in Nat /\ Len(w) <= limit
  BY DEF Tracks
<1>2. v \in Seq(Nat) /\ Len(v) = Len(w) - c /\ \A i \in 1 .. Len(v) : v[i] = w[i + c]
  BY <1>1
<1>3. PICK of \in [1 .. Len(w) -> DOMAIN hits] : Follows(of, w, S, hits, t)
  BY DEF Tracks
<1> DEFINE g == [i \in 1 .. Len(v) |-> of[i + c]]
<1> HIDE DEF v
<1>4. \A i \in 1 .. Len(v) : i + c \in 1 .. Len(w)
  BY <1>1, <1>2
<1>5. Follows(g, v, S, hits, t)
  <2>1. g \in [1 .. Len(v) -> DOMAIN hits]
    BY <1>3, <1>4
  <2>2. ASSUME NEW i \in 1 .. Len(v), NEW j \in 1 .. Len(v), g[i] = g[j] PROVE i = j
    <3>1. i + c = j + c
      BY <1>3, <1>4, <2>2 DEF Follows
    <3> QED BY <1>2, <3>1
  <2>3. ASSUME NEW i \in 1 .. Len(v) PROVE hits[g[i]].user \in S /\ hits[g[i]].at = v[i]
    BY <1>2, <1>3, <1>4 DEF Follows
  <2>4. ASSUME NEW k \in DOMAIN hits, hits[k].user \in S, hits[k].at >= t - Window
        PROVE  \E i \in 1 .. Len(v) : g[i] = k
    <3>1. PICK i \in 1 .. Len(w) : of[i] = k
      BY <1>3, <2>4 DEF Follows
    <3>2. w[i] >= t - Window
      BY <1>3, <2>4, <3>1 DEF Follows
    <3>3. i \notin 1 .. c
      BY <1>1, <3>2
    <3>4. i - c \in 1 .. Len(v) /\ (i - c) + c = i
      BY <1>1, <1>2, <3>3
    <3> QED BY <3>1, <3>4
  <2> HIDE DEF g
  <2> QED BY <2>1, <2>2, <2>3, <2>4 DEF Follows
<1>6. /\ \A i, j \in 1 .. Len(v) : i <= j => v[i] <= v[j]
      /\ \A i \in 1 .. Len(v) : v[i] <= t
  <2>1. ASSUME NEW i \in 1 .. Len(v), NEW j \in 1 .. Len(v), i <= j PROVE v[i] <= v[j]
    <3>1. i + c <= j + c
      BY <1>2, <2>1
    <3> QED BY <1>2, <1>4, <3>1 DEF Tracks
  <2>2. ASSUME NEW i \in 1 .. Len(v) PROVE v[i] <= t
    BY <1>2, <1>4 DEF Tracks
  <2> QED BY <2>1, <2>2
<1>7. Len(v) <= limit
  BY <1>1, <1>2
<1>8. g \in [1 .. Len(v) -> DOMAIN hits]
  BY <1>5 DEF Follows
<1>9. Tracks(v, S, hits, t, limit)
  BY <1>2, <1>5, <1>6, <1>7, <1>8 DEF Tracks
<1> QED BY <1>9 DEF v

\* and so does one that is pruned.
LEMMA PrunedTracks ==
  ASSUME now \in Nat, NEW S, NEW limit \in Nat, NEW w, Tracks(w, S, accepted, now, limit)
  PROVE  Tracks(RateLimit!Pruned(w), S, accepted, now, limit)
<1>1. w \in Seq(Nat)
  BY DEF Tracks
<1> QED BY <1>1, CutsOff, CutTracks DEF RateLimit!Pruned

\* A request of the window's is appended, one of somebody else's changes nothing,
LEMMA HitTracks ==
  ASSUME NEW S, NEW u \in S, NEW hits \in Seq([user : User, at : Nat]), u \in User, NEW t \in Nat,
         NEW limit \in Nat, NEW w, Tracks(w, S, hits, t, limit), Len(w) < limit
  PROVE  Tracks(Append(w, t), S, Append(hits, [user |-> u, at |-> t]), t, limit)
<1> DEFINE v == Append(w, t)
           more == Append(hits, [user |-> u, at |-> t])
<1>1. w \in Seq(Nat) /\ Len(w) \in Nat
  BY DEF Tracks
<1>2. /\ v \in Seq(Nat) /\ Len(v) = Len(w) + 1 /\ v[Len(w) + 1] = t
      /\ \A i \in 1 .. Len(w) : v[i] = w[i]
  BY <1>1
<1>3. /\ Len(hits) \in Nat /\ DOMAIN hits = 1 .. Len(hits)
      /\ DOMAIN more = 1 .. Len(hits) + 1
      /\ more[Len(hits) + 1].user = u /\ more[Len(hits) + 1].at = t
      /\ \A k \in DOMAIN hits : more[k] = hits[k]
  OBVIOUS
<1>4. PICK of \in [1 .. Len(w) -> DOMAIN hits] : Follows(of, w, S, hits, t)
  BY DEF Tracks
<1> DEFINE g == [i \in 1 .. Len(v) |-> IF i \in 1 .. Len(w) THEN of[i] ELSE Len(hits) + 1]
<1> HIDE DEF v, more
<1>5. \A i \in 1 .. Len(v) : i \in 1 .. Len(w) \/ i = Len(w) + 1
  BY <1>1, <1>2
<1>5a. 1 .. Len(w) \subseteq 1 .. Len(v) /\ Len(w) + 1 \in 1 .. Len(v) /\ Len(w) + 1 \notin 1 .. Len(w)
  BY <1>1, <1>2
<1>5b. /\ \A i \in 1 .. Len(w) : g[i] = of[i] /\ g[i] \in DOMAIN hits /\ g[i] # Len(hits) + 1
       /\ g[Len(w) + 1] = Len(hits) + 1
  BY <1>3, <1>5a
<1>6. Follows(g, v, S, more, t)
  <2>1. g \in [1 .. Len(v) -> DOMAIN more]
    BY <1>3, <1>4, <1>5
  <2> HIDE DEF g
  <2>2. ASSUME NEW i \in 1 .. Len(v), NEW j \in 1 .. Len(v), g[i] = g[j] PROVE i = j
    BY <1>4, <1>5, <1>5b, <2>2 DEF Follows
  <2>3. ASSUME NEW i \in 1 .. Len(v) PROVE more[g[i]].user \in S /\ more[g[i]].at = v[i]
    <3>1. CASE i \in 1 .. Len(w)
      BY <1>2, <1>3, <1>4, <1>5b, <3>1 DEF Follows
    <3>2. CASE i = Len(w) + 1
      BY <1>2, <1>3, <1>5b, <3>2
    <3> QED BY <1>5, <3>1, <3>2
  <2>4. ASSUME NEW k \in DOMAIN more, more[k].user \in S, more[k].at >= t - Window
        PROVE  \E i \in 1 .. Len(v) : g[i] = k
    <3>1. CASE k = Len(hits) + 1
      BY <1>5a, <1>5b, <3>1
    <3>2. CASE k \in DOMAIN hits
      <4>1. PICK i \in 1 .. Len(w) : of[i] = k
        BY <1>3, <1>4, <2>4, <3>2 DEF Follows
      <4> QED BY <1>5a, <1>5b, <4>1
    <3> QED BY <1>3, <3>1, <3>2
  <2> QED BY <2>1, <2>2, <2>3, <2>4 DEF Follows
<1>7. /\ \A i, j \in 1 .. Len(v) : i <= j => v[i] <= v[j]
      /\ \A i \in 1 .. Len(v) : v[i] <= t
  <2>1. \A i \in 1 .. Len(v) : v[i] <= t
    BY <1>2, <1>5 DEF Tracks
  <2>2. ASSUME NEW i \in 1 .. Len(v), NEW j \in 1 .. Len(v), i <= j PROVE v[i] <= v[j]
    <3>1. CASE j = Len(w) + 1
      BY <1>2, <2>1, <3>1
    <3>2. CASE j \in 1 .. Len(w)
      <4>1. i \in 1 .. Len(w)
        BY <1>1, <1>5, <2>2, <3>2
      <4> QED BY <1>2, <2>2, <3>2, <4>1 DEF Tracks
    <3> QED BY <1>5, <3>1, <3>2
  <2> QED BY <2>1, <2>2
<1>8. Len(v) <= limit
  BY <1>1, <1>2
<1>9. g \in [1 .. Len(v) -> DOMAIN more]
  BY <1>6 DEF Follows
<1>10. Tracks(v, S, more, t, limit)
  BY <1>2, <1>6, <1>7, <1>8, <1>9 DEF Tracks
<1> QED BY <1>10 DEF v, more

LEMMA OthersHitTracks ==
  ASSUME NEW S, NEW u \in User, u \notin S, NEW hits \in Seq([user : User, at : Nat]),
         NEW t \in Nat, NEW limit \in Nat, NEW w, Tracks(w, S, hits, t, limit)
  PROVE  Tracks(w, S, Append(hits, [user |-> u, at |-> t]), t, limit)
<1> DEFINE more == Append(hits, [user |-> u, at |-> t])
<1>1. /\ Len(hits) \in Nat /\ DOMAIN hits = 1 .. Len(hits)
      /\ DOMAIN more = 1 .. Len(hits) + 1
      /\ more[Len(hits) + 1].user = u
      /\ \A k \in DOMAIN hits : more[k] = hits[k]
  OBVIOUS
<1> HIDE DEF more
<1>2. PICK of \in [1 .. Len(w) -> DOMAIN hits] : Follows(of, w, S, hits, t)
  BY DEF Tracks
<1>3. DOMAIN hits \subseteq DOMAIN more /\ \A k \in DOMAIN more : k \in DOMAIN hits \/ k = Len(hits) + 1
  BY <1>1
<1>4. of \in [1 .. Len(w) -> DOMAIN more]
  BY <1>2, <1>3
<1>5. Follows(of, w, S, more, t)
  <2>1. \A i \in 1 .. Len(w) : more[of[i]].user \in S /\ more[of[i]].at = w[i]
    BY <1>1, <1>2 DEF Follows
  <2>2. \A k \in DOMAIN more :
          more[k].user \in S /\ more[k].at >= t - Window => \E i \in 1 .. Len(w) : of[i] = k
    BY <1>1, <1>2, <1>3 DEF Follows
  <2> QED BY <1>2, <1>4, <2>1, <2>2 DEF Follows
<1> QED BY <1>4, <1>5 DEF Tracks, more

\* and nor does time.
LEMMA TimeTracks ==
  ASSUME NEW S, NEW hits \in Seq([user : User, at : Nat]), NEW t \in Nat, NEW limit \in Nat, NEW w,
         Tracks(w, S, hits, t, limit)
  PROVE  Tracks(w, S, hits, t + 1, limit)
<1> USE LimitsAssumption
<1>1. PICK of \in [1 .. Len(w) -> DOMAIN hits] : Follows(of, w, S, hits, t)
  BY DEF Tracks
<1>2. Follows(of, w, S, hits, t + 1)
  <2>1. \A k \in DOMAIN hits : hits[k].at \in Nat
    <3> DEFINE Hit == [user : User, at : Nat]
    <3>1. \A k \in DOMAIN hits : hits[k] \in Hit
      <4>1. hits \in Seq(Hit)
        OBVIOUS
      <4> HIDE DEF Hit
      <4> QED BY <4>1
    <3> QED BY <3>1
  <2>2. \A k \in DOMAIN hits : hits[k].at >= (t + 1) - Window => hits[k].at >= t - Window
    BY <2>1
  <2> QED BY <1>1, <2>2 DEF Follows
<1>3. \A i \in 1 .. Len(w) : w[i] <= t + 1
  BY DEF Tracks
<1> QED BY <1>2, <1>3 DEF Tracks

\* What is left of a window that was pruned counts the requests of the last hour.
LEMMA Counts ==
  ASSUME now \in Nat, accepted \in Seq([user : User, at : Nat]),
         NEW S, NEW limit \in Nat, NEW w, Tracks(w, S, accepted, now, limit)
  PROVE  /\ RateLimit!InLastHour(S) = Len(RateLimit!Pruned(w))
         /\ Len(RateLimit!Pruned(w)) \in 0 .. limit
<1> USE LimitsAssumption
<1> DEFINE v == RateLimit!Pruned(w)
           hour == {i \in DOMAIN accepted : accepted[i].user \in S /\ accepted[i].at >= now - Window}
<1>1. Tracks(v, S, accepted, now, limit)
  BY PrunedTracks
<1>2. \A i \in 1 .. Len(v) : v[i] >= now - Window
  <2> DEFINE c == RateLimit!CutOff(w)
  <2>1. w \in Seq(Nat) /\ Len(w) \in Nat
    BY DEF Tracks
  <2>2. c \in 0 .. Len(w) /\ (c < Len(w) => ~(w[c + 1] < now - Window))
    BY <2>1, CutsOff
  <2>3. v = SubSeq(w, c + 1, Len(w))
    BY DEF RateLimit!Pruned
  <2> HIDE DEF v, c
  <2>4. Len(v) = Len(w) - c /\ \A i \in 1 .. Len(v) : v[i] = w[i + c]
    BY <2>1, <2>2, <2>3
  <2>5. ASSUME NEW i \in 1 .. Len(v) PROVE v[i] >= now - Window
    <3>1. c < Len(w) /\ c + 1 \in 1 .. Len(w) /\ i + c \in 1 .. Len(w) /\ c + 1 <= i + c
      BY <2>1, <2>2, <2>4
    <3>2. w[c + 1] <= w[i + c]
      BY <3>1 DEF Tracks
    <3>3. w[c + 1] \in Nat /\ w[i + c] \in Nat
      BY <2>1, <3>1
    <3> QED BY <2>2, <2>4, <3>1, <3>2, <3>3
  <2> QED BY <2>5
<1> HIDE DEF v
<1>3. v \in Seq(Nat) /\ Len(v) \in Nat /\ Len(v) <= limit
  BY <1>1 DEF Tracks
<1>4. PICK of \in [1 .. Len(v) -> DOMAIN accepted] : Follows(of, v, S, accepted, now)
  BY <1>1 DEF Tracks
<1>5. of \in Bijection(1 .. Len(v), hour)
  <2>1. \A i \in 1 .. Len(v) : of[i] \in hour
    BY <1>2, <1>4 DEF Follows
  <2>2. \A k \in hour : \E i \in 1 .. Len(v) : of[i] = k
    BY <1>4 DEF Follows
  <2>3. \A i, j \in 1 .. Len(v) : of[i] = of[j] => i = j
    BY <1>4 DEF Follows
  <2> HIDE DEF hour
  <2>4. of \in [1 .. Len(v) -> hour]
    BY <1>4, <2>1
  <2> QED BY <2>2, <2>3, <2>4 DEF Bijection, Injection, Surjection,
        IsInjective
<1>6. Cardinality(hour) = Len(v)
  <2> HIDE DEF hour
  <2> QED BY <1>3, <1>5, FS_CountingElements DEF ExistsBijection
<1>7. RateLimit!InLastHour(S) = Cardinality(hour)
  BY DEF RateLimit!InLastHour, RateLimit!Cardinality, Cardinality
<1> QED BY <1>3, <1>6, <1>7 DEF v

LEMMA RateLimitInit == RateLimit!Init => RateLimitInv
<1> SUFFICES ASSUME RateLimit!Init PROVE RateLimitInv
  OBVIOUS
<1> USE LimitsAssumption DEF RateLimit!Init
<1>1. accepted \in Seq([user : User, at : Nat]) /\ DOMAIN accepted = {}
  OBVIOUS
<1>2. ASSUME NEW S, NEW limit \in Nat PROVE Tracks(<<>>, S, accepted, 0, limit)
  <2> DEFINE of == [i \in 1 .. Len(<<>>) |-> 0]
  <2>1. of \in [1 .. Len(<<>>) -> DOMAIN accepted] /\ Follows(of, <<>>, S, accepted, 0)
    BY DEF Follows
  <2>2. <<>> \in Seq(Nat) /\ Len(<<>>) = 0 /\ 1 .. 0 = {}
    OBVIOUS
  <2> HIDE DEF of
  <2>3. \E f \in [1 .. Len(<<>>) -> DOMAIN accepted] : Follows(f, <<>>, S, accepted, 0)
    BY <2>1
  <2>4. 1 .. Len(<<>>) = {} /\ Len(<<>>) <= limit
    BY <2>2
  <2> QED BY <2>2, <2>3, <2>4, Zenon DEF Tracks
<1>3. \A u \in User : userWindow[u] = <<>>
  OBVIOUS
<1> QED BY <1>1, <1>2, <1>3 DEF RateLimitInv

LEMMA RateLimitStep ==
  ASSUME RateLimitInv, [RateLimit!Next]_(RateLimit!vars)
  PROVE  RateLimitInv'
<1> USE LimitsAssumption
<1> DEFINE Hits == [user : User, at : Nat]
<1>0. now \in Nat /\ accepted \in Seq([user : User, at : Nat]) /\ DOMAIN userWindow = User
  BY DEF RateLimitInv
<1>1. CASE UNCHANGED RateLimit!vars
  BY <1>1 DEF RateLimitInv, RateLimit!vars
<1>2. /\ \A u \in User : Tracks(RateLimit!Pruned(userWindow[u]), {u}, accepted, now, PerUser)
      /\ Tracks(RateLimit!Pruned(orgWindow), User, accepted, now, PerOrg)
  BY PrunedTracks DEF RateLimitInv
<1>3. ASSUME NEW u \in User, RateLimit!Accept(u) PROVE RateLimitInv'
  <2> DEFINE hit == [user |-> u, at |-> now]
             mine == Append(RateLimit!Pruned(userWindow[u]), now)
             all == Append(RateLimit!Pruned(orgWindow), now)
  <2>1. /\ userWindow' = [userWindow EXCEPT ![u] = mine]
        /\ orgWindow' = all
        /\ accepted' = Append(accepted, hit) /\ now' = now
        /\ Len(RateLimit!Pruned(userWindow[u])) < PerUser
        /\ Len(RateLimit!Pruned(orgWindow)) < PerOrg
    BY <1>3 DEF RateLimit!Accept, RateLimit!Admits, RateLimit!UserHasRoom, RateLimit!OrgHasRoom
  <2>2. Tracks(mine, {u}, Append(accepted, hit), now, PerUser)
    BY <1>0, <1>2, <2>1, HitTracks
  <2>3. Tracks(all, User, Append(accepted, hit), now, PerOrg)
    BY <1>0, <1>2, <2>1, HitTracks
  <2>4. ASSUME NEW v \in User, v # u
        PROVE  Tracks(userWindow[v], {v}, Append(accepted, hit), now, PerUser)
    <3>1. Tracks(userWindow[v], {v}, accepted, now, PerUser) /\ u \notin {v}
      BY <2>4 DEF RateLimitInv
    <3> QED BY <1>0, <3>1, OthersHitTracks
  <2>5. accepted' \in Seq([user : User, at : Nat])
    BY <1>0, <2>1
  <2> HIDE DEF mine, all, hit
  <2>6. /\ DOMAIN userWindow' = User /\ userWindow'[u] = mine
        /\ \A v \in User : v # u => userWindow'[v] = userWindow[v]
    BY <1>0, <2>1
  <2>7. \A v \in User : Tracks(userWindow'[v], {v}, accepted', now', PerUser)
    BY <2>1, <2>2, <2>4, <2>6
  <2>8. Tracks(orgWindow', User, accepted', now', PerOrg)
    BY <2>1, <2>3
  <2> QED BY <1>0, <2>1, <2>5, <2>6, <2>7, <2>8 DEF RateLimitInv
<1>4. ASSUME NEW u \in User, RateLimit!Refuse(u) PROVE RateLimitInv'
  <2>1. /\ userWindow' = [userWindow EXCEPT ![u] = RateLimit!Pruned(userWindow[u])]
        /\ orgWindow' = RateLimit!Pruned(orgWindow) \/ orgWindow' = orgWindow
        /\ accepted' = accepted /\ now' = now
    BY <1>4 DEF RateLimit!Refuse
  <2>2. \A v \in User :
          \/ userWindow'[v] = userWindow[v]
          \/ userWindow'[v] = RateLimit!Pruned(userWindow[v])
    BY <1>0, <2>1
  <2>3. DOMAIN userWindow' = User
    BY <1>0, <2>1
  <2>4. \A v \in User : Tracks(userWindow'[v], {v}, accepted', now', PerUser)
    BY <1>2, <2>1, <2>2 DEF RateLimitInv
  <2>5. Tracks(orgWindow', User, accepted', now', PerOrg)
    BY <1>2, <2>1 DEF RateLimitInv
  <2> QED BY <1>0, <2>1, <2>3, <2>4, <2>5 DEF RateLimitInv
<1>5. CASE RateLimit!Cleanup
  <2>1. /\ userWindow' = [u \in User |-> RateLimit!Pruned(userWindow[u])]
        /\ orgWindow' = RateLimit!Pruned(orgWindow)
        /\ accepted' = accepted /\ now' = now
    BY <1>5 DEF RateLimit!Cleanup
  <2>2. DOMAIN userWindow' = User /\ \A v \in User : userWindow'[v] = RateLimit!Pruned(userWindow[v])
    BY <2>1
  <2>3. \A v \in User : Tracks(userWindow'[v], {v}, accepted', now', PerUser)
    BY <1>2, <2>1, <2>2
  <2>4. Tracks(orgWindow', User, accepted', now', PerOrg)
    BY <1>2, <2>1
  <2> QED BY <1>0, <2>1, <2>2, <2>3, <2>4 DEF RateLimitInv
<1>6. CASE RateLimit!Tick
  <2>1. now' = now + 1 /\ UNCHANGED <<userWindow, orgWindow, accepted>>
    BY <1>6 DEF RateLimit!Tick
  <2>2. \A u \in User : Tracks(userWindow[u], {u}, accepted, now + 1, PerUser)
    BY <1>0, TimeTracks DEF RateLimitInv
  <2>3. Tracks(orgWindow, User, accepted, now + 1, PerOrg)
    BY <1>0, TimeTracks DEF RateLimitInv
  <2>4. now + 1 \in Nat
    BY <1>0
  <2> QED BY <1>0, <2>1, <2>2, <2>3, <2>4 DEF RateLimitInv
<1> QED BY <1>1, <1>3, <1>4, <1>5, <1>6 DEF RateLimit!Next

(***************************************************************************)
(* Council.                                                                 *)
(***************************************************************************)
\* A property of 0 that goes on from each number to the next holds of all: there is no least
\* number without it.
LEMMA NoLeast ==
  ASSUME NEW n \in Nat, NEW S, 0 \in S, \A i \in 1 .. n : i - 1 \in S => i \in S
  PROVE  \A i \in 0 .. n : i \in S
<1> DEFINE left == {i \in 0 .. n : i \notin S}
<1>1. SUFFICES ASSUME left # {} PROVE FALSE
  OBVIOUS
<1>2. left \subseteq Nat
  OBVIOUS
<1>3. PICK k \in left : \A j \in left : ~(<<j, k>> \in OpToRel(<, Nat))
  <2> HIDE DEF left
  <2> QED BY <1>1, <1>2, NatLessThanWellFounded, WFMin
<1>4. k \in 1 .. n /\ k \notin S
  OBVIOUS
<1>5. k - 1 \in 0 .. n /\ k - 1 < k /\ k - 1 \notin S
  BY <1>4
<1>6. k - 1 \in left
  BY <1>5
<1> HIDE DEF left
<1> QED BY <1>2, <1>3, <1>5, <1>6 DEF OpToRel

\* The sum up to each opinion is that up to the one before and its weight.
Summing(s, weight, n) ==
  s = [i \in 0 .. n |-> IF i = 0 THEN 0 ELSE s[i - 1] + weight[i]]

LEMMA SumExists ==
  ASSUME NEW n \in Nat, NEW weight
  PROVE  \E s : Summing(s, weight, n)
<1> DEFINE S == {k \in Nat : \E s : Summing(s, weight, k)}
<1>1. 0 \in S
  <2> DEFINE s == [i \in 0 .. 0 |-> 0]
  <2>1. Summing(s, weight, 0)
    BY DEF Summing
  <2> QED BY <2>1
<1>2. ASSUME NEW k \in 1 .. n, k - 1 \in S PROVE k \in S
  <2>1. PICK s : Summing(s, weight, k - 1)
    BY <1>2
  <2> DEFINE t == [i \in 0 .. k |-> IF i = k THEN s[k - 1] + weight[k] ELSE s[i]]
  <2>2. \A i \in 0 .. k : i = k \/ i \in 0 .. k - 1
    OBVIOUS
  <2>3. \A i \in 0 .. k : i # 0 => i - 1 \in 0 .. k - 1 /\ i - 1 \in 0 .. k /\ i - 1 # k
    OBVIOUS
  <2>4. ASSUME NEW i \in 0 .. k PROVE t[i] = IF i = 0 THEN 0 ELSE t[i - 1] + weight[i]
    <3>1. CASE i = k
      <4>1. k # 0 /\ t[k] = s[k - 1] + weight[k] /\ t[k - 1] = s[k - 1]
        BY <2>3
      <4> QED BY <3>1, <4>1
    <3>2. CASE i # k
      <4>1. i \in 0 .. k - 1 /\ t[i] = s[i]
        BY <2>2, <3>2
      <4>2. s[i] = IF i = 0 THEN 0 ELSE s[i - 1] + weight[i]
        BY <2>1, <4>1 DEF Summing
      <4>3. i # 0 => t[i - 1] = s[i - 1]
        BY <2>3
      <4> HIDE DEF t
      <4> QED BY <4>1, <4>2, <4>3
    <3> QED BY <3>1, <3>2
  <2>5. Summing(t, weight, k)
    <3>1. t = [i \in 0 .. k |-> t[i]]
      OBVIOUS
    <3> HIDE DEF t
    <3>2. [i \in 0 .. k |-> t[i]] = [i \in 0 .. k |-> IF i = 0 THEN 0 ELSE t[i - 1] + weight[i]]
      BY <2>4
    <3> QED BY <3>1, <3>2 DEF Summing
  <2> QED BY <2>5
<1>3. \A k \in 1 .. n : k - 1 \in S => k \in S
  BY <1>2
<1>4. n \in S
  <2> HIDE DEF S
  <2>1. \A i \in 0 .. n : i \in S
    BY <1>1, <1>3, NoLeast
  <2> QED BY <2>1
<1> QED BY <1>4

\* The total of the weights is a number that is none of them exceeds, and 0 when they all are.
LEMMA TotalBounds ==
  ASSUME Len(opinions) \in Nat, NEW weight \in [1 .. Len(opinions) -> Nat]
  PROVE  /\ Councils!Total(weight) \in Nat
         /\ \A i \in 1 .. Len(opinions) : weight[i] <= Councils!Total(weight)
         /\ (\A i \in 1 .. Len(opinions) : weight[i] = 0) => Councils!Total(weight) = 0
<1> DEFINE n == Len(opinions)
           s == CHOOSE f : f = [i \in 0 .. n |-> IF i = 0 THEN 0 ELSE f[i - 1] + weight[i]]
<1>1. Summing(s, weight, n)
  <2>1. \E f : f = [i \in 0 .. n |-> IF i = 0 THEN 0 ELSE f[i - 1] + weight[i]]
    BY SumExists DEF Summing
  <2>2. s = [i \in 0 .. n |-> IF i = 0 THEN 0 ELSE s[i - 1] + weight[i]]
    <3> HIDE DEF n
    <3> QED BY <2>1
  <2> QED BY <2>2 DEF Summing
<1>2. Councils!Total(weight) = s[n]
  BY DEF Councils!Total
<1> HIDE DEF s, n
<1>3. n \in Nat /\ weight \in [1 .. n -> Nat] /\ s[0] = 0
  BY <1>1 DEF n, Summing
<1>4. \A i \in 1 .. n : i \in 0 .. n /\ s[i] = s[i - 1] + weight[i] /\ weight[i] \in Nat
  <2>1. \A i \in 1 .. n : i \in 0 .. n /\ i # 0
    BY <1>3
  <2>2. \A i \in 0 .. n : s[i] = IF i = 0 THEN 0 ELSE s[i - 1] + weight[i]
    BY <1>1 DEF Summing
  <2> QED BY <1>3, <2>1, <2>2
<1>5. \A i \in 0 .. n : s[i] \in Nat
  <2> DEFINE S == {i \in Nat : s[i] \in Nat}
  <2>1. 0 \in S /\ \A i \in 1 .. n : i - 1 \in S => i \in S
    BY <1>3, <1>4
  <2> HIDE DEF S
  <2>2. \A i \in 0 .. n : i \in S
    BY <1>3, <2>1, NoLeast
  <2> QED BY <2>2 DEF S
<1>6. ASSUME NEW j \in 1 .. n PROVE weight[j] <= s[n]
  <2> DEFINE S == {i \in 0 .. n : i >= j => weight[j] <= s[i]}
  <2>1. 0 \in S
    BY <1>3
  <2>2. ASSUME NEW i \in 1 .. n, i - 1 \in S PROVE i \in S
    <3>1. s[i] = s[i - 1] + weight[i] /\ weight[i] \in Nat /\ s[i - 1] \in Nat /\ weight[j] \in Nat
      BY <1>3, <1>4, <1>5
    <3>2. CASE i = j
      BY <3>1, <3>2
    <3>3. CASE i # j
      BY <2>2, <3>1, <3>3
    <3> QED BY <3>2, <3>3
  <2>3. \A i \in 1 .. n : i - 1 \in S => i \in S
    BY <2>2
  <2>4. n \in S
    <3> HIDE DEF S
    <3>1. \A i \in 0 .. n : i \in S
      BY <1>3, <2>1, <2>3, NoLeast
    <3> QED BY <1>3, <3>1
  <2> QED BY <1>3, <2>4
<1>7. ASSUME \A i \in 1 .. n : weight[i] = 0 PROVE s[n] = 0
  <2> DEFINE S == {i \in Nat : s[i] = 0}
  <2>1. 0 \in S /\ \A i \in 1 .. n : i - 1 \in S => i \in S
    BY <1>3, <1>4, <1>7
  <2> HIDE DEF S
  <2>2. \A i \in 0 .. n : i \in S
    BY <1>3, <2>1, NoLeast
  <2> QED BY <1>3, <2>2 DEF S
<1> QED BY <1>2, <1>3, <1>5, <1>6, <1>7 DEF n

\* The opinions of ops are those of the members at the places H, in their order.
Speaks(ops, H) ==
  /\ ops \in Seq([of : Councils!Member, says : Opinion])
  /\ \A k \in 1 .. Len(ops) : \E i \in H : ops[k].of = members[i]
  /\ \A i \in H : \E k \in 1 .. Len(ops) : ops[k].of = members[i]
  /\ \A k, l \in 1 .. Len(ops) : k < l => Councils!Place(ops[k].of) < Councils!Place(ops[l].of)

Named ==
  /\ Len(members) \in Nat \ {0} /\ DOMAIN members = 1 .. Len(members)
  /\ \A i \in DOMAIN members : members[i] \in Councils!Member
  /\ \A i, j \in DOMAIN members : members[i] = members[j] => i = j

\* The members behind the first n are in the batch that runs; they are as many as are asked at
\* a time, at most.
BatchFrom(n) ==
  /\ n <= rolesAsked /\ rolesAsked <= n + Councils!AtATime
  /\ DOMAIN running = {members[i] : i \in n + 1 .. rolesAsked}

Heard(n) == {i \in 1 .. n : members[i] \notin failures}

\* Everybody before the batch has been heard or has failed, and who fails alone is the last.
Asking ==
  \E n \in 0 .. rolesAsked :
    /\ BatchFrom(n)
    /\ Speaks(opinions, Heard(n))
    /\ failures \subseteq {members[i] : i \in 1 .. rolesAsked}
    /\ \A m \in DOMAIN running : m \in failures <=> running[m].is = "failed"
    /\ pattern # "parallel_then_synthesis" /\ phase \in {"start", "members"} =>
         failures \subseteq DOMAIN running

\* Once the members are done, all have been asked, unless one of the exceptions applies.
Concluding ==
  /\ DOMAIN running # {} => phase = "members"
  /\ phase \in {"saving", "closing"} \/ councilSession = "completed" =>
       /\ ~aborted /\ ~(pattern = "challenge_response" /\ Len(members) = 1) =>
            rolesAsked = Len(members)
       /\ failures # {} => pattern = "parallel_then_synthesis"
  /\ phase = "closing" \/ councilSession = "completed" => saved = Len(opinions)
  /\ councilSession = "completed" => phase = "over" /\ level = Councils!Confidence

\* The session row is open from its creation to the last update.
Recording ==
  /\ phase \in {"start", "members", "saving", "closing", "catch", "over"}
  /\ phase = "start" => councilSession = "none"
  /\ phase \in {"members", "saving", "closing", "catch"} => councilSession = "open"
  /\ Councils!NoSessionLeftOpen

CouncilsInv ==
  /\ Named /\ pattern \in Councils!Pattern
  /\ rolesAsked \in 0 .. Len(members)
  /\ \A m \in DOMAIN running : running[m] \in Councils!Result
  /\ running = [m \in DOMAIN running |-> running[m]]
  /\ saved \in 0 .. Len(opinions)
  /\ Asking /\ Concluding /\ Recording

LEMMA PlaceOf == ASSUME Named, NEW i \in 1 .. Len(members) PROVE Councils!Place(members[i]) = i
<1>1. \A j \in DOMAIN members : members[j] = members[i] => j = i
  BY DEF Named
<1>2. i \in DOMAIN members
  BY DEF Named
<1>3. \E j \in DOMAIN members : members[j] = members[i]
  BY <1>2
<1> QED BY <1>1, <1>3 DEF Councils!Place

LEMMA BatchSizes ==
  /\ Councils!AtATime \in {1, 2}
  /\ Councils!AtATime = 2 => pattern = "parallel_then_synthesis"
BY DEF Councils!AtATime, Councils!BatchSize

\* One more member is heard, or has nothing to say.
Spoken(j) == IF Councils!Said(j) = <<>> THEN {} ELSE {j}

LEMMA SpeaksNext ==
  ASSUME Named, \A m \in DOMAIN running : running[m] \in Councils!Result,
         NEW ops, NEW H \in SUBSET (1 .. Len(members)), Speaks(ops, H),
         NEW j \in Int, j <= Len(members),
         j > 0 /\ members[j] \in DOMAIN running => \A i \in H : i < j
  PROVE  Speaks(ops \o Councils!Said(j), H \cup Spoken(j))
<1> DEFINE Opinions == [of : Councils!Member, says : Opinion]
<1>1. ops \in Seq(Opinions) /\ Len(ops) \in Nat
  BY DEF Speaks
<1>2. CASE Councils!Said(j) = <<>>
  <2>1. ops \o Councils!Said(j) = ops
    BY <1>1, <1>2
  <2>2. H \cup Spoken(j) = H
    BY <1>2 DEF Spoken
  <2> QED BY <2>1, <2>2
<1>3. CASE Councils!Said(j) # <<>>
  <2> DEFINE o == [of |-> members[j], says |-> running[members[j]].says]
             all == ops \o <<o>>
  <2>1. /\ j > 0 /\ members[j] \in DOMAIN running /\ running[members[j]].is = "heard"
        /\ Councils!Said(j) = <<o>>
    BY <1>3 DEF Councils!Said
  <2>2. j \in 1 .. Len(members) /\ members[j] \in Councils!Member
    BY <2>1 DEF Named
  <2>3. running[members[j]].says \in Opinion
    BY <2>1 DEF Councils!Result
  <2>4. o \in Opinions /\ o.of = members[j]
    BY <2>2, <2>3
  <2>5. /\ all \in Seq(Opinions) /\ Len(all) = Len(ops) + 1 /\ all[Len(ops) + 1] = o
        /\ \A k \in 1 .. Len(ops) : all[k] = ops[k]
    <3> HIDE DEF o, Opinions
    <3> QED BY <1>1, <2>4
  <2>6. H \cup Spoken(j) = H \cup {j}
    BY <1>3 DEF Spoken
  <2>7. \A k \in 1 .. Len(all) : k \in 1 .. Len(ops) \/ k = Len(ops) + 1
    BY <1>1, <2>5
  <2>8. 1 .. Len(ops) \subseteq 1 .. Len(all) /\ Len(ops) + 1 \in 1 .. Len(all)
    BY <1>1, <2>5
  <2> HIDE DEF o, all
  <2>9. \A k \in 1 .. Len(all) : \E i \in H \cup {j} : all[k].of = members[i]
    <3>1. ASSUME NEW k \in 1 .. Len(ops) PROVE \E i \in H \cup {j} : all[k].of = members[i]
      <4>1. PICK i \in H : ops[k].of = members[i]
        BY DEF Speaks
      <4> QED BY <2>5, <4>1
    <3>2. all[Len(ops) + 1].of = members[j]
      BY <2>4, <2>5
    <3> QED BY <2>7, <3>1, <3>2
  <2>10. \A i \in H \cup {j} : \E k \in 1 .. Len(all) : all[k].of = members[i]
    <3>1. ASSUME NEW i \in H PROVE \E k \in 1 .. Len(all) : all[k].of = members[i]
      <4>1. PICK k \in 1 .. Len(ops) : ops[k].of = members[i]
        BY DEF Speaks
      <4> QED BY <2>5, <2>8, <4>1
    <3>2. all[Len(ops) + 1].of = members[j]
      BY <2>4, <2>5
    <3> QED BY <2>8, <3>1, <3>2
  <2>11. ASSUME NEW k \in 1 .. Len(all), NEW l \in 1 .. Len(all), k < l
         PROVE  Councils!Place(all[k].of) < Councils!Place(all[l].of)
    <3>1. k \in 1 .. Len(ops)
      BY <1>1, <2>5, <2>11
    <3>2. CASE l \in 1 .. Len(ops)
      BY <2>5, <2>11, <3>1, <3>2 DEF Speaks
    <3>3. CASE l = Len(ops) + 1
      <4>1. PICK i \in H : ops[k].of = members[i]
        BY <3>1 DEF Speaks
      <4>2. i < j
        BY <2>1, <4>1
      <4>3. Councils!Place(members[i]) = i /\ Councils!Place(members[j]) = j
        BY <2>2, PlaceOf
      <4>4. all[k].of = members[i] /\ all[l].of = members[j]
        BY <2>4, <2>5, <3>1, <3>3, <4>1
      <4> QED BY <4>2, <4>3, <4>4
    <3> QED BY <2>7, <3>2, <3>3
  <2>12. Speaks(all, H \cup {j})
    BY <2>5, <2>9, <2>10, <2>11 DEF Speaks
  <2> QED BY <2>1, <2>6, <2>12 DEF all
<1> QED BY <1>2, <1>3

LEMMA CouncilsInit == Councils!Init => CouncilsInv
<1> SUFFICES ASSUME Councils!Init PROVE CouncilsInv
  OBVIOUS
<1> USE DEF Councils!Init, Councils!Nobody
<1>1. PICK n \in 1 .. Len(Roles) : members = SubSeq(Roles, 1, n)
  BY DEF Councils!Selections
<1>2. Named
  <2> USE RolesAssumption
  <2>1. /\ Len(Roles) \in Nat /\ DOMAIN Roles = 1 .. Len(Roles)
        /\ \A i \in DOMAIN Roles : Roles[i] \in Councils!Member
    BY DEF Councils!Member
  <2>2. Len(members) = n /\ DOMAIN members = 1 .. n /\ \A i \in 1 .. n : members[i] = Roles[i]
    <3>1. Roles \in Seq(Councils!Member)
      BY DEF Councils!Member
    <3> QED BY <1>1, <2>1, <3>1
  <2>3. \A i \in 1 .. n : i \in DOMAIN Roles
    BY <2>1
  <2> QED BY <1>1, <2>1, <2>2, <2>3 DEF Named
<1>3. DOMAIN running = {} /\ opinions = <<>> /\ failures = {} /\ rolesAsked = 0
  OBVIOUS
<1>4. BatchFrom(0)
  BY <1>3, BatchSizes DEF BatchFrom
<1>5. Speaks(<<>>, {})
  BY DEF Speaks
<1>6. Heard(0) = {}
  BY DEF Heard
<1>7. Asking
  <2>1. 0 \in 0 .. rolesAsked /\ Speaks(opinions, Heard(0))
    BY <1>3, <1>5, <1>6
  <2> QED BY <1>3, <1>4, <2>1 DEF Asking
<1>8. Concluding /\ Recording
  BY <1>3 DEF Concluding, Recording, Councils!NoSessionLeftOpen
<1>9. Len(members) \in Nat
  BY <1>2 DEF Named
<1>10. /\ running = [m \in DOMAIN running |-> running[m]]
       /\ \A m \in DOMAIN running : running[m] \in Councils!Result
  OBVIOUS
<1>11. /\ saved \in 0 .. Len(opinions) /\ rolesAsked \in 0 .. Len(members)
       /\ pattern \in Councils!Pattern
  BY <1>9
<1> QED BY <1>2, <1>7, <1>8, <1>10, <1>11 DEF CouncilsInv

\* What nobody is asked for and nobody answers leaves as it is.
LEMMA SameAsked ==
  ASSUME CouncilsInv, UNCHANGED <<pattern, members, rolesAsked, running, opinions, failures>>,
         saved' \in 0 .. Len(opinions),
         phase' \in {"start", "members"} => phase \in {"start", "members"},
         Concluding', Recording'
  PROVE  CouncilsInv'
<1>1. PICK n \in 0 .. rolesAsked :
        /\ BatchFrom(n)
        /\ Speaks(opinions, Heard(n))
        /\ failures \subseteq {members[i] : i \in 1 .. rolesAsked}
        /\ \A m \in DOMAIN running : m \in failures <=> running[m].is = "failed"
        /\ pattern # "parallel_then_synthesis" /\ phase \in {"start", "members"} =>
             failures \subseteq DOMAIN running
  BY DEF CouncilsInv, Asking
<1>2. Named' /\ BatchFrom(n)' /\ Heard(n)' = Heard(n)
  BY <1>1 DEF CouncilsInv, Named, BatchFrom, Councils!AtATime, Heard
<1>3. Speaks(opinions, Heard(n))'
  BY <1>1, <1>2 DEF Speaks, Councils!Place
<1>4. Asking'
  BY <1>1, <1>2, <1>3 DEF Asking
<1> QED BY <1>2, <1>4 DEF CouncilsInv

LEMMA CouncilsStep ==
  ASSUME CouncilsInv, [Councils!Next]_(Councils!vars)
  PROVE  CouncilsInv'
<1> USE DEF Councils!Goes
<1>0. /\ Named /\ Len(members) \in Nat /\ rolesAsked \in 0 .. Len(members)
      /\ saved \in 0 .. Len(opinions) /\ Concluding /\ Recording
  BY DEF CouncilsInv, Named
<1>1. PICK n \in 0 .. rolesAsked :
        /\ BatchFrom(n)
        /\ Speaks(opinions, Heard(n))
        /\ failures \subseteq {members[i] : i \in 1 .. rolesAsked}
        /\ \A m \in DOMAIN running : m \in failures <=> running[m].is = "failed"
        /\ pattern # "parallel_then_synthesis" /\ phase \in {"start", "members"} =>
             failures \subseteq DOMAIN running
  BY DEF CouncilsInv, Asking
<1>2. /\ opinions \in Seq([of : Councils!Member, says : Opinion]) /\ Len(opinions) \in Nat
      /\ running = Councils!Nobody <=> DOMAIN running = {}
  <2>1. Len(opinions) \in Nat
    BY <1>1 DEF Speaks
  <2>2. running = Councils!Nobody <=> DOMAIN running = {}
    BY DEF CouncilsInv, Councils!Nobody
  <2> QED BY <1>1, <2>1, <2>2 DEF Speaks
<1>3. CASE UNCHANGED Councils!vars
  <2>0. Councils!Confidence' = Councils!Confidence
    BY <1>3 DEF Councils!vars, Councils!Confidence, Councils!Weighted, Councils!Total
  <2>1. Concluding' /\ Recording'
    BY <1>0, <1>3, <2>0 DEF Councils!vars, Councils!decision, Concluding, Recording,
      Councils!NoSessionLeftOpen
  <2> QED BY <1>0, <1>3, <2>1, SameAsked DEF Councils!vars, Councils!decision
<1>4. CASE Councils!Convene
  <2> USE <1>4 DEF Councils!Convene, Councils!decision
  <2>1. Concluding' /\ Recording'
    BY <1>0 DEF Concluding, Recording, Councils!NoSessionLeftOpen
  <2> QED BY <1>0, <2>1, SameAsked
<1>5. CASE Councils!MembersDone
  <2> USE <1>5 DEF Councils!MembersDone, Councils!decision
  <2>1. DOMAIN running = {}
    BY <1>2
  <2>2. ~aborted /\ ~(pattern = "challenge_response" /\ Len(members) = 1)
          => rolesAsked = Len(members)
    <3>1. \/ rolesAsked = Len(members) \/ aborted
          \/ pattern = "challenge_response" /\ Len(members) < 2
      BY DEF Councils!NobodyLeft
    <3>2. Len(members) < 2 => Len(members) = 1
      BY <1>0 DEF Named
    <3> QED BY <3>1, <3>2
  <2>3. failures # {} => pattern = "parallel_then_synthesis"
    BY <1>1, <2>1
  <2>4. Concluding' /\ Recording'
    BY <1>0, <2>1, <2>2, <2>3 DEF Concluding, Recording, Councils!NoSessionLeftOpen
  <2> QED BY <1>0, <2>4, SameAsked
<1>6. CASE Councils!Save
  <2> USE <1>6 DEF Councils!Save, Councils!decision
  <2>1. Concluding' /\ Recording'
    BY <1>0 DEF Concluding, Recording, Councils!NoSessionLeftOpen
  <2>2. saved' \in 0 .. Len(opinions)
    BY <1>0, <1>2
  <2> QED BY <1>0, <2>1, <2>2, SameAsked
<1>7. CASE Councils!Synthesize
  <2> USE <1>7 DEF Councils!Synthesize, Councils!decision
  <2>1. Concluding' /\ Recording'
    BY <1>0 DEF Concluding, Recording, Councils!NoSessionLeftOpen
  <2> QED BY <1>0, <2>1, SameAsked
<1>8. CASE Councils!Complete
  <2> USE <1>8 DEF Councils!Complete, Councils!Close, Councils!decision
  <2>1. Councils!Confidence' = Councils!Confidence
    BY DEF Councils!Confidence, Councils!Weighted, Councils!Total
  <2>2. Concluding' /\ Recording'
    BY <1>0, <2>1 DEF Concluding, Recording, Councils!NoSessionLeftOpen
  <2> QED BY <1>0, <2>2, SameAsked
<1>9. CASE Councils!Catch
  <2> USE <1>9 DEF Councils!Catch, Councils!Close, Councils!decision
  <2>1. Concluding' /\ Recording'
    BY <1>0 DEF Concluding, Recording, Councils!NoSessionLeftOpen
  <2> QED BY <1>0, <2>1, SameAsked
<1>10. CASE Councils!QueryRejects
  <2> USE <1>10 DEF Councils!QueryRejects, Councils!Rejects, Councils!decision
  <2>1. councilSession # "completed"
    BY <1>0 DEF Concluding
  <2>2. Concluding' /\ Recording'
    BY <1>0, <2>1 DEF Concluding, Recording, Councils!NoSessionLeftOpen
  <2> QED BY <1>0, <2>2, SameAsked
<1>11. CASE Councils!Abort
  <2> USE <1>11 DEF Councils!Abort, Councils!decision
  <2>1. councilSession # "completed"
    BY <1>0 DEF Concluding
  <2>2. Concluding' /\ Recording'
    BY <1>0, <2>1 DEF Concluding, Recording, Councils!NoSessionLeftOpen
  <2> QED BY <1>0, <2>2, SameAsked
<1>12. CASE Councils!Ask
  <2>1. /\ phase = "members" /\ phase' = "members" /\ DOMAIN running = {} /\ rolesAsked' = Councils!Upto
        /\ running' = [m \in Councils!Batch |-> Councils!Pending]
        /\ UNCHANGED <<pattern, members, opinions, failures, saved, councilSession, level>>
        /\ UNCHANGED <<aborted, faults>>
        /\ rolesAsked # Len(members)
    BY <1>2, <1>12 DEF Councils!Ask, Councils!decision, Councils!NobodyLeft
  <2>2. n = rolesAsked
    <3>1. \A i \in n + 1 .. rolesAsked : FALSE
      BY <1>1, <2>1 DEF BatchFrom
    <3> QED BY <1>0, <1>1, <3>1
  <2>3. /\ rolesAsked' \in rolesAsked + 1 .. Len(members)
        /\ rolesAsked' <= rolesAsked + Councils!AtATime
    BY <1>0, <2>1, BatchSizes DEF Councils!Upto
  <2>4. BatchFrom(n)'
    BY <1>0, <2>1, <2>2, <2>3 DEF BatchFrom, Councils!Batch, Councils!AtATime
  <2>5. failures \subseteq {members[i] : i \in 1 .. rolesAsked'}
    BY <1>1, <2>2, <2>3
  <2>6. \A m \in DOMAIN running' : running'[m] = Councils!Pending /\ m \notin failures
    <3>1. ASSUME NEW i \in rolesAsked + 1 .. rolesAsked' PROVE members[i] \notin failures
      <4>1. i \in DOMAIN members /\ \A j \in 1 .. rolesAsked : j \in DOMAIN members /\ j # i
        BY <1>0, <2>3 DEF Named
      <4> QED BY <1>0, <1>1, <4>1 DEF Named
    <3> QED BY <2>1, <3>1 DEF Councils!Batch
  <2>7. pattern # "parallel_then_synthesis" => failures = {}
    BY <1>1, <2>1
  <2>8. Heard(n)' = Heard(n) /\ Speaks(opinions, Heard(n))'
    <3>1. Heard(n)' = Heard(n)
      BY <2>1 DEF Heard
    <3> QED BY <1>1, <2>1, <3>1 DEF Speaks, Councils!Place
  <2>9. Asking'
    <3>1. n \in 0 .. rolesAsked'
      BY <2>2, <2>3, <1>0
    <3>2. \A m \in DOMAIN running' : m \in failures' <=> running'[m].is = "failed"
      BY <2>1, <2>6 DEF Councils!Pending
    <3> QED BY <2>1, <2>4, <2>5, <2>7, <2>8, <3>1, <3>2 DEF Asking
  <2>10. Concluding' /\ Recording'
    BY <1>0, <2>1 DEF Concluding, Recording, Councils!NoSessionLeftOpen
  <2>11. /\ \A m \in DOMAIN running' : running'[m] \in Councils!Result
         /\ running' = [m \in DOMAIN running' |-> running'[m]]
    BY <2>1, <2>6 DEF Councils!Pending, Councils!Result
  <2>12. Named' /\ rolesAsked' \in 0 .. Len(members) /\ saved' \in 0 .. Len(opinions)'
    <3>1. Named'
      BY <1>0, <2>1 DEF Named
    <3>2. rolesAsked' \in 0 .. Len(members)
      BY <1>0, <2>3
    <3> QED BY <1>0, <2>1, <3>1, <3>2
  <2> QED BY <2>1, <2>9, <2>10, <2>11, <2>12 DEF CouncilsInv
<1>13. ASSUME NEW m \in Councils!Member, Councils!MemberEnds(m) PROVE CouncilsInv'
  <2>1. PICK ends \in Councils!Result \ {Councils!Pending} :
          /\ running' = [running EXCEPT ![m] = ends]
          /\ failures' = IF ends.is = "failed" THEN failures \cup {m} ELSE failures
    BY <1>13 DEF Councils!MemberEnds
  <2>2. /\ m \in DOMAIN running /\ running[m] = Councils!Pending
        /\ UNCHANGED <<pattern, members, phase, rolesAsked, opinions, saved>>
        /\ UNCHANGED <<councilSession, level, aborted, faults>>
    BY <1>13 DEF Councils!MemberEnds, Councils!decision
  <2>3. /\ DOMAIN running' = DOMAIN running /\ running'[m] = ends
        /\ \A k \in DOMAIN running : k # m => running'[k] = running[k]
        /\ running' = [k \in DOMAIN running' |-> running'[k]]
    BY <2>1, <2>2 DEF CouncilsInv
  <2>4. m \notin failures
    BY <1>1, <2>2 DEF Councils!Pending
  <2>5. PICK j \in n + 1 .. rolesAsked : m = members[j]
    BY <1>1, <2>2 DEF BatchFrom
  <2>6. Heard(n)' = Heard(n)
    <3>1. ASSUME NEW i \in 1 .. n PROVE members[i] # m
      BY <1>0, <1>1, <2>5 DEF Named
    <3> QED BY <2>1, <2>2, <3>1 DEF Heard
  <2>7. Speaks(opinions, Heard(n))' /\ BatchFrom(n)'
    BY <1>1, <2>2, <2>3, <2>6 DEF Speaks, Councils!Place, BatchFrom, Councils!AtATime
  <2>8. failures' \subseteq {members[i] : i \in 1 .. rolesAsked}
    BY <1>0, <1>1, <2>1, <2>5
  <2>9. \A k \in DOMAIN running' : k \in failures' <=> running'[k].is = "failed"
    BY <1>1, <2>1, <2>3, <2>4
  <2>10. Asking'
    BY <1>1, <2>1, <2>2, <2>3, <2>7, <2>8, <2>9 DEF Asking
  <2>11. phase = "members"
    BY <1>0, <2>2 DEF Concluding
  <2>12. Concluding' /\ Recording'
    BY <1>0, <2>2, <2>3, <2>11 DEF Concluding, Recording, Councils!NoSessionLeftOpen
  <2>13. \A k \in DOMAIN running' : running'[k] \in Councils!Result
    BY <2>1, <2>3 DEF CouncilsInv
  <2>14. Named' /\ rolesAsked' \in 0 .. Len(members)' /\ saved' \in 0 .. Len(opinions)'
    BY <1>0, <2>2 DEF Named
  <2> QED BY <2>2, <2>3, <2>10, <2>12, <2>13, <2>14 DEF CouncilsInv
<1>14. CASE Councils!Settled
  <2> DEFINE j == rolesAsked
             ops == opinions \o Councils!Said(j - 1)
  <2>1. /\ DOMAIN running # {} /\ \A m \in DOMAIN running : running[m] # Councils!Pending
        /\ opinions' = opinions \o Councils!Said(j - 1) \o Councils!Said(j)
        /\ phase' = IF Councils!AtATime = 1 /\ Councils!Said(j) = <<>> THEN "catch" ELSE "members"
        /\ running' = Councils!Nobody /\ DOMAIN running' = {}
        /\ UNCHANGED <<pattern, members, rolesAsked, failures, saved>>
        /\ UNCHANGED <<councilSession, level, aborted, faults>>
    BY <1>2, <1>14 DEF Councils!Settled, Councils!decision, Councils!Nobody
  <2>2. phase = "members"
    BY <1>0, <2>1 DEF Concluding
  <2>3. /\ j \in Int /\ j <= Len(members) /\ n < j /\ j <= n + 2
        /\ Councils!AtATime = 1 => j = n + 1
        /\ DOMAIN running = {members[i] : i \in n + 1 .. j}
    BY <1>0, <1>1, <2>1, BatchSizes DEF BatchFrom
  <2>4. \A i \in n + 1 .. j : i \in 1 .. Len(members) /\ members[i] \in DOMAIN running
    BY <1>0, <2>3
  <2>5. ASSUME NEW i \in 1 .. Len(members), members[i] \in DOMAIN running PROVE i \in n + 1 .. j
    <3>1. PICK k \in n + 1 .. j : members[k] = members[i]
      BY <2>3, <2>5
    <3> QED BY <1>0, <2>4, <3>1 DEF Named
  <2>6. Heard(n) \in SUBSET (1 .. Len(members)) /\ \A i \in Heard(n) : i <= n
    BY <1>0, <1>1 DEF Heard
  <2>7. \A i \in Int : i > 0 /\ i <= Len(members) =>
          (Councils!Said(i) # <<>> <=> i \in n + 1 .. j /\ members[i] \notin failures)
    <3> SUFFICES ASSUME NEW i \in 1 .. Len(members)
                 PROVE  Councils!Said(i) # <<>> <=> i \in n + 1 .. j /\ members[i] \notin failures
      BY <1>0
    <3>1. CASE i \in n + 1 .. j
      <4>1. members[i] \in DOMAIN running
        BY <2>4, <3>1
      <4>2. running[members[i]].is = "heard" <=> running[members[i]].is # "failed"
        <5>1. running[members[i]] \in Councils!Result /\ running[members[i]] # Councils!Pending
          BY <2>1, <4>1 DEF CouncilsInv
        <5> QED BY <5>1 DEF Councils!Result, Councils!Pending
      <4> QED BY <1>1, <3>1, <4>1, <4>2 DEF Councils!Said
    <3>2. CASE i \notin n + 1 .. j
      BY <2>5, <3>2 DEF Councils!Said
    <3> QED BY <3>1, <3>2
  <2>8. Spoken(j - 1) = (IF j - 1 > n /\ members[j - 1] \notin failures THEN {j - 1} ELSE {})
    <3>1. CASE j - 1 > 0
      BY <2>3, <2>7, <3>1 DEF Spoken
    <3>2. CASE ~(j - 1 > 0)
      <4>1. Councils!Said(j - 1) = <<>>
        BY <3>2 DEF Councils!Said
      <4> QED BY <1>1, <3>2, <4>1, <2>3 DEF Spoken
    <3> QED BY <3>1, <3>2
  <2>9. Spoken(j) = (IF members[j] \notin failures THEN {j} ELSE {})
    BY <1>1, <2>3, <2>7 DEF Spoken
  <2>10. Speaks(ops, Heard(n) \cup Spoken(j - 1))
    <3>1. j - 1 > 0 /\ members[j - 1] \in DOMAIN running => \A i \in Heard(n) : i < j - 1
      <4> SUFFICES ASSUME j - 1 > 0, members[j - 1] \in DOMAIN running
                   PROVE  \A i \in Heard(n) : i < j - 1
        OBVIOUS
      <4>1. j - 1 \in n + 1 .. j
        BY <1>0, <2>3, <2>5
      <4> QED BY <2>3, <2>6, <4>1 DEF Heard
    <3>2. j - 1 \in Int /\ j - 1 <= Len(members)
      BY <1>0, <2>3
    <3> QED BY <1>0, <1>1, <2>6, <3>1, <3>2, SpeaksNext DEF CouncilsInv
  <2>11. Speaks(opinions', (Heard(n) \cup Spoken(j - 1)) \cup Spoken(j))
    <3>1. Heard(n) \cup Spoken(j - 1) \in SUBSET (1 .. Len(members))
      BY <1>0, <1>1, <2>3, <2>6, <2>8
    <3>2. \A i \in Heard(n) \cup Spoken(j - 1) : i < j
      BY <1>1, <2>3, <2>6, <2>8 DEF Heard
    <3> HIDE DEF ops
    <3>3. Speaks(ops \o Councils!Said(j), (Heard(n) \cup Spoken(j - 1)) \cup Spoken(j))
      BY <1>0, <2>3, <2>10, <3>1, <3>2, SpeaksNext DEF CouncilsInv
    <3> QED BY <2>1, <3>3 DEF ops
  <2>12. (Heard(n) \cup Spoken(j - 1)) \cup Spoken(j) = Heard(j)
    <3>1. \A i \in Int : i \in 1 .. j <=> i \in 1 .. n \/ (i = j - 1 /\ j - 1 > n) \/ i = j
      BY <1>1, <2>3
    <3> QED BY <1>1, <2>3, <2>8, <2>9, <3>1 DEF Heard
  <2>13. Heard(j)' = Heard(j) /\ Speaks(opinions, Heard(j))' /\ Named'
    <3>1. Heard(j)' = Heard(j)
      BY <2>1 DEF Heard
    <3>2. Speaks(opinions', Heard(j))
      BY <2>11, <2>12
    <3>3. \A m : Councils!Place(m)' = Councils!Place(m)
      BY <2>1 DEF Councils!Place
    <3>4. Speaks(opinions, Heard(j))'
      BY <2>1, <3>1, <3>2, <3>3 DEF Speaks
    <3>5. Named'
      BY <1>0, <2>1 DEF Named
    <3> QED BY <3>1, <3>4, <3>5
  <2>14. BatchFrom(j)'
    <3>1. \A i \in j + 1 .. j : FALSE
      BY <2>3
    <3> QED BY <2>1, <2>3, <3>1, BatchSizes DEF BatchFrom, Councils!AtATime
  <2>15. pattern # "parallel_then_synthesis" /\ phase' = "members" => failures = {}
    <3> SUFFICES ASSUME pattern # "parallel_then_synthesis", phase' = "members" PROVE failures = {}
      OBVIOUS
    <3>1. Councils!AtATime = 1
      BY BatchSizes
    <3>2. Councils!Said(j) # <<>>
      BY <2>1, <3>1
    <3>3. members[j] \notin failures
      BY <1>1, <2>3, <2>7, <3>2
    <3>4. failures \subseteq {members[j]}
      <4>1. \A i \in n + 1 .. j : i = j
        BY <1>1, <2>3, <3>1
      <4> QED BY <1>1, <2>2, <2>3, <4>1
    <3> QED BY <3>3, <3>4
  <2>16. Asking'
    <3>1. j \in 0 .. rolesAsked'
      BY <1>0, <2>1
    <3>2. phase' \in {"catch", "members"}
      BY <2>1
    <3> QED BY <1>1, <2>1, <2>13, <2>14, <2>15, <3>1, <3>2 DEF Asking
  <2>20. \A i : Councils!Said(i) = <<>> \/ \E o : Councils!Said(i) = <<o>>
    BY DEF Councils!Said
  <2>17. saved' \in 0 .. Len(opinions')
    <3>1. Len(opinions') \in Nat /\ Len(opinions) <= Len(opinions')
      <4>1. Len(Councils!Said(j - 1)) \in Nat /\ Len(Councils!Said(j)) \in Nat
        BY DEF Councils!Said
      <4>2. Len(ops) = Len(opinions) + Len(Councils!Said(j - 1))
        BY <2>20, <1>2
      <4>3. ops \in Seq([of : Councils!Member, says : Opinion]) /\ opinions' = ops \o Councils!Said(j)
        BY <2>1, <2>10 DEF Speaks
      <4>4. Len(opinions') = Len(ops) + Len(Councils!Said(j))
        <5> HIDE DEF ops
        <5> QED BY <2>20, <4>3
      <4> QED BY <1>2, <4>1, <4>2, <4>4
    <3> QED BY <1>0, <2>1, <3>1
  <2>18. Concluding' /\ Recording'
    BY <1>0, <2>1, <2>2 DEF Concluding, Recording, Councils!NoSessionLeftOpen
  <2>19. /\ \A m \in DOMAIN running' : running'[m] \in Councils!Result
         /\ running' = [m \in DOMAIN running' |-> running'[m]]
    BY <2>1 DEF Councils!Nobody
  <2> QED BY <1>0, <2>1, <2>13, <2>16, <2>17, <2>18, <2>19 DEF CouncilsInv
<1> QED
  BY <1>3, <1>4, <1>5, <1>6, <1>7, <1>8, <1>9, <1>10, <1>11, <1>12, <1>13, <1>14 DEF Councils!Next

LEMMA CouncilsHear == CouncilsInv => Councils!EveryMemberHeard
<1> SUFFICES ASSUME CouncilsInv, councilSession = "completed", ~aborted,
                    ~(pattern = "challenge_response" /\ Len(members) = 1)
             PROVE  /\ \A i \in DOMAIN members :
                         members[i] \notin failures
                           <=> \E k \in DOMAIN opinions : opinions[k].of = members[i]
                    /\ \A k, l \in DOMAIN opinions :
                         k < l => Councils!Place(opinions[k].of) < Councils!Place(opinions[l].of)
                    /\ saved = Len(opinions)
                    /\ failures # {} => pattern = "parallel_then_synthesis"
  BY DEF Councils!EveryMemberHeard
<1>1. /\ Named /\ Len(members) \in Nat /\ DOMAIN members = 1 .. Len(members)
      /\ rolesAsked = Len(members) /\ DOMAIN running = {}
      /\ saved = Len(opinions) /\ (failures # {} => pattern = "parallel_then_synthesis")
  BY DEF CouncilsInv, Named, Concluding
<1>2. PICK n \in 0 .. rolesAsked : BatchFrom(n) /\ Speaks(opinions, Heard(n))
  BY DEF CouncilsInv, Asking
<1>3. n = Len(members)
  <2>1. \A i \in n + 1 .. rolesAsked : FALSE
    BY <1>1, <1>2 DEF BatchFrom
  <2>2. n \in Nat /\ n <= rolesAsked
    BY <1>1
  <2>3. n < rolesAsked => rolesAsked \in n + 1 .. rolesAsked
    BY <1>1, <2>2
  <2>4. ~(n < rolesAsked)
    BY <2>1, <2>3
  <2>5. rolesAsked = Len(members) /\ Len(members) \in Nat
    BY <1>1
  <2> QED BY <2>2, <2>4, <2>5
<1>4. DOMAIN opinions = 1 .. Len(opinions)
  BY <1>2 DEF Speaks
<1>5. ASSUME NEW i \in DOMAIN members
      PROVE  members[i] \notin failures <=> \E k \in DOMAIN opinions : opinions[k].of = members[i]
  <2>1. members[i] \notin failures <=> i \in Heard(n)
    BY <1>1, <1>3 DEF Heard
  <2>2. ASSUME NEW k \in DOMAIN opinions, opinions[k].of = members[i] PROVE i \in Heard(n)
    <3>1. PICK h \in Heard(n) : opinions[k].of = members[h]
      BY <1>2, <1>4 DEF Speaks
    <3>2. h \in DOMAIN members
      BY <1>1, <1>3 DEF Heard
    <3> QED BY <1>1, <2>2, <3>1, <3>2 DEF Named
  <2>3. i \in Heard(n) => \E k \in DOMAIN opinions : opinions[k].of = members[i]
    BY <1>2, <1>4 DEF Speaks
  <2> QED BY <2>1, <2>2, <2>3
<1>6. \A k, l \in DOMAIN opinions :
        k < l => Councils!Place(opinions[k].of) < Councils!Place(opinions[l].of)
  BY <1>2, <1>4 DEF Speaks
<1> QED BY <1>1, <1>5, <1>6

\* What an opinion gives: a score and a weight.
LEMMA WhatIsSaid ==
  ASSUME opinions \in Seq([of : Councils!Member, says : Opinion])
  PROVE  /\ Len(opinions) \in Nat /\ DOMAIN opinions = 1 .. Len(opinions)
         /\ \A i \in DOMAIN opinions :
              opinions[i].says.score \in {-1, 0, 1} /\ opinions[i].says.weight \in Nat \ {0}
<1> DEFINE Said == [of : Councils!Member, says : Opinion]
<1>1. Len(opinions) \in Nat /\ DOMAIN opinions = 1 .. Len(opinions)
  OBVIOUS
<1>2. \A i \in DOMAIN opinions : opinions[i] \in Said
  <2> HIDE DEF Said
  <2>1. opinions \in Seq(Said)
    BY DEF Said
  <2> QED BY <2>1
<1>3. \A i \in DOMAIN opinions : opinions[i].says \in Opinion
  BY <1>2
<1> QED BY <1>1, <1>3, OpinionAssumption

\* The weight of a score is positive exactly when somebody gives it.
LEMMA WeightedBy ==
  ASSUME opinions \in Seq([of : Councils!Member, says : Opinion]), NEW score
  PROVE  /\ Councils!Weighted(score) \in Nat
         /\ Councils!Weighted(score) > 0
              <=> \E i \in DOMAIN opinions : opinions[i].says.score = score
<1> DEFINE weight == [i \in DOMAIN opinions |->
                        IF opinions[i].says.score = score THEN opinions[i].says.weight ELSE 0]
<1>1. Len(opinions) \in Nat /\ DOMAIN opinions = 1 .. Len(opinions)
  BY WhatIsSaid
<1>2. \A i \in DOMAIN opinions : opinions[i].says.weight \in Nat \ {0}
  BY WhatIsSaid
<1>3. weight \in [1 .. Len(opinions) -> Nat]
  BY <1>1, <1>2
<1>4. Councils!Weighted(score) = Councils!Total(weight)
  BY DEF Councils!Weighted
<1>5. /\ \A i \in DOMAIN opinions : opinions[i].says.score = score =>
           weight[i] = opinions[i].says.weight
      /\ \A i \in DOMAIN opinions : opinions[i].says.score # score => weight[i] = 0
  OBVIOUS
<1> HIDE DEF weight
<1>6. /\ Councils!Total(weight) \in Nat
      /\ \A i \in 1 .. Len(opinions) : weight[i] <= Councils!Total(weight)
      /\ (\A i \in 1 .. Len(opinions) : weight[i] = 0) => Councils!Total(weight) = 0
  BY <1>1, <1>3, TotalBounds
<1>7. ASSUME NEW i \in DOMAIN opinions, opinions[i].says.score = score
      PROVE  Councils!Total(weight) > 0
  <2>1. weight[i] \in Nat /\ weight[i] > 0 /\ weight[i] <= Councils!Total(weight)
    BY <1>1, <1>2, <1>5, <1>6, <1>7
  <2> QED BY <1>6, <2>1
<1>8. ASSUME \A i \in DOMAIN opinions : opinions[i].says.score # score
      PROVE  Councils!Total(weight) = 0
  BY <1>1, <1>5, <1>6, <1>8
<1> QED BY <1>4, <1>6, <1>7, <1>8

LEMMA CouncilsAgree == CouncilsInv => Councils!LevelWithinOpinions
<1> SUFFICES ASSUME CouncilsInv, councilSession = "completed", opinions # <<>>
             PROVE  /\ \E i \in DOMAIN opinions : opinions[i].says.score <= Councils!Score(level)
                    /\ \E i \in DOMAIN opinions : opinions[i].says.score >= Councils!Score(level)
  BY DEF Councils!LevelWithinOpinions
<1>1. opinions \in Seq([of : Councils!Member, says : Opinion])
  BY DEF CouncilsInv, Asking, Speaks
<1>2. PICK first \in DOMAIN opinions : TRUE
  <2>1. Len(opinions) \in Nat /\ Len(opinions) # 0 /\ DOMAIN opinions = 1 .. Len(opinions)
    BY <1>1, WhatIsSaid
  <2>2. 1 \in DOMAIN opinions
    BY <2>1
  <2> QED BY <2>2
<1>3. \A i \in DOMAIN opinions : opinions[i].says.score \in {-1, 0, 1}
  BY <1>1, WhatIsSaid
<1> DEFINE Gives(score) == \E i \in DOMAIN opinions : opinions[i].says.score = score
           up == Councils!Weighted(1)
           even == Councils!Weighted(0)
           down == Councils!Weighted(-1)
<1>4. /\ up \in Nat /\ even \in Nat /\ down \in Nat
      /\ (up > 0 <=> Gives(1)) /\ (even > 0 <=> Gives(0)) /\ (down > 0 <=> Gives(-1))
  BY <1>1, WeightedBy
<1>5. Gives(1) \/ Gives(0) \/ Gives(-1)
  BY <1>2, <1>3
<1>6. level = Councils!Confidence
  BY DEF CouncilsInv, Concluding
<1>7. level = IF 10 * (up - down) > 3 * (up + even + down) THEN "high"
              ELSE IF 10 * (up - down) < -3 * (up + even + down) THEN "low" ELSE "medium"
  BY <1>6 DEF Councils!Confidence
<1> HIDE DEF up, even, down
<1>8. CASE level = "high"
  <2>1. up > 0
    BY <1>4, <1>7, <1>8
  <2>2. Councils!Score(level) = 1
    BY <1>8 DEF Councils!Score
  <2> QED BY <1>4, <2>1, <2>2
<1>9. CASE level = "low"
  <2>1. down > 0
    BY <1>4, <1>7, <1>9
  <2>2. Councils!Score(level) = -1
    BY <1>9 DEF Councils!Score
  <2> QED BY <1>4, <2>1, <2>2
<1>10. CASE level = "medium"
  <2>1. Councils!Score(level) = 0
    BY <1>10 DEF Councils!Score
  <2>2. ~(up > 0 /\ even = 0 /\ down = 0) /\ ~(down > 0 /\ even = 0 /\ up = 0)
    BY <1>4, <1>7, <1>10
  <2>3. Gives(0) \/ (Gives(1) /\ Gives(-1))
    BY <1>4, <1>5, <2>2
  <2> QED BY <2>1, <2>3
<1> QED BY <1>7, <1>8, <1>9, <1>10

(***************************************************************************)
(* The types of the requests and of the rows, component by component.       *)
(***************************************************************************)
\* A request that arrives or goes on with what a request may carry.
LEMMA Moved ==
  ASSUME NEW S, request \in [Handler -> S], overlapped \in BOOLEAN, NEW h \in Handler, NEW r \in S,
         Turn(h, r)
  PROVE  request' \in [Handler -> S] /\ overlapped' \in BOOLEAN
BY DEF Turn

LEMMA MovedAtOnce ==
  ASSUME overlapped \in BOOLEAN, overlapped' = (overlapped \/ ~Quiet)
  PROVE  overlapped' \in BOOLEAN
OBVIOUS

PlanStep == [op : {"idle", "create", "recalculate"}] \cup [op : {"store"}, share : 0 .. 100]

LEMMA PlanSteps ==
  /\ Idle \in PlanStep /\ [op |-> "create"] \in PlanStep /\ [op |-> "recalculate"] \in PlanStep
  /\ \A n \in 0 .. 100 : [op |-> "store", share |-> n] \in PlanStep
  /\ \A r \in PlanStep : r.op = "store" => r.share \in 0 .. 100
BY DEF PlanStep, Idle

\* The share of the actions that are completed is a percentage.
LEMMA ShareWithin ==
  ASSUME task \in [Task -> {"ABSENT", "OPEN", "COMPLETED"}], Plans!Existing # {}
  PROVE  Share \in 0 .. 100
<1>1. IsFiniteSet(Plans!Existing) /\ Plans!Completed \subseteq Plans!Existing
  BY PlansAssumption, FS_Subset DEF Plans!Existing, Plans!Completed
<1> DEFINE done == Cardinality(Plans!Completed)
           total == Cardinality(Plans!Existing)
<1>2. done \in Nat /\ total \in Nat \ {0} /\ done <= total
  BY <1>1, FS_Subset, FS_CardinalityType, FS_EmptySet
<1>3. Share = Plans!Rounded(done, total)
  BY DEF Share
<1> HIDE DEF done, total
<1>4. Share = (200 * done + total) \div (2 * total)
  BY <1>3 DEF Plans!Rounded
<1> DEFINE n == 200 * done + total
           d == 2 * total
<1>5. n \in Nat /\ d \in Nat \ {0} /\ n < 101 * d /\ Share = n \div d
  BY <1>2, <1>4
<1> HIDE DEF n, d
<1>6. Share \in Nat /\ d * Share <= n
  BY <1>5
<1>7. Share > 100 => d * Share >= 101 * d
  BY <1>5, <1>6
<1> QED BY <1>5, <1>6, <1>7

LEMMA PlansTyped ==
  ASSUME Plans!TypeOK, [Plans!Next]_(Plans!vars)
  PROVE  Plans!TypeOK'
<1> USE DEF Plans!Idle, Plans!Serves, Plans!Continues, Plans!Answers, Plans!Reads, Plans!AtOnce,
      Plans!Quiet, Plans!rows, Plans!Active, Plans!Closed
<1> DEFINE Statuses == Plans!Active \cup Plans!Closed \cup {"ABSENT"}
           Progresses == {"ABSENT", "OPEN", "COMPLETED"}
<1> DEFINE TypedRows ==
             /\ plan \in [Plan -> Statuses] /\ task \in [Task -> Progresses]
             /\ progress \in 0 .. 100 /\ reopened \in BOOLEAN /\ fresh \in BOOLEAN
             /\ request \in [Handler -> PlanStep] /\ overlapped \in BOOLEAN
<1>0. TypedRows
  BY DEF Plans!TypeOK, PlanStep
<1>1. SUFFICES TypedRows'
  BY DEF Plans!TypeOK, PlanStep
<1>2. CASE UNCHANGED Plans!vars
  BY <1>0, <1>2 DEF Plans!vars, Plans!requests
<1>3. ASSUME NEW p \in Plan, NEW s \in Plans!Active \cup Plans!Closed,
             Plans!Approve(p) \/ Plans!Update(p, s)
             \/ Plans!UpdateProgress(p, 50) \/ Plans!UpdateProgress(p, 100)
      PROVE  TypedRows'
  <2>1. PICK u \in Plans!Active \cup Plans!Closed : Plans!SetStatus(p, u)
    BY <1>3 DEF Plans!Approve, Plans!Update, Plans!UpdateProgress
  <2>2. plan' \in [Plan -> Statuses] /\ reopened' \in BOOLEAN
    BY <1>0, <2>1 DEF Plans!SetStatus, Plans!Reopens
  <2>3. request' = request /\ overlapped' = (overlapped \/ ~Quiet)
    BY <2>1 DEF Plans!SetStatus, Quiet, Idle
  <2>4. task' = task /\ progress' \in 0 .. 100 /\ fresh' \in BOOLEAN
    <3>1. CASE Plans!Approve(p)
      BY <1>0, <3>1 DEF Plans!Approve
    <3>2. CASE Plans!Update(p, s)
      BY <1>0, <3>2 DEF Plans!Update
    <3>3. ASSUME NEW percent \in 0 .. 100, Plans!UpdateProgress(p, percent)
          PROVE  task' = task /\ progress' \in 0 .. 100 /\ fresh' \in BOOLEAN
      BY <1>0, <3>3 DEF Plans!UpdateProgress
    <3> QED BY <1>3, <3>1, <3>2, <3>3
  <2> QED BY <1>0, <2>2, <2>3, <2>4, MovedAtOnce
<1>4. ASSUME NEW p \in Plan, Plans!Delete(p)
      PROVE  TypedRows'
  <2>1. request' = request /\ overlapped' = (overlapped \/ ~Quiet)
    BY <1>4 DEF Plans!Delete, Quiet, Idle
  <2> QED BY <1>0, <1>4, <2>1, MovedAtOnce DEF Plans!Delete
<1>5. ASSUME NEW t \in Task, NEW s \in {"OPEN", "COMPLETED"}, Plans!CreateAction(t, s)
      PROVE  TypedRows'
  <2>1. request' = request /\ overlapped' = (overlapped \/ ~Quiet)
    BY <1>5 DEF Plans!CreateAction, Quiet, Idle
  <2> QED BY <1>0, <1>5, <2>1, MovedAtOnce DEF Plans!CreateAction
<1>6. ASSUME NEW h \in Handler, Plans!CreateReads(h)
      PROVE  TypedRows'
  <2>1. Turn(h, [op |-> "create"])
    BY <1>6 DEF Plans!CreateReads, Turn, Quiet, Idle
  <2> QED BY <1>0, <1>6, <2>1, PlanSteps, Moved DEF Plans!CreateReads
<1>7. ASSUME NEW h \in Handler, NEW p \in Plan, NEW s \in Plans!Active \cup Plans!Closed,
             Plans!Create(h, p, s)
      PROVE  TypedRows'
  <2>1. Turn(h, Idle)
    BY <1>7 DEF Plans!Create, Turn, Idle
  <2>2. request' \in [Handler -> PlanStep] /\ overlapped' \in BOOLEAN
    BY <1>0, <2>1, PlanSteps, Moved
  <2>3. plan' \in [Plan -> Statuses] /\ progress' \in 0 .. 100
    BY <1>0, <1>7 DEF Plans!Create
  <2> QED BY <1>0, <1>7, <2>2, <2>3 DEF Plans!Create
<1>8. ASSUME NEW h \in Handler, NEW t \in Task, NEW s \in Progresses, Plans!Rewrites(h, t, s)
      PROVE  TypedRows'
  <2>1. Turn(h, [op |-> "recalculate"])
    BY <1>8 DEF Plans!Rewrites, Turn, Quiet, Idle
  <2> QED BY <1>0, <1>8, <2>1, PlanSteps, Moved DEF Plans!Rewrites
<1>9. ASSUME NEW h \in Handler, Plans!Recalculate(h)
      PROVE  TypedRows'
  <2>1. PICK r \in PlanStep : Turn(h, r)
    <3>1. CASE Plans!Existing = {}
      <4>1. Turn(h, Idle)
        BY <1>9, <3>1 DEF Plans!Recalculate, Turn, Idle
      <4> QED BY <4>1, PlanSteps
    <3>2. CASE Plans!Existing # {}
      <4>1. Turn(h, [op |-> "store", share |-> Share])
        BY <1>9, <3>2, SameCount DEF Plans!Recalculate, Turn, Idle, Share
      <4> QED BY <1>0, <3>2, <4>1, PlanSteps, ShareWithin
    <3> QED BY <3>1, <3>2
  <2> QED BY <1>0, <1>9, <2>1, Moved DEF Plans!Recalculate
<1>10. ASSUME NEW h \in Handler, Plans!Store(h) \/ Plans!BreaksOff(h)
      PROVE  TypedRows'
  <2>1. Turn(h, Idle)
    BY <1>10 DEF Plans!Store, Plans!BreaksOff, Turn, Idle
  <2>2. progress' \in 0 .. 100
    BY <1>0, <1>10, PlanSteps DEF Plans!Store, Plans!BreaksOff
  <2> QED BY <1>0, <1>10, <2>1, <2>2, PlanSteps, Moved DEF Plans!Store, Plans!BreaksOff
<1> QED
  BY <1>2, <1>3, <1>4, <1>5, <1>6, <1>7, <1>8, <1>9, <1>10 DEF Plans!Next, Plans!UpdateAction,
    Plans!DeleteAction

AssessmentStep ==
  [op : {"idle", "scan"}] \cup [op : {"execute"}, of : Test, result : {"PASS", "FAIL"}]
    \cup [op : {"skip"}, of : Test] \cup [op : {"store"}, stats : Assessments!Stats]

LEMMA AssessmentSteps ==
  /\ Idle \in AssessmentStep /\ [op |-> "scan"] \in AssessmentStep
  /\ \A t \in Test, r \in {"PASS", "FAIL"} :
       [op |-> "execute", of |-> t, result |-> r] \in AssessmentStep
  /\ \A t \in Test : [op |-> "skip", of |-> t] \in AssessmentStep
  /\ \A s \in Assessments!Stats : [op |-> "store", stats |-> s] \in AssessmentStep
BY DEF AssessmentStep, Idle

LEMMA AssessmentCarries ==
  ASSUME NEW r \in AssessmentStep
  PROVE  /\ r.op \in {"execute", "skip"} => r.of \in Test
         /\ r.op = "execute" => r.result \in {"PASS", "FAIL"}
         /\ r.op = "store" => r.stats \in Assessments!Stats
BY DEF AssessmentStep

\* No count exceeds the number of tests.
LEMMA SummaryWithin == Assessments!Summary \in Assessments!Stats
<1>1. ASSUME NEW S PROVE Assessments!Count(S) \in Assessments!Number
  <2> DEFINE C == {t \in Test : test[t] # "ABSENT" /\ t \in S}
  <2>1. Cardinality(C) \in Nat /\ Cardinality(Test) \in Nat /\ Cardinality(C) <= Cardinality(Test)
    <3>1. C \subseteq Test
      OBVIOUS
    <3> HIDE DEF C
    <3> QED BY <3>1, TestsAssumption, FS_Subset, FS_CardinalityType
  <2>2. /\ Assessments!Cardinality(C) = Cardinality(C)
        /\ Assessments!Cardinality(Test) = Cardinality(Test)
    BY DEF Assessments!Cardinality, Cardinality
  <2> QED BY <2>1, <2>2 DEF Assessments!Count, Assessments!Number
<1> QED BY <1>1 DEF Assessments!Summary, Assessments!Stats

LEMMA AssessmentsTyped ==
  ASSUME Assessments!TypeOK, [Assessments!Next]_(Assessments!vars)
  PROVE  Assessments!TypeOK'
<1> USE DEF Assessments!Idle, Assessments!Serves, Assessments!Continues, Assessments!Answers,
      Assessments!Reads, Assessments!Quiet, Assessments!rows
<1> DEFINE Statuses == {"ABSENT", "PENDING", "COMPLETED", "SKIPPED"}
           Results == {"NONE", "PASS", "FAIL"}
           TypedRows ==
             /\ test \in [Test -> Statuses] /\ result \in [Test -> Results]
             /\ stats \in Assessments!Stats /\ statsCut \in BOOLEAN
             /\ request \in [Handler -> AssessmentStep] /\ overlapped \in BOOLEAN
<1>0. TypedRows
  BY DEF Assessments!TypeOK, Assessments!TestStatus, Assessments!Result, AssessmentStep
<1>1. SUFFICES TypedRows'
  BY DEF Assessments!TypeOK, Assessments!TestStatus, Assessments!Result, AssessmentStep,
    Assessments!Stats, Assessments!Number
<1>2. CASE UNCHANGED Assessments!vars
  BY <1>0, <1>2 DEF Assessments!vars, Assessments!requests
<1>3. ASSUME NEW h \in Handler, NEW t \in Test, NEW r \in {"PASS", "FAIL"},
             Assessments!SkipReads(h, t) \/ Assessments!ExecuteReads(h, t, r)
      PROVE  TypedRows'
  <2>1. PICK s \in AssessmentStep : Turn(h, s)
    BY <1>3, AssessmentSteps DEF Assessments!SkipReads, Assessments!ExecuteReads, Turn, Quiet, Idle
  <2>2. UNCHANGED <<test, result, stats, statsCut>>
    BY <1>3 DEF Assessments!SkipReads, Assessments!ExecuteReads
  <2> QED BY <1>0, <2>1, <2>2, Moved
<1>4. ASSUME NEW h \in Handler, NEW S, Assessments!RemoveScopeItem(h, S) PROVE TypedRows'
  <2>1. Turn(h, [op |-> "scan"])
    BY <1>4 DEF Assessments!RemoveScopeItem, Turn, Quiet, Idle
  <2>2. request' \in [Handler -> AssessmentStep] /\ overlapped' \in BOOLEAN
    BY <1>0, <2>1, AssessmentSteps, Moved
  <2> QED BY <1>0, <1>4, <2>2 DEF Assessments!RemoveScopeItem
<1>5. ASSUME NEW h \in Handler, Assessments!Execute(h) \/ Assessments!Skip(h) PROVE TypedRows'
  <2>1. /\ Turn(h, [op |-> "scan"]) /\ request[h].op \in {"execute", "skip"}
        /\ \E s \in Statuses : test' = [test EXCEPT ![request[h].of] = s]
        /\ \/ result' = result
           \/ /\ request[h].op = "execute"
              /\ result' = [result EXCEPT ![request[h].of] = request[h].result]
        /\ UNCHANGED <<stats, statsCut>>
    BY <1>5 DEF Assessments!Execute, Assessments!Skip, Turn, Idle
  <2>2. request' \in [Handler -> AssessmentStep] /\ overlapped' \in BOOLEAN
    BY <1>0, <2>1, AssessmentSteps, Moved
  <2>3. request[h] \in AssessmentStep
    BY <1>0
  <2> QED BY <1>0, <2>1, <2>2, <2>3, AssessmentCarries
<1>6. ASSUME NEW h \in Handler, Assessments!Scan(h) PROVE TypedRows'
  <2>1. /\ Turn(h, [op |-> "store", stats |-> Assessments!Summary])
        /\ UNCHANGED <<test, result, stats, statsCut>>
    BY <1>6 DEF Assessments!Scan, Turn, Idle
  <2> QED BY <1>0, <2>1, AssessmentSteps, SummaryWithin, Moved
<1>7. ASSUME NEW h \in Handler, Assessments!Store(h) PROVE TypedRows'
  <2>1. /\ Turn(h, Idle) /\ stats' = request[h].stats /\ request[h].op = "store"
        /\ UNCHANGED <<test, result, statsCut>>
    BY <1>7 DEF Assessments!Store, Turn, Idle
  <2>2. stats' \in Assessments!Stats
    BY <1>0, <2>1, AssessmentCarries
  <2> QED BY <1>0, <2>1, <2>2, AssessmentSteps, Moved
<1>8. ASSUME NEW h \in Handler, Assessments!BreaksOff(h) PROVE TypedRows'
  <2>1. Turn(h, Idle) /\ UNCHANGED <<test, result, stats>> /\ statsCut' \in BOOLEAN
    BY <1>0, <1>8 DEF Assessments!BreaksOff, Turn, Idle
  <2> QED BY <1>0, <2>1, AssessmentSteps, Moved
<1> QED BY <1>2, <1>3, <1>4, <1>5, <1>6, <1>7, <1>8 DEF Assessments!Next

SessionStep ==
  [op : {"idle", "reset", "open"}] \cup [op : {"fail"}, attempts : 0 .. MaxAttempts + 1]
    \cup [op : {"revoke", "rotate"}, of : Session]

LEMMA SessionSteps ==
  /\ Idle \in SessionStep /\ [op |-> "reset"] \in SessionStep /\ [op |-> "open"] \in SessionStep
  /\ \A n \in 0 .. MaxAttempts + 1 : [op |-> "fail", attempts |-> n] \in SessionStep
  /\ \A o \in {"revoke", "rotate"}, s \in Session : [op |-> o, of |-> s] \in SessionStep
BY DEF SessionStep, Idle

LEMMA SessionCarries ==
  ASSUME NEW r \in SessionStep
  PROVE  /\ r.op = "fail" => r.attempts \in 0 .. MaxAttempts + 1
         /\ r.op \in {"revoke", "rotate"} => r.of \in Session
BY DEF SessionStep

LEMMA CappedWithin ==
  ASSUME NEW n \in 0 .. MaxAttempts + 1
  PROVE  Sessions!Capped(n + 1) \in 0 .. MaxAttempts + 1
BY AttemptsAssumption DEF Sessions!Capped

LEMMA SessionsTyped ==
  ASSUME Sessions!TypeOK, [Sessions!Next]_(Sessions!vars)
  PROVE  Sessions!TypeOK'
<1> USE DEF Sessions!Idle, Sessions!Serves, Sessions!Continues, Sessions!Answers, Sessions!Reads,
      Sessions!AtOnce, Sessions!Quiet, Sessions!rows, Sessions!history
<1> DEFINE TypedRows ==
             /\ session \in [Session -> {"ABSENT", "VALID", "REVOKED"}]
             /\ attempts \in 0 .. MaxAttempts + 1 /\ streak \in 0 .. MaxAttempts + 1
             /\ locked \in BOOLEAN /\ ended \in BOOLEAN /\ logins \in 0 .. 2
             /\ request \in [Handler -> SessionStep] /\ overlapped \in BOOLEAN
<1>0. TypedRows
  BY DEF Sessions!TypeOK, SessionStep
<1>1. SUFFICES TypedRows'
  BY DEF Sessions!TypeOK, SessionStep
<1>2. CASE UNCHANGED Sessions!vars
  BY <1>0, <1>2 DEF Sessions!vars, Sessions!requests
<1>3. ASSUME NEW h \in Handler, Sessions!WrongPassword(h) \/ Sessions!RightPassword(h) PROVE TypedRows'
  <2>1. PICK r \in SessionStep : Turn(h, r)
    <3>1. CASE Sessions!WrongPassword(h)
      <4>1. Turn(h, [op |-> "fail", attempts |-> Sessions!Capped(attempts + 1)])
        BY <3>1 DEF Sessions!WrongPassword, Turn, Quiet, Idle
      <4> QED BY <1>0, <4>1, CappedWithin, SessionSteps
    <3>2. CASE Sessions!RightPassword(h)
      BY <3>2, SessionSteps DEF Sessions!RightPassword, Turn, Quiet, Idle
    <3> QED BY <1>3, <3>1, <3>2
  <2>2. UNCHANGED <<session, attempts, locked, streak, ended, logins>>
    BY <1>3 DEF Sessions!WrongPassword, Sessions!RightPassword
  <2> QED BY <1>0, <2>1, <2>2, Moved
<1>4. ASSUME NEW h \in Handler, Sessions!Fail(h) PROVE TypedRows'
  <2>1. /\ Turn(h, Idle) /\ request[h].op = "fail" /\ attempts' = request[h].attempts
        /\ streak' = Sessions!Capped(streak + 1) /\ UNCHANGED <<session, ended, logins>>
    BY <1>4 DEF Sessions!Fail, Turn, Idle
  <2>2. locked' \in BOOLEAN
    BY <1>0, <1>4 DEF Sessions!Fail
  <2>3. attempts' \in 0 .. MaxAttempts + 1 /\ streak' \in 0 .. MaxAttempts + 1
    BY <1>0, <2>1, SessionCarries, CappedWithin
  <2> QED BY <1>0, <2>1, <2>2, <2>3, SessionSteps, Moved
<1>5. ASSUME NEW h \in Handler, Sessions!Reset(h) PROVE TypedRows'
  <2>1. /\ Turn(h, [op |-> "open"]) /\ attempts' = 0 /\ streak' = 0 /\ locked' = FALSE
        /\ UNCHANGED <<session, ended, logins>>
    BY <1>5 DEF Sessions!Reset, Turn, Idle
  <2>2. 0 \in 0 .. MaxAttempts + 1
    BY AttemptsAssumption
  <2> QED BY <1>0, <2>1, <2>2, SessionSteps, Moved
<1>6. ASSUME NEW h \in Handler, NEW s \in Session, Sessions!Open(h, s) PROVE TypedRows'
  <2>1. /\ Turn(h, Idle) /\ session' = [session EXCEPT ![s] = "VALID"]
        /\ logins' = (IF logins < 2 THEN logins + 1 ELSE logins)
        /\ UNCHANGED <<attempts, locked, streak, ended>>
    BY <1>6 DEF Sessions!Open, Turn, Idle
  <2>2. request' \in [Handler -> SessionStep] /\ overlapped' \in BOOLEAN
    BY <1>0, <2>1, SessionSteps, Moved
  <2> QED BY <1>0, <2>1, <2>2
<1>7. ASSUME NEW h \in Handler, NEW s \in Session, Sessions!RefreshReads(h, s) PROVE TypedRows'
  <2>1. /\ Turn(h, [op |-> "revoke", of |-> s])
        /\ UNCHANGED <<session, attempts, locked, streak, ended, logins>>
    BY <1>7 DEF Sessions!RefreshReads, Turn, Quiet, Idle
  <2> QED BY <1>0, <2>1, SessionSteps, Moved
<1>8. ASSUME NEW h \in Handler, Sessions!Revoke(h) PROVE TypedRows'
  <2>1. /\ Turn(h, [op |-> "rotate", of |-> request[h].of]) /\ request[h].op = "revoke"
        /\ session' = [session EXCEPT ![request[h].of] = "REVOKED"]
        /\ UNCHANGED <<attempts, locked, streak, ended, logins>>
    BY <1>8 DEF Sessions!Revoke, Turn, Idle
  <2>2. request[h].of \in Session
    BY <1>0, <2>1, SessionCarries
  <2>3. request' \in [Handler -> SessionStep] /\ overlapped' \in BOOLEAN
    BY <1>0, <2>1, <2>2, SessionSteps, Moved
  <2> QED BY <1>0, <2>1, <2>2, <2>3
<1>9. ASSUME NEW h \in Handler, NEW s \in Session, Sessions!Rotate(h, s) PROVE TypedRows'
  <2>1. /\ Turn(h, Idle) /\ session' = [session EXCEPT ![s] = "VALID"]
        /\ UNCHANGED <<attempts, locked, streak, ended, logins>>
    BY <1>9 DEF Sessions!Rotate, Turn, Idle
  <2>2. request' \in [Handler -> SessionStep] /\ overlapped' \in BOOLEAN
    BY <1>0, <2>1, SessionSteps, Moved
  <2> QED BY <1>0, <2>1, <2>2
<1>10. ASSUME NEW s \in Session, Sessions!Logout(s) PROVE TypedRows'
  <2>1. request' = request /\ overlapped' = (overlapped \/ ~Quiet)
    BY <1>10 DEF Sessions!Logout, Quiet, Idle
  <2> QED BY <1>0, <1>10, <2>1, MovedAtOnce DEF Sessions!Logout
<1>11. ASSUME NEW h \in Handler, Sessions!BreaksOff(h) PROVE TypedRows'
  <2>1. Turn(h, Idle) /\ UNCHANGED <<session, attempts, locked, streak, logins>> /\ ended' \in BOOLEAN
    BY <1>0, <1>11 DEF Sessions!BreaksOff, Turn, Idle
  <2> QED BY <1>0, <2>1, SessionSteps, Moved
<1> QED BY <1>2, <1>3, <1>4, <1>5, <1>6, <1>7, <1>8, <1>9, <1>10, <1>11 DEF Sessions!Next

(***************************************************************************)
(* ReferenceNumbers.                                                        *)
(***************************************************************************)
Powers(p, n) == p = [i \in 0 .. n |-> IF i = 0 THEN 1 ELSE Base * p[i - 1]]

LEMMA PowersExist == ASSUME NEW n \in Nat PROVE \E p : Powers(p, n)
<1> DEFINE S == {k \in Nat : \E p : Powers(p, k)}
<1>1. 0 \in S
  <2> DEFINE p == [i \in 0 .. 0 |-> 1]
  <2>1. Powers(p, 0)
    BY DEF Powers
  <2> QED BY <2>1
<1>2. ASSUME NEW k \in 1 .. n, k - 1 \in S PROVE k \in S
  <2>1. PICK p : Powers(p, k - 1)
    BY <1>2
  <2> DEFINE q == [i \in 0 .. k |-> IF i = k THEN Base * p[k - 1] ELSE p[i]]
  <2>2. \A i \in 0 .. k : i = k \/ i \in 0 .. k - 1
    OBVIOUS
  <2>3. \A i \in 0 .. k : i # 0 => i - 1 \in 0 .. k - 1 /\ i - 1 \in 0 .. k /\ i - 1 # k
    OBVIOUS
  <2>4. ASSUME NEW i \in 0 .. k PROVE q[i] = IF i = 0 THEN 1 ELSE Base * q[i - 1]
    <3>1. CASE i = k
      <4>1. k # 0 /\ q[k] = Base * p[k - 1] /\ q[k - 1] = p[k - 1]
        BY <2>3
      <4> QED BY <3>1, <4>1
    <3>2. CASE i # k
      <4>1. i \in 0 .. k - 1 /\ q[i] = p[i]
        BY <2>2, <3>2
      <4>2. p[i] = IF i = 0 THEN 1 ELSE Base * p[i - 1]
        BY <2>1, <4>1 DEF Powers
      <4>3. i # 0 => q[i - 1] = p[i - 1]
        BY <2>3
      <4> HIDE DEF q
      <4> QED BY <4>1, <4>2, <4>3
    <3> QED BY <3>1, <3>2
  <2>5. Powers(q, k)
    <3>1. q = [i \in 0 .. k |-> q[i]]
      OBVIOUS
    <3> HIDE DEF q
    <3>2. [i \in 0 .. k |-> q[i]] = [i \in 0 .. k |-> IF i = 0 THEN 1 ELSE Base * q[i - 1]]
      BY <2>4
    <3> QED BY <3>1, <3>2 DEF Powers
  <2> QED BY <2>5
<1>3. \A k \in 1 .. n : k - 1 \in S => k \in S
  BY <1>2
<1>4. n \in S
  <2> HIDE DEF S
  <2>1. \A i \in 0 .. n : i \in S
    BY <1>1, <1>3, NoLeast
  <2> QED BY <2>1
<1> QED BY <1>4

\* Each power is Base times the one before.
LEMMA PowerIs ==
  ASSUME NEW n \in Nat
  PROVE  References!Power(0) = 1 /\ References!Power(n + 1) = Base * References!Power(n)
<1> DEFINE P(k) == CHOOSE p : p = [i \in 0 .. k |-> IF i = 0 THEN 1 ELSE Base * p[i - 1]]
<1>1. ASSUME NEW k \in Nat
      PROVE  Powers(P(k), k) /\ References!Power(k) = P(k)[k]
  <2>1. \E p : p = [i \in 0 .. k |-> IF i = 0 THEN 1 ELSE Base * p[i - 1]]
    BY PowersExist DEF Powers
  <2>2. P(k) = [i \in 0 .. k |-> IF i = 0 THEN 1 ELSE Base * P(k)[i - 1]]
    BY <2>1
  <2> QED BY <2>2 DEF Powers, References!Power
<1> HIDE DEF P
<1>2. \A k \in Nat : \A i \in 0 .. k : P(k)[i] = IF i = 0 THEN 1 ELSE Base * P(k)[i - 1]
  BY <1>1 DEF Powers
<1>3. References!Power(0) = 1
  BY <1>1, <1>2
<1>4. P(n)[n] = P(n + 1)[n]
  <2> DEFINE S == {i \in Nat : P(n)[i] = P(n + 1)[i]}
  <2>1. 0 \in S
    BY <1>2
  <2>2. ASSUME NEW i \in 1 .. n, i - 1 \in S PROVE i \in S
    <3>1. i \in 0 .. n /\ i \in 0 .. n + 1 /\ i # 0
      OBVIOUS
    <3>2. P(n)[i] = Base * P(n)[i - 1] /\ P(n + 1)[i] = Base * P(n + 1)[i - 1]
      BY <1>2, <3>1
    <3> QED BY <2>2, <3>2
  <2>3. \A i \in 1 .. n : i - 1 \in S => i \in S
    BY <2>2
  <2> HIDE DEF S
  <2>4. \A i \in 0 .. n : i \in S
    BY <2>1, <2>3, NoLeast
  <2> QED BY <2>4 DEF S
<1>5. P(n + 1)[n + 1] = Base * P(n + 1)[n]
  BY <1>2
<1> QED BY <1>1, <1>3, <1>4, <1>5

\* Powers are numbers, and outgrow their exponents.
LEMMA PowerGrows ==
  ASSUME NEW n \in Nat
  PROVE  References!Power(n) \in Nat /\ n < References!Power(n)
<1> DEFINE S == {k \in Nat : References!Power(k) \in Nat /\ k < References!Power(k)}
<1>1. 0 \in S
  BY PowerIs
<1>2. ASSUME NEW k \in 1 .. n, k - 1 \in S PROVE k \in S
  <2> DEFINE q == References!Power(k - 1)
  <2>1. References!Power(k) = Base * q
    <3>1. k - 1 \in Nat /\ (k - 1) + 1 = k
      OBVIOUS
    <3> QED BY <3>1, PowerIs
  <2>2. q \in Nat /\ k - 1 < q
    BY <1>2
  <2> HIDE DEF q
  <2>3. Base * q \in Nat /\ Base * q >= 2 * q
    BY <2>2, BaseAssumption
  <2> QED BY <2>1, <2>2, <2>3
<1>3. \A k \in 1 .. n : k - 1 \in S => k \in S
  BY <1>2
<1>4. n \in S
  <2> HIDE DEF S
  <2>1. \A k \in 0 .. n : k \in S
    BY <1>1, <1>3, NoLeast
  <2> QED BY <2>1
<1> QED BY <1>4

\* A number has as many digits as it takes, itself at most.
LEMMA DigitsWithin ==
  ASSUME NEW n \in Nat \ {0}
  PROVE  /\ References!Digits(n) \in 1 .. n
         /\ References!Power(References!Digits(n) - 1) <= n
         /\ n < References!Power(References!Digits(n))
<1>1. \E d \in 1 .. n : References!Power(d - 1) <= n /\ n < References!Power(d)
  <2> DEFINE S == {d \in Nat : References!Power(d) <= n}
  <2>1. 0 \in S
    BY PowerIs
  <2>2. n \notin S
    BY PowerGrows
  <2>3. PICK d \in 1 .. n : d - 1 \in S /\ d \notin S
    <3> HIDE DEF S
    <3>1. n \in 0 .. n
      OBVIOUS
    <3> QED BY <2>1, <2>2, <3>1, NoLeast
  <2>4. References!Power(d) \in Nat
    BY PowerGrows
  <2> QED BY <2>3, <2>4
<1> QED BY <1>1 DEF References!Digits

ReferenceStep == [op : {"idle"}] \cup [op : {"insert"}, ref : References!Ref]

LEMMA PaddedWithin ==
  ASSUME NEW n \in 1 .. MaxNumber, NEW width \in {Width, Width + 1}
  PROVE  References!Padded(n, width) \in References!Ref
<1>1. References!Digits(n) \in 1 .. n
  BY DigitsWithin
<1>2. /\ References!Digits(n) > width => References!Digits(n) \in Width .. Width + MaxNumber
      /\ width \in Width .. Width + MaxNumber
  BY <1>1, NumbersAssumption
<1> QED BY <1>2 DEF References!Padded, References!Ref

LEMMA ReferencesTyped ==
  ASSUME References!TypeOK, [References!Next]_(References!vars)
  PROVE  References!TypeOK'
<1> USE DEF References!Idle, References!Serves, References!Continues, References!Answers,
      References!Reads, References!AtOnce, References!Quiet, References!rows
<1> DEFINE TypedRows ==
             /\ scheme \in References!Scheme /\ refs \subseteq References!Ref /\ deleted \in BOOLEAN
             /\ request \in [Handler -> ReferenceStep] /\ overlapped \in BOOLEAN
<1>0. TypedRows
  BY DEF References!TypeOK, ReferenceStep
<1>1. SUFFICES TypedRows'
  BY DEF References!TypeOK, ReferenceStep, References!Scheme, References!Ref
<1>2. CASE UNCHANGED References!vars
  BY <1>0, <1>2 DEF References!vars, References!requests
<1>3. Idle \in ReferenceStep
  BY DEF ReferenceStep, Idle
<1>4. ASSUME NEW h \in Handler, NEW width \in {Width, Width + 1}, References!CreateReads(h, width)
      PROVE  TypedRows'
  <2> DEFINE r == References!Padded(References!NextNumber, width)
  <2>1. Turn(h, [op |-> "insert", ref |-> r]) /\ UNCHANGED <<scheme, refs, deleted>>
    BY <1>4 DEF References!CreateReads, Turn, Quiet, Idle
  <2>2. r \in References!Ref
    BY <1>4, PaddedWithin DEF References!CreateReads
  <2> HIDE DEF r
  <2>3. [op |-> "insert", ref |-> r] \in ReferenceStep
    BY <2>2 DEF ReferenceStep
  <2> QED BY <1>0, <2>1, <2>3, Moved
<1>5. ASSUME NEW h \in Handler, References!Create(h) PROVE TypedRows'
  <2>1. /\ Turn(h, Idle) /\ request[h].op = "insert" /\ refs' = refs \cup {request[h].ref}
        /\ UNCHANGED <<scheme, deleted>>
    BY <1>5 DEF References!Create, Turn, Idle
  <2>2. request[h].ref \in References!Ref
    BY <1>0, <2>1 DEF ReferenceStep
  <2> QED BY <1>0, <1>3, <2>1, <2>2, Moved
<1>6. ASSUME NEW r, References!Delete(r) PROVE TypedRows'
  <2>1. request' = request /\ overlapped' = (overlapped \/ ~Quiet)
    BY <1>6 DEF References!Delete, Quiet, Idle
  <2> QED BY <1>0, <1>6, <2>1, MovedAtOnce DEF References!Delete
<1>7. ASSUME NEW h \in Handler, References!BreaksOff(h) PROVE TypedRows'
  <2>1. Turn(h, Idle) /\ UNCHANGED <<scheme, refs, deleted>>
    BY <1>7 DEF References!BreaksOff, Turn, Idle
  <2> QED BY <1>0, <1>3, <2>1, Moved
<1> QED BY <1>2, <1>4, <1>5, <1>6, <1>7 DEF References!Next

(***************************************************************************)
(* RiskScores.                                                              *)
(***************************************************************************)
RiskStep ==
  [op : {"idle", "scan"}]
    \cup [op : {"calculate"}, of : Scenario, parent : BOOLEAN]
    \cup [op : {"persist"}, of : Scenario, parent : BOOLEAN, scores : Risks!Scores]
    \cup [op : {"residual"}, of : Scenario, score : Risks!Score]
    \cup [op : {"update"}, of : Scenario, likelihood : Likelihoods \cup {0},
         impact : Impacts \cup {0}, inherent : Risks!Score]
    \cup [op : {"store"}, scores : Risks!Scores]

LEMMA RiskSteps ==
  /\ Idle \in RiskStep /\ [op |-> "scan"] \in RiskStep
  /\ \A s \in Scenario, p \in BOOLEAN : [op |-> "calculate", of |-> s, parent |-> p] \in RiskStep
  /\ \A s \in Scenario, p \in BOOLEAN, c \in Risks!Scores :
       [op |-> "persist", of |-> s, parent |-> p, scores |-> c] \in RiskStep
  /\ \A s \in Scenario, n \in Risks!Score : [op |-> "residual", of |-> s, score |-> n] \in RiskStep
  /\ \A s \in Scenario, l \in Likelihoods \cup {0}, i \in Impacts \cup {0}, n \in Risks!Score :
       [op |-> "update", of |-> s, likelihood |-> l, impact |-> i, inherent |-> n] \in RiskStep
  /\ \A c \in Risks!Scores : [op |-> "store", scores |-> c] \in RiskStep
BY DEF RiskStep, Idle

LEMMA RiskCarries ==
  ASSUME NEW r \in RiskStep
  PROVE  /\ r.op \in {"calculate", "persist", "residual", "update"} => r.of \in Scenario
         /\ r.op = "persist" => r.parent \in BOOLEAN
         /\ r.op \in {"persist", "store"} => r.scores \in Risks!Scores
         /\ r.op = "residual" => r.score \in Risks!Score
         /\ r.op = "update" => /\ r.likelihood \in Likelihoods \cup {0} /\ r.impact \in Impacts \cup {0}
                               /\ r.inherent \in Risks!Score
BY DEF RiskStep

\* The product of two ratings is a score.
LEMMA RatingsWithin ==
  /\ Likelihoods \cup {0} \subseteq 0 .. 5 /\ Impacts \cup {0} \subseteq 0 .. 5
  /\ \A x, y \in 0 .. 5 : x * y \in Risks!Score
<1>1. ASSUME NEW x \in 0 .. 5, NEW y \in 0 .. 5 PROVE x * y \in 0 .. 25
  <2>1. x * y \in Nat /\ x * y <= 5 * y /\ 5 * y <= 25
    OBVIOUS
  <2> QED BY <2>1
<1> QED BY <1>1, RatingsAssumption DEF Risks!Score

\* A set of scores has a highest one.
LEMMA Highest ==
  ASSUME NEW S \in SUBSET Risks!Score, S # {}
  PROVE  Risks!Max(S) \in Risks!Score
<1> DEFINE U == {k \in Nat : \E x \in S : x >= k}
<1>1. S \subseteq 0 .. 25
  BY DEF Risks!Score
<1>2. 0 \in U /\ 26 \notin U
  <2>1. PICK x \in S : x \in 0 .. 25
    BY <1>1
  <2>2. x >= 0 /\ 0 \in Nat
    BY <2>1
  <2>3. \A y \in S : ~(y >= 26)
    BY <1>1
  <2> QED BY <2>2, <2>3
<1>3. PICK k \in 1 .. 26 : k - 1 \in U /\ k \notin U
  <2> HIDE DEF U
  <2>1. 26 \in 0 .. 26
    OBVIOUS
  <2> QED BY <1>2, <2>1, NoLeast
<1>4. PICK x \in S : x >= k - 1
  BY <1>3
<1>5. \A y \in S : ~(y >= k)
  BY <1>3
<1>6. \A y \in S : x >= y
  BY <1>1, <1>4, <1>5
<1>7. Risks!Max(S) \in S
  BY <1>6 DEF Risks!Max
<1> QED BY <1>7

LEMMA RowWithin ==
  /\ Risks!Row \subseteq RiskRow
  /\ \A row \in Risks!Row :
       /\ row.likelihood \in Likelihoods \cup {0} /\ row.impact \in Impacts \cup {0}
       /\ row.scores \in Risks!Scores
       /\ row.exists
  /\ \A l \in Likelihoods \cup {0}, i \in Impacts \cup {0}, c \in Risks!Scores :
       [exists |-> TRUE, likelihood |-> l, impact |-> i, scores |-> c] \in Risks!Row
<1>1. Risks!Scores \subseteq Pair
  BY DEF Risks!Scores, Risks!Score, Pair
<1> QED BY <1>1, RatingsWithin DEF Risks!Row, RiskRow

LEMMA RatedWithin ==
  ASSUME NEW row \in Risks!Row, NEW n \in Risks!Score
  PROVE  Risks!Rated(row, n) \in Risks!Row
BY DEF Risks!Rated, Risks!Row, Risks!Scores

LEMMA UpdatedWithin ==
  ASSUME NEW row \in Risks!Row, NEW data, data.inherent \in Risks!Score,
         data.likelihood \in Likelihoods \cup {0}, data.impact \in Impacts \cup {0}
  PROVE  Risks!Updated(row, data) \in Risks!Row
<1> DEFINE mid == [row EXCEPT !.likelihood = Risks!Given(data.likelihood, @),
                              !.impact = Risks!Given(data.impact, @)]
<1>1. mid \in Risks!Row
  BY DEF Risks!Row, Risks!Given
<1>2. Risks!Updated(row, data) = Risks!Rated(mid, data.inherent)
  BY DEF Risks!Updated
<1> HIDE DEF mid
<1> QED BY <1>1, <1>2, RatedWithin

LEMMA CalculatedTyped ==
  ASSUME NEW s \in Scenario, scenario[s] \in Risks!Row
  PROVE  Risks!Calculated(s) \in Risks!Scores
<1>1. scenario[s] \in RiskRow /\ scenario[s].likelihood \in 0 .. 5 /\ scenario[s].impact \in 0 .. 5
  BY RowWithin, RatingsWithin
<1>2. PICK p \in Pair : /\ p = Risks!Calculated(s) /\ p.residual <= p.inherent
                        /\ p.inherent = scenario[s].likelihood * scenario[s].impact
  BY <1>1, CalculatedWithin DEF Within
<1>3. p.inherent \in Risks!Score
  BY <1>1, <1>2, RatingsWithin
<1> QED BY <1>2, <1>3 DEF Risks!Scores, Risks!Score, Pair

LEMMA WorstTyped ==
  ASSUME \A s \in Risks!Existing : scenario[s].scores \in Risks!Scores
  PROVE  Risks!Worst \in Risks!Scores
<1>1. \A c \in Risks!Scores : c.inherent \in Risks!Score /\ c.residual \in Risks!Score
  BY DEF Risks!Scores
<1> DEFINE I == {0} \cup {scenario[s].scores.inherent : s \in Risks!Existing}
           R == {0} \cup {scenario[s].scores.residual : s \in Risks!Existing}
<1>2. I \in SUBSET Risks!Score /\ I # {} /\ R \in SUBSET Risks!Score /\ R # {}
  BY <1>1 DEF Risks!Score
<1>3. Risks!Worst = [inherent |-> Risks!Max(I), residual |-> Risks!Max(R)]
  BY DEF Risks!Worst
<1> HIDE DEF I, R
<1>4. Risks!Max(I) \in Risks!Score /\ Risks!Max(R) \in Risks!Score
  BY <1>2, Highest
<1> QED BY <1>3, <1>4 DEF Risks!Scores

LEMMA RisksTyped ==
  ASSUME Risks!TypeOK, [Risks!Next]_(Risks!vars)
  PROVE  Risks!TypeOK'
<1> USE DEF Risks!Idle, Risks!Serves, Risks!Continues, Risks!Answers, Risks!Reads, Risks!AtOnce,
      Risks!Quiet, Risks!rows
<1> DEFINE TypedRows ==
             /\ scenario \in [Scenario -> Risks!Row \cup {Risks!NoRow}]
             /\ linked \in [Scenario -> SUBSET DOMAIN Implementation]
             /\ risk \in Risks!Scores /\ unscored \subseteq Scenario /\ behind \in BOOLEAN
             /\ request \in [Handler -> RiskStep] /\ overlapped \in BOOLEAN
<1>0. TypedRows
  BY DEF Risks!TypeOK, RiskStep
<1>1. SUFFICES TypedRows'
  BY DEF Risks!TypeOK, RiskStep, Risks!Row, Risks!NoRow, Risks!Scores, Risks!Score
<1>2. CASE UNCHANGED Risks!vars
  BY <1>0, <1>2 DEF Risks!vars, Risks!requests
<1>3. \A s \in Risks!Existing : s \in Scenario /\ scenario[s] \in Risks!Row
  BY <1>0 DEF Risks!Existing, Risks!NoRow
<1>4. ASSUME NEW s \in Scenario, NEW row \in Risks!Row \cup {Risks!NoRow},
             scenario' = [scenario EXCEPT ![s] = row]
      PROVE  scenario' \in [Scenario -> Risks!Row \cup {Risks!NoRow}]
  BY <1>0, <1>4
<1>5. ASSUME NEW h \in Handler, NEW r \in RiskStep, Turn(h, r)
      PROVE  request' \in [Handler -> RiskStep] /\ overlapped' \in BOOLEAN
  BY <1>0, <1>5, Moved
<1>6. ASSUME NEW s \in Scenario, NEW C \in SUBSET DOMAIN Implementation, Risks!Link(s, C)
      PROVE  TypedRows'
  <2>1. request' = request /\ overlapped' = (overlapped \/ ~Quiet)
    BY <1>6 DEF Risks!Link, Quiet, Idle
  <2> QED BY <1>0, <1>6, <2>1, MovedAtOnce DEF Risks!Link
<1>7. ASSUME Risks!Overwrite(Risks!NoScores) PROVE TypedRows'
  <2>1. request' = request /\ overlapped' = (overlapped \/ ~Quiet)
    BY <1>7 DEF Risks!Overwrite, Quiet, Idle
  <2>2. Risks!NoScores \in Risks!Scores
    BY DEF Risks!NoScores, Risks!Scores, Risks!Score
  <2> QED BY <1>0, <1>7, <2>1, <2>2, MovedAtOnce DEF Risks!Overwrite
<1>8. ASSUME NEW h \in Handler, NEW s \in Scenario, NEW l \in Likelihoods \cup {0},
             NEW i \in Impacts \cup {0},
             Risks!Create(h, s, l, i)
      PROVE  TypedRows'
  <2> DEFINE row == [exists |-> TRUE, likelihood |-> l, impact |-> i, scores |-> Risks!NoScores]
  <2>1. /\ Turn(h, [op |-> "calculate", of |-> s, parent |-> TRUE])
        /\ scenario' = [scenario EXCEPT ![s] = Risks!Rated(row, l * i)]
        /\ UNCHANGED <<linked, risk, unscored, behind>>
    BY <1>8 DEF Risks!Create, Turn, Quiet, Idle
  <2>2. Risks!NoScores \in Risks!Scores
    BY DEF Risks!NoScores, Risks!Scores, Risks!Score
  <2>3. row \in Risks!Row
    BY <2>2, RowWithin
  <2>4. l * i \in Risks!Score
    BY RatingsWithin
  <2> HIDE DEF row
  <2>5. Risks!Rated(row, l * i) \in Risks!Row
    BY <2>3, <2>4, RatedWithin
  <2> QED BY <1>0, <1>4, <1>5, <2>1, <2>5, RiskSteps
<1>9. ASSUME NEW h \in Handler, NEW s \in Scenario, NEW l \in Likelihoods \cup {0},
             NEW i \in Impacts \cup {0},
             Risks!UpdateReads(h, s, l, i)
      PROVE  TypedRows'
  <2> DEFINE n == Risks!Given(l, scenario[s].likelihood) * Risks!Given(i, scenario[s].impact)
  <2>1. /\ Turn(h, [op |-> "update", of |-> s, likelihood |-> l, impact |-> i, inherent |-> n])
        /\ UNCHANGED <<scenario, linked, risk, unscored, behind>> /\ s \in Risks!Existing
    BY <1>9 DEF Risks!UpdateReads, Turn, Quiet, Idle
  <2>2. scenario[s].likelihood \in Likelihoods \cup {0} /\ scenario[s].impact \in Impacts \cup {0}
    BY <1>3, <2>1, RowWithin
  <2>3. /\ Risks!Given(l, scenario[s].likelihood) \in 0 .. 5
        /\ Risks!Given(i, scenario[s].impact) \in 0 .. 5
    BY <2>2, RatingsWithin DEF Risks!Given
  <2>4. n \in Risks!Score
    BY <2>3, RatingsWithin
  <2> HIDE DEF n
  <2> QED BY <1>0, <1>5, <2>1, <2>4, RiskSteps
<1>10. ASSUME NEW h \in Handler, NEW s \in Scenario, Risks!Delete(h, s) PROVE TypedRows'
  <2>1. /\ Turn(h, [op |-> "scan"]) /\ scenario' = [scenario EXCEPT ![s] = Risks!NoRow]
        /\ linked' = [linked EXCEPT ![s] = {}] /\ unscored' = unscored \ {s}
        /\ UNCHANGED <<risk, behind>>
    BY <1>10 DEF Risks!Delete, Turn, Quiet, Idle
  <2>2. linked' \in [Scenario -> SUBSET DOMAIN Implementation] /\ unscored' \subseteq Scenario
    BY <1>0, <2>1
  <2> QED BY <1>0, <1>4, <1>5, <2>1, <2>2, RiskSteps
<1>11. ASSUME NEW h \in Handler, NEW s \in Scenario,
              Risks!RecalculateReads(h, s) \/ Risks!ResidualReads(h, s)
       PROVE  TypedRows'
  <2>1. s \in Risks!Existing /\ UNCHANGED <<scenario, linked, risk, unscored, behind>>
    BY <1>11 DEF Risks!RecalculateReads, Risks!ResidualReads
  <2>2. Risks!Calculated(s) \in Risks!Scores
    BY <1>3, <2>1, CalculatedTyped
  <2>3. scenario[s].likelihood * scenario[s].impact \in Risks!Score
    BY <1>3, <2>1, RowWithin, RatingsWithin
  <2>4. PICK r \in RiskStep : Turn(h, r)
    <3>1. CASE Risks!RecalculateReads(h, s)
      <4>1. Turn(h, [op |-> "persist", of |-> s, parent |-> FALSE, scores |-> Risks!Calculated(s)])
        BY <3>1 DEF Risks!RecalculateReads, Turn, Quiet, Idle
      <4> QED BY <2>2, <4>1, RiskSteps
    <3>2. CASE Risks!ResidualReads(h, s)
      <4>1. Turn(h, [op |-> "residual", of |-> s,
                     score |-> scenario[s].likelihood * scenario[s].impact])
        BY <3>2 DEF Risks!ResidualReads, Turn, Quiet, Idle
      <4> QED BY <2>3, <4>1, RiskSteps
    <3> QED BY <1>11, <3>1, <3>2
  <2> QED BY <1>0, <1>5, <2>1, <2>4
<1>12. ASSUME NEW h \in Handler, Risks!Update(h) PROVE TypedRows'
  <2> DEFINE s == request[h].of
  <2>1. /\ Turn(h, [op |-> "calculate", of |-> s, parent |-> TRUE]) /\ request[h].op = "update"
        /\ s \in Risks!Existing
        /\ scenario' = [scenario EXCEPT ![s] = Risks!Updated(scenario[s], request[h])]
        /\ UNCHANGED <<linked, risk, unscored, behind>>
    BY <1>12 DEF Risks!Update, Turn, Idle
  <2>2. Risks!Updated(scenario[s], request[h]) \in Risks!Row
    BY <1>0, <1>3, <2>1, RiskCarries, UpdatedWithin
  <2>3. s \in Scenario
    BY <1>3, <2>1
  <2> HIDE DEF s
  <2> QED BY <1>0, <1>4, <1>5, <2>1, <2>2, <2>3, RiskSteps
<1>13. ASSUME NEW h \in Handler, Risks!Calculate(h) PROVE TypedRows'
  <2> DEFINE s == request[h].of
  <2>1. /\ Turn(h, [op |-> "persist", of |-> s, parent |-> TRUE, scores |-> Risks!Calculated(s)])
        /\ s \in Risks!Existing /\ UNCHANGED <<scenario, linked, risk, unscored, behind>>
    BY <1>13 DEF Risks!Calculate, Turn, Idle
  <2>2. s \in Scenario /\ Risks!Calculated(s) \in Risks!Scores
    BY <1>3, <2>1, CalculatedTyped
  <2> HIDE DEF s
  <2> QED BY <1>0, <1>5, <2>1, <2>2, RiskSteps
<1>14. ASSUME NEW h \in Handler, Risks!Persist(h) PROVE TypedRows'
  <2> DEFINE s == request[h].of
             row == [scenario[s] EXCEPT !.scores = request[h].scores]
  <2>1. /\ Turn(h, IF request[h].parent THEN [op |-> "scan"] ELSE Idle) /\ request[h].op = "persist"
        /\ s \in Risks!Existing /\ scenario' = [scenario EXCEPT ![s] = row]
        /\ unscored' = unscored \ {s} /\ behind' = (behind \/ ~request[h].parent)
        /\ UNCHANGED <<linked, risk>>
    BY <1>14 DEF Risks!Persist, Turn, Idle
  <2>2. s \in Scenario /\ request[h].scores \in Risks!Scores
    BY <1>0, <2>1, RiskCarries
  <2>3. row \in Risks!Row
    BY <1>3, <2>1, <2>2 DEF Risks!Row
  <2>4. PICK r \in RiskStep : Turn(h, r)
    BY <2>1, RiskSteps
  <2>5. behind' \in BOOLEAN /\ unscored' \subseteq Scenario
    BY <1>0, <2>1
  <2> HIDE DEF s, row
  <2> QED BY <1>0, <1>4, <1>5, <2>1, <2>2, <2>3, <2>4, <2>5
<1>15. ASSUME NEW h \in Handler, Risks!CalculationFails(h) PROVE TypedRows'
  <2>1. /\ Turn(h, [op |-> "scan"]) /\ unscored' = unscored \cup ({request[h].of} \cap Risks!Existing)
        /\ UNCHANGED <<scenario, linked, risk, behind>>
    BY <1>15 DEF Risks!CalculationFails, Turn, Idle
  <2>2. unscored' \subseteq Scenario
    BY <1>0, <1>3, <2>1
  <2> QED BY <1>0, <1>5, <2>1, <2>2, RiskSteps
<1>16. ASSUME NEW h \in Handler, Risks!Residual(h) PROVE TypedRows'
  <2> DEFINE s == request[h].of
             row == [scenario[s] EXCEPT !.scores.residual = request[h].score]
  <2>1. /\ Turn(h, [op |-> "scan"]) /\ request[h].op = "residual"
        /\ s \in Risks!Existing /\ scenario' = [scenario EXCEPT ![s] = row]
        /\ UNCHANGED <<linked, risk, unscored, behind>>
    BY <1>16 DEF Risks!Residual, Turn, Idle
  <2>2. s \in Scenario /\ request[h].score \in Risks!Score
    BY <1>0, <2>1, RiskCarries
  <2>3. row \in Risks!Row
    BY <1>3, <2>1, <2>2 DEF Risks!Row, Risks!Scores
  <2> HIDE DEF s, row
  <2> QED BY <1>0, <1>4, <1>5, <2>1, <2>2, <2>3, RiskSteps
<1>17. ASSUME NEW h \in Handler, Risks!Scan(h) PROVE TypedRows'
  <2>1. /\ Turn(h, [op |-> "store", scores |-> Risks!Worst])
        /\ UNCHANGED <<scenario, linked, risk, unscored, behind>>
    BY <1>17 DEF Risks!Scan, Turn, Idle
  <2>2. Risks!Worst \in Risks!Scores
    BY <1>3, RowWithin, WorstTyped
  <2> QED BY <1>0, <1>5, <2>1, <2>2, RiskSteps
<1>18. ASSUME NEW h \in Handler, Risks!Store(h) PROVE TypedRows'
  <2>1. /\ Turn(h, Idle) /\ request[h].op = "store" /\ risk' = request[h].scores /\ behind' = FALSE
        /\ UNCHANGED <<scenario, linked, unscored>>
    BY <1>18 DEF Risks!Store, Turn, Idle
  <2>2. risk' \in Risks!Scores
    BY <1>0, <2>1, RiskCarries
  <2> QED BY <1>0, <1>5, <2>1, <2>2, RiskSteps
<1>19. ASSUME NEW h \in Handler, Risks!BreaksOff(h) PROVE TypedRows'
  <2>1. Turn(h, Idle) /\ UNCHANGED <<scenario, linked, risk>>
    BY <1>19 DEF Risks!BreaksOff, Turn, Idle
  <2>2. unscored' \subseteq Scenario /\ behind' \in BOOLEAN
    BY <1>0, <1>3, <1>19 DEF Risks!BreaksOff
  <2> QED BY <1>0, <1>5, <2>1, <2>2, RiskSteps
<1> QED
  BY <1>2, <1>6, <1>7, <1>8, <1>9, <1>10, <1>11, <1>12, <1>13, <1>14, <1>15, <1>16, <1>17, <1>18,
    <1>19 DEF Risks!Next

(***************************************************************************)
(* Council.                                                                 *)
(***************************************************************************)
\* What CouncilsInv does not say of the types.
CouncilRows ==
  /\ members \in Councils!Selections
  /\ councilSession \in {"none", "open", "completed", "failed"}
  /\ level \in Councils!Levels \cup {"none"}
  /\ aborted \in BOOLEAN
  /\ faults \subseteq {"creation", "last update", "other"}

LEMMA CouncilsRecorded == CouncilsInv /\ CouncilRows => Councils!TypeOK
<1> SUFFICES ASSUME CouncilsInv, CouncilRows PROVE Councils!TypeOK
  OBVIOUS
<1> USE DEF CouncilsInv
<1>1. PICK n \in 0 .. rolesAsked :
        /\ BatchFrom(n)
        /\ Speaks(opinions, Heard(n))
        /\ failures \subseteq {members[i] : i \in 1 .. rolesAsked}
  BY DEF Asking
<1>2. rolesAsked \in Nat /\ rolesAsked <= Len(members) /\ n \in Nat
  BY DEF Named
<1>3. \A i \in 1 .. rolesAsked : members[i] \in Councils!Member
  BY <1>2 DEF Named
<1>4. DOMAIN running \subseteq Councils!Member /\ failures \subseteq Councils!Member
  BY <1>1, <1>2, <1>3 DEF BatchFrom
<1>5. opinions \in Seq([of : Councils!Member, says : Opinion])
  BY <1>1 DEF Speaks
<1> QED BY <1>4, <1>5 DEF Recording, CouncilRows, Councils!TypeOK

LEMMA CouncilsTyped ==
  ASSUME CouncilRows, [Councils!Next]_(Councils!vars)
  PROVE  CouncilRows'
<1> USE DEF Councils!decision, CouncilRows
<1>1. CASE UNCHANGED Councils!vars
  BY <1>1 DEF Councils!vars
<1>2. CASE Councils!Convene
  BY <1>2 DEF Councils!Convene
<1>3. CASE Councils!Ask \/ (\E m \in Councils!Member : Councils!MemberEnds(m)) \/ Councils!Settled
  <2>1. UNCHANGED <<members, councilSession, level, aborted, faults>>
    BY <1>3 DEF Councils!Ask, Councils!MemberEnds, Councils!Settled
  <2> QED BY <2>1
<1>4. CASE Councils!MembersDone \/ Councils!Save \/ Councils!Synthesize
  <2>1. UNCHANGED <<members, councilSession, level, aborted, faults>>
    BY <1>4 DEF Councils!MembersDone, Councils!Save, Councils!Synthesize
  <2> QED BY <2>1
<1>5. CASE Councils!Complete \/ Councils!Catch
  <2>1. Councils!Confidence \in Councils!Levels
    BY DEF Councils!Confidence, Councils!Levels
  <2>2. /\ UNCHANGED <<members, aborted, faults>> /\ level' \in Councils!Levels
        /\ councilSession' \in {"completed", "failed"}
    BY <1>5, <2>1 DEF Councils!Complete, Councils!Catch, Councils!Close, Councils!Levels
  <2> QED BY <2>2
<1>6. CASE Councils!QueryRejects \/ Councils!Abort
  BY <1>6 DEF Councils!QueryRejects, Councils!Rejects, Councils!Abort
<1> QED BY <1>1, <1>2, <1>3, <1>4, <1>5, <1>6 DEF Councils!Next

(***************************************************************************)
(* Incidents, RegulatoryScope and HourlyLimit.                              *)
(***************************************************************************)
\* What IncidentsInv and ScopesInv do not say of the types.
IncidentColumns ==
  /\ stamps \subseteq IncidentRows!Stamp
  /\ timeline \in IncidentRows!End /\ manual \in BOOLEAN
  /\ forced \in BOOLEAN /\ rewritten \in BOOLEAN /\ incidentCut \in BOOLEAN
  /\ overlapped \in BOOLEAN

LEMMA IncidentsRecorded == IncidentsInv /\ IncidentColumns => IncidentRows!TypeOK
BY DEF IncidentsInv, IncidentColumns, IncidentRows!TypeOK, IncidentStep, Changing,
  IncidentRows!Idle, Idle

LEMMA IncidentsTyped ==
  ASSUME IncidentsInv, IncidentColumns, [IncidentRows!Next]_(IncidentRows!vars)
  PROVE  IncidentColumns'
<1> USE DEF IncidentRows!Idle, IncidentRows!Serves, IncidentRows!Continues, IncidentRows!Answers,
      IncidentRows!Reads, IncidentRows!Quiet, IncidentRows!rows, IncidentRows!history
<1>0. IncidentColumns /\ request \in [Handler -> IncidentStep]
  BY DEF IncidentsInv
<1>1. CASE UNCHANGED IncidentRows!vars
  BY <1>0, <1>1 DEF IncidentRows!vars, IncidentRows!requests, IncidentColumns
<1>2. ASSUME NEW h \in Handler, NEW s \in IncidentRows!Status,
             IncidentRows!UpdateReads(h, s) \/ IncidentRows!UpdateStatusReads(h, s)
      PROVE  IncidentColumns'
  <2>1. /\ UNCHANGED <<stamps, timeline, manual, forced, rewritten, incidentCut>>
        /\ overlapped' \in BOOLEAN
    BY <1>0, <1>2 DEF IncidentRows!UpdateReads, IncidentRows!UpdateStatusReads, IncidentColumns
  <2> QED BY <1>0, <2>1 DEF IncidentColumns
<1>3. ASSUME NEW h \in Handler, NEW S \in {{}, {"containedAt"}}, IncidentRows!Update(h, S)
      PROVE  IncidentColumns'
  <2>1. /\ stamps' = stamps \cup S /\ forced' = TRUE
        /\ UNCHANGED <<timeline, manual, rewritten, incidentCut, overlapped>>
    BY <1>3 DEF IncidentRows!Update
  <2> QED BY <1>0, <2>1 DEF IncidentColumns, IncidentRows!Stamp
<1>4. ASSUME NEW h \in Handler, IncidentRows!UpdateStatus(h) PROVE IncidentColumns'
  <2>1. request[h].op = "updateStatus" /\ request[h].change.to \in IncidentRows!Status
    <3>1. request[h] \in IncidentStep /\ request[h].op = "updateStatus"
      BY <1>0, <1>4 DEF IncidentRows!UpdateStatus
    <3> QED BY <3>1, IncidentCarries DEF Changing
  <2>2. \A s \in IncidentRows!Status : IncidentRows!Stamped[s] \subseteq IncidentRows!Stamp
    BY DEF IncidentRows!Stamped, IncidentRows!Stamp, IncidentRows!Status
  <2>3. /\ stamps' = stamps \cup IncidentRows!Stamped[request[h].change.to]
        /\ UNCHANGED <<timeline, manual, forced, rewritten, incidentCut, overlapped>>
    BY <1>4 DEF IncidentRows!UpdateStatus
  <2> QED BY <1>0, <2>1, <2>2, <2>3 DEF IncidentColumns
<1>5. ASSUME NEW h \in Handler, IncidentRows!Enter(h) PROVE IncidentColumns'
  <2>1. request[h].op = "entry" /\ request[h].change.to \in IncidentRows!Status
    <3>1. request[h] \in IncidentStep /\ request[h].op = "entry"
      BY <1>0, <1>5 DEF IncidentRows!Enter
    <3> QED BY <3>1, IncidentCarries DEF Changing
  <2>2. /\ timeline' \in IncidentRows!End /\ manual' \in BOOLEAN
        /\ UNCHANGED <<stamps, forced, rewritten, incidentCut, overlapped>>
    BY <1>0, <1>5, <2>1 DEF IncidentRows!Enter, IncidentRows!Entered, IncidentRows!End,
      IncidentColumns
  <2> QED BY <1>0, <2>2 DEF IncidentColumns
<1>6. ASSUME NEW h \in Handler, IncidentRows!BreaksOff(h) PROVE IncidentColumns'
  BY <1>0, <1>6 DEF IncidentRows!BreaksOff, IncidentColumns
<1>7. ASSUME NEW end \in IncidentRows!End, IncidentRows!ByHand(end), manual' \in BOOLEAN
      PROVE  IncidentColumns'
  <2>1. /\ timeline' = end /\ rewritten' = TRUE /\ overlapped' \in BOOLEAN
        /\ UNCHANGED <<stamps, forced, incidentCut>>
    BY <1>0, <1>7 DEF IncidentRows!ByHand, IncidentRows!AtOnce, IncidentColumns
  <2> QED BY <1>0, <1>7, <2>1 DEF IncidentColumns
<1>8. ASSUME NEW end \in IncidentRows!End,
             \/ IncidentRows!AddEntry(end) \/ IncidentRows!EditEntry(end)
             \/ IncidentRows!DeleteEntry(end)
      PROVE  IncidentRows!ByHand(end) /\ manual' \in BOOLEAN
  BY <1>0, <1>8 DEF IncidentRows!AddEntry, IncidentRows!EditEntry, IncidentRows!DeleteEntry,
    IncidentColumns
<1> QED BY <1>1, <1>2, <1>3, <1>4, <1>5, <1>6, <1>7, <1>8 DEF IncidentRows!Next

ScopeColumns ==
  /\ surveyLinked \in [Scopes!Regulation -> BOOLEAN]
  /\ due \in BOOLEAN /\ scopeCut \in BOOLEAN /\ overlapped \in BOOLEAN

LEMMA ScopesRecorded == ScopesInv /\ ScopeColumns => Scopes!TypeOK
BY DEF ScopesInv, ScopeColumns, Scopes!TypeOK, ScopeStep, Scopes!Idle, Scopes!Step, Idle

LEMMA ScopesTyped ==
  ASSUME ScopeColumns, [Scopes!Next]_(Scopes!vars)
  PROVE  ScopeColumns'
<1> USE DEF Scopes!Idle, Scopes!Serves, Scopes!Continues, Scopes!Answers, Scopes!Reads,
      Scopes!AtOnce, Scopes!Quiet, Scopes!rows, Scopes!assessment, Scopes!history, ScopeColumns
<1>1. CASE UNCHANGED Scopes!vars
  BY <1>1 DEF Scopes!vars, Scopes!requests
<1>2. ASSUME NEW r \in Scopes!Regulation,
             Scopes!EditProfile(r) \/ \E k \in Scopes!Kind : Scopes!EditRow(k, r)
      PROVE  ScopeColumns'
  BY <1>2 DEF Scopes!EditProfile, Scopes!EditRow
<1>3. ASSUME NEW h \in Handler, NEW r \in Scopes!Regulation, NEW applies \in BOOLEAN,
             NEW says \in Scopes!Answer, Scopes!Complete(h, r, applies, says)
      PROVE  ScopeColumns'
  BY <1>3 DEF Scopes!Complete, Scopes!Completes
<1>4. ASSUME NEW h \in Handler, Scopes!PropagateCurrent(h) \/ Scopes!LinkSurvey(h)
      PROVE  ScopeColumns'
  BY <1>4 DEF Scopes!PropagateCurrent, Scopes!LinkSurvey
<1>5. ASSUME NEW h \in Handler, Scopes!WriteProfile(h) PROVE ScopeColumns'
  BY <1>5 DEF Scopes!WriteProfile
<1>6. ASSUME NEW h \in Handler, Scopes!ReadRows(h) PROVE ScopeColumns'
  BY <1>6 DEF Scopes!ReadRows
<1>7. ASSUME NEW h \in Handler, Scopes!WriteRows(h) PROVE ScopeColumns'
  BY <1>7 DEF Scopes!WriteRows
<1>8. ASSUME NEW h \in Handler, Scopes!BreaksOff(h) PROVE ScopeColumns'
  BY <1>8 DEF Scopes!BreaksOff
<1>9. ASSUME NEW r \in Scopes!Regulation,
             Scopes!DeleteSurvey(r) \/ \E says \in Scopes!Answer : Scopes!UpdateSurvey(r, says)
      PROVE  ScopeColumns'
  BY <1>9 DEF Scopes!DeleteSurvey, Scopes!UpdateSurvey
<1> QED BY <1>1, <1>2, <1>3, <1>4, <1>5, <1>6, <1>7, <1>8, <1>9 DEF Scopes!Next

LEMMA Elements ==
  ASSUME NEW T, NEW w \in Seq(T)
  PROVE  Len(w) \in Nat /\ w \in [1 .. Len(w) -> T] /\ \A i \in 1 .. Len(w) : w[i] \in T
OBVIOUS

\* What is left of a window is of the times that were in it.
LEMMA PrunedTimes ==
  ASSUME now \in Nat, NEW w \in Seq(0 .. MaxTime)
  PROVE  RateLimit!Pruned(w) \in Seq(0 .. MaxTime)
<1>1. w \in Seq(Nat)
  <2>1. Len(w) \in Nat /\ w \in [1 .. Len(w) -> 0 .. MaxTime]
    BY Elements
  <2>2. \A i \in 1 .. Len(w) : w[i] \in Nat
    BY <2>1
  <2>3. w \in [1 .. Len(w) -> Nat]
    BY <2>1, <2>2
  <2> QED BY <2>1, <2>3
<1>2. PICK c \in 0 .. Len(w) : c = RateLimit!CutOff(w)
  BY <1>1, CutsOff
<1>3. RateLimit!Pruned(w) = SubSeq(w, c + 1, Len(w))
  BY <1>2 DEF RateLimit!Pruned
<1>4. \A i \in c + 1 .. Len(w) : w[i] \in 0 .. MaxTime
  <2>1. Len(w) \in Nat /\ \A i \in 1 .. Len(w) : w[i] \in 0 .. MaxTime
    BY Elements
  <2>2. \A i \in c + 1 .. Len(w) : i \in 1 .. Len(w)
    BY <1>2, <2>1
  <2> QED BY <2>1, <2>2
<1> QED BY <1>2, <1>3, <1>4

LEMMA RateLimitTyped ==
  ASSUME RateLimit!TypeOK, [RateLimit!Next]_(RateLimit!vars)
  PROVE  RateLimit!TypeOK'
<1> USE DEF RateLimit!TypeOK
<1> DEFINE Times == Seq(0 .. MaxTime)
           Hits == Seq([user : User, at : 0 .. MaxTime])
<1>0. /\ now \in Nat /\ now <= MaxTime /\ MaxTime \in Nat
      /\ \A w \in Times : RateLimit!Pruned(w) \in Times /\ Append(RateLimit!Pruned(w), now) \in Times
  BY LimitsAssumption, PrunedTimes
<1>1. now \in 0 .. MaxTime /\ userWindow \in [User -> Times] /\ orgWindow \in Times /\ accepted \in Hits
  OBVIOUS
<1>2. SUFFICES now' \in 0 .. MaxTime /\ userWindow' \in [User -> Times] /\ orgWindow' \in Times
               /\ accepted' \in Hits
  OBVIOUS
<1>3. ASSUME NEW u \in User, RateLimit!Accept(u)
      PROVE  /\ now' \in 0 .. MaxTime /\ userWindow' \in [User -> Times]
             /\ orgWindow' \in Times /\ accepted' \in Hits
  <2>1. accepted' \in Hits
    BY <1>3 DEF RateLimit!Accept
  <2> HIDE DEF Times, Hits, RateLimit!TypeOK
  <2> QED BY <1>0, <1>1, <1>3, <2>1 DEF RateLimit!Accept
<1>4. ASSUME NEW u \in User, RateLimit!Refuse(u)
      PROVE  /\ now' \in 0 .. MaxTime /\ userWindow' \in [User -> Times]
             /\ orgWindow' \in Times /\ accepted' \in Hits
  <2> HIDE DEF Times, Hits, RateLimit!TypeOK
  <2> QED BY <1>0, <1>1, <1>4 DEF RateLimit!Refuse
<1>5. CASE RateLimit!Cleanup
  <2> HIDE DEF Times, Hits, RateLimit!TypeOK
  <2> QED BY <1>0, <1>1, <1>5 DEF RateLimit!Cleanup
<1>6. CASE RateLimit!Tick
  BY <1>0, <1>1, <1>6 DEF RateLimit!Tick
<1>7. CASE UNCHANGED RateLimit!vars
  BY <1>1, <1>7 DEF RateLimit!vars
<1> QED BY <1>3, <1>4, <1>5, <1>6, <1>7 DEF RateLimit!Next

(***************************************************************************)
(* The composition: types.                                                  *)
(***************************************************************************)
LEMMA ServicesStart ==
  /\ Plans!Init => Plans!TypeOK
  /\ Assessments!Init => Assessments!TypeOK
  /\ Sessions!Init => Sessions!TypeOK
  /\ References!Init => References!TypeOK
  /\ Risks!Init => Risks!TypeOK
  /\ IncidentRows!Init => IncidentColumns
  /\ Scopes!Init => ScopeColumns
<1>1. Plans!Init => Plans!TypeOK
  <2> SUFFICES ASSUME Plans!Init PROVE Plans!TypeOK
    OBVIOUS
  <2> USE DEF Plans!Init, Plans!RequestsInit, Plans!Idle, Idle
  <2>1. request \in [Handler -> PlanStep]
    BY PlanSteps
  <2>2. /\ plan \in [Plan -> Plans!Active \cup Plans!Closed \cup {"ABSENT"}]
        /\ task \in [Task -> {"ABSENT", "OPEN", "COMPLETED"}]
    OBVIOUS
  <2>3. progress \in 0 .. 100
    OBVIOUS
  <2>4. reopened \in BOOLEAN /\ fresh \in BOOLEAN /\ overlapped \in BOOLEAN
    BY DEF Plans!RequestsInit
  <2> HIDE DEF Plans!Init, Plans!RequestsInit, Plans!Idle, Idle
  <2> QED BY <2>1, <2>2, <2>3, <2>4 DEF Plans!TypeOK, PlanStep
<1>2. Assessments!Init => Assessments!TypeOK
  <2> SUFFICES ASSUME Assessments!Init PROVE Assessments!TypeOK
    OBVIOUS
  <2> USE DEF Assessments!Init, Assessments!RequestsInit, Assessments!Idle, Idle
  <2>1. request \in [Handler -> AssessmentStep]
    BY AssessmentSteps
  <2> QED BY <2>1, SummaryWithin DEF Assessments!TypeOK, AssessmentStep, Assessments!TestStatus,
        Assessments!Result
<1>3. Sessions!Init => Sessions!TypeOK
  <2> SUFFICES ASSUME Sessions!Init PROVE Sessions!TypeOK
    OBVIOUS
  <2> USE DEF Sessions!Init, Sessions!RequestsInit, Sessions!Idle, Idle
  <2>1. request \in [Handler -> SessionStep]
    BY SessionSteps
  <2>2. session \in [Session -> {"ABSENT", "VALID", "REVOKED"}]
    OBVIOUS
  <2>3. {locked, ended} \subseteq BOOLEAN /\ overlapped \in BOOLEAN
    OBVIOUS
  <2>4. attempts = 0 /\ streak = 0 /\ logins \in 0 .. 2
    OBVIOUS
  <2>5. {attempts, streak} \subseteq 0 .. MaxAttempts + 1
    BY <2>4, AttemptsAssumption
  <2> HIDE DEF Sessions!Init, Sessions!RequestsInit, Sessions!Idle, Idle
  <2> QED BY <2>1, <2>2, <2>3, <2>4, <2>5 DEF Sessions!TypeOK, SessionStep
<1>4. References!Init => References!TypeOK
  <2> SUFFICES ASSUME References!Init PROVE References!TypeOK
    OBVIOUS
  <2> USE DEF References!Init, References!RequestsInit, References!Idle, Idle
  <2>1. request \in [Handler -> ReferenceStep]
    BY DEF ReferenceStep
  <2> QED BY <2>1 DEF References!TypeOK, ReferenceStep
<1>5. Risks!Init => Risks!TypeOK
  <2>1. Risks!NoScores \in Risks!Scores
    BY DEF Risks!NoScores, Risks!Scores, Risks!Score
  <2> SUFFICES ASSUME Risks!Init PROVE Risks!TypeOK
    OBVIOUS
  <2> USE DEF Risks!Init, Risks!RequestsInit, Risks!Idle, Idle
  <2>2. request \in [Handler -> RiskStep]
    BY RiskSteps
  <2>3. scenario \in [Scenario -> Risks!Row \cup {Risks!NoRow}]
    OBVIOUS
  <2> QED BY <2>1, <2>2, <2>3 DEF Risks!TypeOK, RiskStep
<1>6. IncidentRows!Init => IncidentColumns
  <2>1. [to |-> "DETECTED", chained |-> TRUE] \in IncidentRows!End
    BY DEF IncidentRows!End, IncidentRows!Status
  <2> QED BY <2>1 DEF IncidentRows!Init, IncidentRows!RequestsInit, IncidentColumns
<1>7. Scopes!Init => ScopeColumns
  BY DEF Scopes!Init, Scopes!RequestsInit, ScopeColumns
<1> QED BY <1>1, <1>2, <1>3, <1>4, <1>5, <1>6, <1>7

LEMMA PartsStart ==
  /\ Councils!Init => CouncilRows
  /\ RateLimit!Init => RateLimit!TypeOK
<1>1. Councils!Init => CouncilRows
  BY DEF Councils!Init, CouncilRows
<1>2. RateLimit!Init => RateLimit!TypeOK
  BY LimitsAssumption DEF RateLimit!Init, RateLimit!TypeOK
<1> QED BY <1>1, <1>2

\* The types of the subject, with what they rest on.
PartsTyped ==
  /\ subject = "policies" => Inv
  /\ subject = "changes" => ChangesInv
  /\ subject = "soas" => SoasInv
  /\ subject = "caps" => CapsInv
  /\ subject = "plans" => Plans!TypeOK
  /\ subject = "assessments" => Assessments!TypeOK
  /\ subject = "evidence" => EvidencesInv
  /\ subject = "sessions" => Sessions!TypeOK
  /\ subject = "references" => References!TypeOK
  /\ subject = "toolServers" => ToolServersInv
  /\ subject = "councils" => CouncilsInv /\ CouncilRows
  /\ subject = "rateLimit" => RateLimit!TypeOK
  /\ subject = "risks" => Risks!TypeOK
  /\ subject = "versions" => VersionsInv
  /\ subject = "exceptions" => ExceptionsInv
  /\ subject = "creations" => CreationsInv
  /\ subject = "controls" => ControlsInv
  /\ subject = "incidents" => IncidentsInv /\ IncidentColumns
  /\ subject = "shutdown" => ShutdownInv
  /\ subject = "scopes" => ScopesInv /\ ScopeColumns

LEMMA PartsTypedInit == PartsInit => PartsTyped
<1> SUFFICES ASSUME PartsInit PROVE PartsTyped
  OBVIOUS
<1>1. Inv
  BY InitInv DEF PartsInit
<1>2. ChangesInv
  BY ChangesInit DEF PartsInit
<1>3. SoasInv
  BY SoasInit DEF PartsInit
<1>4. CapsInv
  BY CapsInit DEF PartsInit
<1>5. Plans!TypeOK
  BY ServicesStart DEF PartsInit
<1>6. Assessments!TypeOK
  BY ServicesStart DEF PartsInit
<1>7. EvidencesInv
  BY EvidencesInit DEF PartsInit
<1>8. Sessions!TypeOK
  BY ServicesStart DEF PartsInit
<1>9. References!TypeOK
  BY ServicesStart DEF PartsInit
<1>10. ToolServersInv
  BY ToolServersInit DEF PartsInit
<1>11. CouncilsInv /\ CouncilRows
  BY CouncilsInit, PartsStart DEF PartsInit
<1>12. RateLimit!TypeOK
  BY PartsStart DEF PartsInit
<1>13. Risks!TypeOK
  BY ServicesStart DEF PartsInit
<1>14. VersionsInv
  BY VersionsInit DEF PartsInit
<1>15. ExceptionsInv
  BY ExceptionsInit DEF PartsInit
<1>16. CreationsInv
  BY CreationsInit DEF PartsInit
<1>17. ControlsInv
  BY ControlsInit DEF PartsInit
<1>18. IncidentsInv /\ IncidentColumns
  BY IncidentsInit, ServicesStart DEF PartsInit
<1>19. ShutdownInv
  BY ShutdownInit DEF PartsInit
<1>20. ScopesInv /\ ScopeColumns
  BY ScopesInit, ServicesStart DEF PartsInit
<1> QED BY <1>1, <1>2, <1>3, <1>4, <1>5, <1>6, <1>7, <1>8, <1>9, <1>10, <1>11, <1>12, <1>13,
  <1>14, <1>15, <1>16, <1>17, <1>18, <1>19, <1>20 DEF PartsTyped

LEMMA PartsTypedStep == PartsTyped /\ [PartsNext]_partsVars => PartsTyped'
<1> SUFFICES ASSUME PartsTyped, [PartsNext]_partsVars PROVE PartsTyped'
  OBVIOUS
<1>1. subject' = subject
  BY DEF PartsNext, OthersKeep, partsVars
<1>2. ASSUME subject = "policies" PROVE Inv'
  <2>1. [Next]_vars
    BY <1>2 DEF PartsNext, partsVars, policyVars, vars, rows, history, requests
  <2> QED BY <1>2, <2>1, StepInv DEF PartsTyped
<1>3. ASSUME subject = "changes" PROVE ChangesInv'
  <2>1. [Changes!Next]_(Changes!vars)
    BY <1>3 DEF PartsNext, partsVars, changeVars, Changes!vars, Changes!rows, Changes!history,
      Changes!requests, requests
  <2> QED BY <1>3, <2>1, ChangesStep DEF PartsTyped
<1>4. ASSUME subject = "soas" PROVE SoasInv'
  <2>1. [Soas!Next]_(Soas!vars)
    BY <1>4 DEF PartsNext, partsVars, soaVars, Soas!vars, Soas!requests, requests
  <2> QED BY <1>4, <2>1, SoasStep DEF PartsTyped
<1>5. ASSUME subject = "caps" PROVE CapsInv'
  <2>1. [Caps!Next]_(Caps!vars)
    BY <1>5 DEF PartsNext, partsVars, capVars, Caps!vars, Caps!row, Caps!requests, requests
  <2> QED BY <1>5, <2>1, CapsStep DEF PartsTyped
<1>6. ASSUME subject = "plans" PROVE Plans!TypeOK'
  <2>1. [Plans!Next]_(Plans!vars)
    BY <1>6 DEF PartsNext, partsVars, planVars, Plans!vars, Plans!rows, Plans!requests, requests
  <2> QED BY <1>6, <2>1, PlansTyped DEF PartsTyped
<1>7. ASSUME subject = "assessments" PROVE Assessments!TypeOK'
  <2>1. [Assessments!Next]_(Assessments!vars)
    BY <1>7 DEF PartsNext, partsVars, assessmentVars, Assessments!vars, Assessments!rows,
      Assessments!requests, requests
  <2> QED BY <1>7, <2>1, AssessmentsTyped DEF PartsTyped
<1>8. ASSUME subject = "evidence" PROVE EvidencesInv'
  <2>1. [Evidences!Next]_(Evidences!vars)
    BY <1>8 DEF PartsNext, partsVars, evidenceVars, Evidences!vars, Evidences!rows,
      Evidences!history, Evidences!requests, requests
  <2> QED BY <1>8, <2>1, EvidencesStep DEF PartsTyped
<1>9. ASSUME subject = "sessions" PROVE Sessions!TypeOK'
  <2>1. [Sessions!Next]_(Sessions!vars)
    BY <1>9 DEF PartsNext, partsVars, sessionVars, Sessions!vars, Sessions!rows,
      Sessions!history, Sessions!requests, requests
  <2> QED BY <1>9, <2>1, SessionsTyped DEF PartsTyped
<1>10. ASSUME subject = "references" PROVE References!TypeOK'
  <2>1. [References!Next]_(References!vars)
    BY <1>10 DEF PartsNext, partsVars, referenceVars, References!vars, References!rows,
      References!requests, requests
  <2> QED BY <1>10, <2>1, ReferencesTyped DEF PartsTyped
<1>11. ASSUME subject = "toolServers" PROVE ToolServersInv'
  <2>1. [ToolServers!Next]_(ToolServers!vars)
    BY <1>11 DEF PartsNext, partsVars, toolServerVars, ToolServers!vars
  <2> QED BY <1>11, <2>1, ToolServersStep DEF PartsTyped
<1>12. ASSUME subject = "councils" PROVE (CouncilsInv /\ CouncilRows)'
  <2>1. [Councils!Next]_(Councils!vars)
    BY <1>12 DEF PartsNext, partsVars, councilVars, Councils!vars, Councils!decision
  <2> QED BY <1>12, <2>1, CouncilsStep, CouncilsTyped DEF PartsTyped
<1>13. ASSUME subject = "rateLimit" PROVE RateLimit!TypeOK'
  <2>1. [RateLimit!Next]_(RateLimit!vars)
    BY <1>13 DEF PartsNext, partsVars, rateLimitVars, RateLimit!vars
  <2> QED BY <1>13, <2>1, RateLimitTyped DEF PartsTyped
<1>14. ASSUME subject = "risks" PROVE Risks!TypeOK'
  <2>1. [Risks!Next]_(Risks!vars)
    BY <1>14 DEF PartsNext, partsVars, riskVars, Risks!vars, Risks!rows, Risks!requests, requests
  <2> QED BY <1>14, <2>1, RisksTyped DEF PartsTyped
<1>15. ASSUME subject = "versions" PROVE VersionsInv'
  <2>1. [Versions!Next]_(Versions!vars)
    BY <1>15 DEF PartsNext, partsVars, versionVars, Versions!vars, Versions!rows,
      Versions!history, Versions!requests, requests
  <2> QED BY <1>15, <2>1, VersionsStep DEF PartsTyped
<1>16. ASSUME subject = "exceptions" PROVE ExceptionsInv'
  <2>1. [Exceptions!Next]_(Exceptions!vars)
    BY <1>16 DEF PartsNext, partsVars, exceptionVars, Exceptions!vars, Exceptions!requests, requests
  <2> QED BY <1>16, <2>1, ExceptionsStep DEF PartsTyped
<1>17. ASSUME subject = "creations" PROVE CreationsInv'
  <2>1. [Creations!Next]_(Creations!vars)
    BY <1>17 DEF PartsNext, partsVars, creationVars, Creations!vars, Creations!rows,
      Creations!history, Creations!requests, requests
  <2> QED BY <1>17, <2>1, CreationsStep DEF PartsTyped
<1>18. ASSUME subject = "controls" PROVE ControlsInv'
  <2>1. [Controls!Next]_(Controls!vars)
    BY <1>18 DEF PartsNext, partsVars, controlVars, Controls!vars, Controls!requests, requests
  <2> QED BY <1>18, <2>1, ControlsStep DEF PartsTyped
<1>19. ASSUME subject = "incidents" PROVE (IncidentsInv /\ IncidentColumns)'
  <2>1. [IncidentRows!Next]_(IncidentRows!vars)
    BY <1>19 DEF PartsNext, partsVars, incidentVars, IncidentRows!vars, IncidentRows!rows,
      IncidentRows!history, IncidentRows!requests, requests
  <2> QED BY <1>19, <2>1, IncidentsStep, IncidentsTyped DEF PartsTyped
<1>20. ASSUME subject = "shutdown" PROVE ShutdownInv'
  <2>1. [Shutdown!Next]_(Shutdown!vars)
    BY <1>20 DEF PartsNext, partsVars, shutdownVars, Shutdown!vars, Shutdown!jobs,
      Shutdown!server, Shutdown!shutdown
  <2> QED BY <1>20, <2>1, ShutdownStep DEF PartsTyped
<1>21. ASSUME subject = "scopes" PROVE (ScopesInv /\ ScopeColumns)'
  <2>1. [Scopes!Next]_(Scopes!vars)
    BY <1>21 DEF PartsNext, partsVars, scopeVars, Scopes!vars, Scopes!rows, Scopes!assessment,
      Scopes!history, Scopes!requests, requests
  <2> QED BY <1>21, <2>1, ScopesStep, ScopesTyped DEF PartsTyped
<1> QED BY <1>1, <1>2, <1>3, <1>4, <1>5, <1>6, <1>7, <1>8, <1>9, <1>10, <1>11, <1>12, <1>13,
  <1>14, <1>15, <1>16, <1>17, <1>18, <1>19, <1>20, <1>21 DEF PartsTyped

(***************************************************************************)
(* The theorems.                                                            *)
(***************************************************************************)
\* However the calls of a run, the idle timers and the shutdown of the run interleave:
\* every server process that is up has a timer that will close it, none is closed under
\* a call, and the map does not lead to a closed one.
THEOREM ServersServe ==
  ToolServers!Spec =>
    [](ToolServers!NoServerLeaks /\ ToolServers!NotClosedInUse /\ ToolServers!MapLeadsToServer)
<1>1. ToolServers!Init => ToolServersInv
  BY ToolServersInit
<1>2. ToolServersInv /\ [ToolServers!Next]_(ToolServers!vars) => ToolServersInv'
  BY ToolServersStep
<1>3. ToolServersInv =>
        ToolServers!NoServerLeaks /\ ToolServers!NotClosedInUse /\ ToolServers!MapLeadsToServer
  BY DEF ToolServersInv, Calling, Leads, ToolServers!NotClosedInUse, ToolServers!MapLeadsToServer
<1> QED BY <1>1, <1>2, <1>3, PTL DEF ToolServers!Spec

\* However many shutdowns there are and however jobs end meanwhile: a client's job that
\* the process leaves behind was awaited, a timer went off, and its lane was aborted.
THEOREM LeavesNobodyUnasked == Shutdown!Spec => []Shutdown!LeftBehind
<1>1. Shutdown!Init => ShutdownInv
  BY ShutdownInit
<1>2. ShutdownInv /\ [Shutdown!Next]_(Shutdown!vars) => ShutdownInv'
  BY ShutdownStep
<1>3. ShutdownInv => Shutdown!LeftBehind
  BY DEF ShutdownInv, Stopping, Accepted, Shutdown!TypeOK, Shutdown!Accepted, Shutdown!LeftBehind
<1> QED BY <1>1, <1>2, <1>3, PTL DEF Shutdown!Spec

\* However requests, cleanups and time alternate: nobody gets more than the limits through
\* in an hour, and none is refused below them.
THEOREM HourCounted == RateLimit!Spec => []RateLimit!CountsTheHour
<1>1. RateLimit!Init => RateLimitInv
  BY RateLimitInit
<1>2. RateLimitInv /\ [RateLimit!Next]_(RateLimit!vars) => RateLimitInv'
  BY RateLimitStep
<1>3. RateLimitInv => RateLimit!CountsTheHour
  <2> SUFFICES ASSUME RateLimitInv PROVE RateLimit!CountsTheHour
    OBVIOUS
  <2>1. /\ RateLimit!InLastHour(User) = Len(RateLimit!Pruned(orgWindow))
        /\ Len(RateLimit!Pruned(orgWindow)) \in 0 .. PerOrg
    BY LimitsAssumption, Counts DEF RateLimitInv
  <2>2. ASSUME NEW u \in User
        PROVE  /\ RateLimit!InLastHour({u}) = Len(RateLimit!Pruned(userWindow[u]))
               /\ Len(RateLimit!Pruned(userWindow[u])) \in 0 .. PerUser
    BY LimitsAssumption, Counts DEF RateLimitInv
  <2>3. RateLimit!InLastHour(User) <= PerOrg /\ \A u \in User : RateLimit!InLastHour({u}) <= PerUser
    BY LimitsAssumption, <2>1, <2>2
  <2>4. \A u \in User :
          RateLimit!Admits(u)
            <=> RateLimit!InLastHour({u}) < PerUser /\ RateLimit!InLastHour(User) < PerOrg
    BY <2>1, <2>2 DEF RateLimit!Admits, RateLimit!UserHasRoom, RateLimit!OrgHasRoom
  <2> QED BY <2>3, <2>4 DEF RateLimit!CountsTheHour
<1> QED BY <1>1, <1>2, <1>3, PTL DEF RateLimit!Spec

\* A council's session closes on everybody's opinion, at a level theirs support.
THEOREM CouncilsConclude ==
  Councils!Spec => [](/\ Councils!EveryMemberHeard
                      /\ Councils!NoSessionLeftOpen
                      /\ Councils!LevelWithinOpinions)
<1>1. CouncilsInv =>
        /\ Councils!EveryMemberHeard
        /\ Councils!NoSessionLeftOpen
        /\ Councils!LevelWithinOpinions
  BY CouncilsHear, CouncilsAgree DEF CouncilsInv, Recording
<1> QED BY <1>1, CouncilsInit, CouncilsStep, PTL DEF Councils!Spec

\* What the composition does with these parts, each of them does.
LEMMA PartsAlone == PartsSpec => ToolServers!Spec /\ Shutdown!Spec /\ RateLimit!Spec /\ Councils!Spec
<1>1. PartsInit => ToolServers!Init /\ Shutdown!Init /\ RateLimit!Init /\ Councils!Init
  BY DEF PartsInit
<1>2. [PartsNext]_partsVars => [ToolServers!Next]_(ToolServers!vars)
  BY DEF PartsNext, OthersKeep, Keep, partsVars, toolServerVars, ToolServers!vars
<1>3. [PartsNext]_partsVars => [Shutdown!Next]_(Shutdown!vars)
  BY DEF PartsNext, OthersKeep, Keep, partsVars, shutdownVars, Shutdown!vars, Shutdown!jobs,
    Shutdown!server, Shutdown!shutdown
<1>4. [PartsNext]_partsVars => [RateLimit!Next]_(RateLimit!vars)
  BY DEF PartsNext, OthersKeep, Keep, partsVars, rateLimitVars, RateLimit!vars
<1>5. [PartsNext]_partsVars => [Councils!Next]_(Councils!vars)
  BY DEF PartsNext, OthersKeep, Keep, partsVars, councilVars, Councils!vars, Councils!decision
<1> QED BY <1>1, <1>2, <1>3, <1>4, <1>5, PTL
  DEF PartsSpec, ToolServers!Spec, Shutdown!Spec, RateLimit!Spec, Councils!Spec

\* No connection of the composition is closed under a call, and its map does not lead to
\* a closed one (McpToolExecutor).
THEOREM Connected == PartsSpec => []ConnectionsUsable
<1>1. ToolServers!NotClosedInUse /\ ToolServers!MapLeadsToServer => ConnectionsUsable
  BY DEF ConnectionsUsable
<1> QED BY <1>1, ServersServe, PartsAlone, PTL

\* Neither a run nor the gateway leaves anything behind (McpToolExecutor, Gateway.stop).
THEOREM CleanExit == PartsSpec => []NothingLeftBehind
<1>1. ToolServers!NoServerLeaks /\ Shutdown!LeftBehind => NothingLeftBehind
  BY DEF NothingLeftBehind
<1> QED BY <1>1, ServersServe, LeavesNobodyUnasked, PartsAlone, PTL

\* The limits of the composition count the last hour (registerRateLimit).
THEOREM HourLimited == PartsSpec => []CountsTheHour
<1>1. RateLimit!CountsTheHour => CountsTheHour
  BY DEF CountsTheHour
<1> QED BY <1>1, HourCounted, PartsAlone, PTL

\* A council concludes on what its members said (CouncilOrchestrator.deliberate).
THEOREM Concludes == PartsSpec => []CouncilConcludes
<1>1. Councils!EveryMemberHeard /\ Councils!NoSessionLeftOpen /\ Councils!LevelWithinOpinions
        => CouncilConcludes
  BY DEF CouncilConcludes
<1> QED BY <1>1, CouncilsConclude, PartsAlone, PTL

\* In every behaviour of the composition the component's rows and the requests it serves, with
\* all they have read, stay within their types: a count of tests, a share of actions, a score
\* of 0 to 25, a status of the enumeration (the services of apps/server, the gateway's parts).
THEOREM TypesCorrect == PartsSpec => []PartsTypeOK
<1>1. PartsTyped => PartsTypeOK
  BY CouncilsRecorded, IncidentsRecorded, ScopesRecorded DEF PartsTyped, PartsTypeOK, Inv,
    ChangesInv, SoasInv, CapsInv, EvidencesInv, ToolServersInv, VersionsInv, ExceptionsInv,
    CreationsInv, ControlsInv, ShutdownInv
<1> QED BY <1>1, PartsTypedInit, PartsTypedStep, PTL DEF PartsSpec

\* The workflows, where they are the subject; otherwise none is begun.
PoliciesHeld ==
  IF subject = "policies" THEN Inv /\ Fresh /\ Sequential
  ELSE document = "DRAFT" /\ workflow = [w \in Workflow |-> "ABSENT"]

\* In every behaviour of the composition, too, and whatever orders the client posts: no workflow
\* approves its document past a step before the first gap in them; one created with a step of
\* order 1 can be decided while it is in progress; and if it has one such step, its orders are
\* kept.  A status written without a workflow is not spoken of (ApprovalWorkflowService).
THEOREM PoliciesDecided == PartsSpec => [](SignedThroughout /\ Decidable /\ OneInReview)
<1>1. PartsInit => PoliciesHeld
  BY InitInv, SequentialInit DEF PartsInit, PoliciesHeld, Init
<1>2. PoliciesHeld /\ [PartsNext]_partsVars => PoliciesHeld'
  <2> SUFFICES ASSUME PoliciesHeld, [PartsNext]_partsVars PROVE PoliciesHeld'
    OBVIOUS
  <2>1. subject' = subject
    BY DEF PartsNext, OthersKeep, partsVars
  <2>2. CASE subject = "policies"
    <3>1. [Next]_vars
      BY <2>2 DEF PartsNext, partsVars, policyVars, vars, rows, history, requests
    <3> QED BY <2>1, <2>2, <3>1, StepInv, StepSequential DEF PoliciesHeld
  <2>3. CASE subject # "policies"
    BY <2>1, <2>3 DEF PoliciesHeld, PartsNext, OthersKeep, Keep, partsVars, policyVars, rows
  <2> QED BY <2>2, <2>3
<1>3. PoliciesHeld => SignedThroughout /\ Decidable /\ OneInReview
  <2>1. Inv /\ Sequential => SignedThroughout /\ Decidable /\ OneInReview
    BY SequentialOne DEF Inv
  <2>2. document = "DRAFT" /\ workflow = [w \in Workflow |-> "ABSENT"] =>
          SignedThroughout /\ Decidable /\ OneInReview
    BY DEF SignedThroughout, Decidable, OneInReview
  <2> QED BY <2>1, <2>2 DEF PoliciesHeld
<1> QED BY <1>1, <1>2, <1>3, PTL DEF PartsSpec
=============================================================================
