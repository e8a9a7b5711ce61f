-------------------------- MODULE LaneQueueProofs ---------------------------
(***************************************************************************)
(* Proofs about LaneQueue, for every number of users, jobs and lanes.       *)
(***************************************************************************)
EXTENDS LaneQueue, TLAPS

USE DEF TypeOK

Inv == TypeOK /\ Lanes

(***************************************************************************)
(* Chains.                                                                  *)
(***************************************************************************)
\* A chain a job is put on keeps its jobs, in order, and gets one more.
LEMMA Chained ==
  ASSUME NEW s \in Seq(Job), NEW j \in Job
  PROVE  LET t == Append(s, j)
         IN /\ t \in Seq(Job) /\ Len(t) = Len(s) + 1 /\ t # <<>>
            /\ \A n \in 1 .. Len(s) : t[n] = s[n]
            /\ t[Len(s) + 1] = j
            /\ First(t) \in Job
<1> DEFINE t == Append(s, j)
<1>1. t \in Seq(Job) /\ Len(t) = Len(s) + 1 /\ Len(s) \in Nat
  OBVIOUS
<1>2. (\A n \in 1 .. Len(s) : t[n] = s[n]) /\ t[Len(s) + 1] = j
  OBVIOUS
<1>3. t # <<>>
  BY <1>1
<1>4. First(t) \in Job
  <2> HIDE DEF t
  <2> QED BY <1>1, <1>3 DEF First
<1> QED BY <1>1, <1>2, <1>3, <1>4

\* A chain that starts something is not empty and starts its first job.
LEMMA Started ==
  ASSUME NEW s \in Seq(Job), NEW j \in Job, First(s) = j
  PROVE  /\ s # <<>> /\ Len(s) \in Nat /\ Len(s) >= 1 /\ s[1] = j /\ Head(s) = j
         /\ Tail(s) \in Seq(Job) /\ Len(Tail(s)) = Len(s) - 1
         /\ \A n \in 1 .. Len(Tail(s)) :
              n + 1 \in 1 .. Len(s) /\ Tail(s)[n] = s[n + 1]
         /\ First(Tail(s)) \in Job \cup {None}
<1>1. s # <<>>
  BY NoneAssumption DEF First
<1>2. s[1] = j /\ Head(s) = j
  BY <1>1 DEF First
<1>3. Tail(s) \in Seq(Job) /\ Len(Tail(s)) = Len(s) - 1 /\ Len(s) \in Nat /\ Len(s) >= 1
  BY <1>1
<1>4. \A n \in 1 .. Len(Tail(s)) : n + 1 \in 1 .. Len(s) /\ Tail(s)[n] = s[n + 1]
  BY <1>1, <1>3
<1>5. First(Tail(s)) \in Job \cup {None}
  BY <1>3 DEF First
<1> QED BY <1>1, <1>2, <1>3, <1>4, <1>5

\* A chain without jobs is the empty one.
LEMMA EmptyChain ==
  ASSUME NEW s \in Seq(Job), Len(s) = 0
  PROVE  s = <<>>
OBVIOUS

\* Nothing runs before the first job is enqueued.
LEMMA InitInv == Init => Inv
<1> SUFFICES ASSUME Init PROVE Inv
  OBVIOUS
<1> USE NoneAssumption, DepthAssumption DEF Init
<1>1. TypeOK
  <2>1. \A l \in Lane : chain[l] \in Seq(Job)
    OBVIOUS
  <2>2. 0 \in 0 .. MaxDepth
    OBVIOUS
  <2> QED BY <2>1, <2>2
<1>2. \A l \in Lane : LaneOK(l)
  BY DEF LaneOK, First
<1>3. \A u \in User : UserOK(u)
  BY DEF UserOK
<1> QED BY <1>1, <1>2, <1>3 DEF Inv, Lanes

\* The lane a job is accepted on belongs to no other user, and holds only
\* jobs of this one.
LEMMA LaneIsOwn ==
  ASSUME Inv, NEW j \in Job, NEW l \in Lane, LaneFor(Owner[j], l)
  PROVE  /\ \A u \in User : laneOf[u] = l => u = Owner[j]
         /\ \A n \in 1 .. Len(chain[l]) : Owner[chain[l][n]] = Owner[j]
<1> USE NoneAssumption, OwnerAssumption DEF Inv, Lanes
<1>1. Owner[j] \in User
  OBVIOUS
<1>2. CASE laneOf[Owner[j]] # None
  <2>1. l = laneOf[Owner[j]] /\ UserOK(Owner[j])
    BY <1>1, <1>2 DEF LaneFor
  <2>2. \A n \in 1 .. Len(chain[l]) : Owner[chain[l][n]] = Owner[j]
    BY <2>1, <1>2 DEF UserOK
  <2>3. chain[l] # <<>> /\ 1 \in 1 .. Len(chain[l])
    BY <2>1, <1>2 DEF UserOK
  <2>4. ASSUME NEW u \in User, laneOf[u] = l PROVE u = Owner[j]
    <3>1. UserOK(u) /\ laneOf[u] # None
      BY <2>4
    <3>2. Owner[chain[l][1]] = u
      BY <3>1, <2>3, <2>4 DEF UserOK
    <3> QED BY <3>2, <2>2, <2>3
  <2> QED BY <2>2, <2>4
<1>3. CASE laneOf[Owner[j]] = None
  BY <1>3 DEF LaneFor, Fresh
<1> QED BY <1>2, <1>3

(***************************************************************************)
(* enqueue.                                                                 *)
(***************************************************************************)
\* enqueue keeps the invariant, whether the lane is new or in use.
LEMMA AcceptInv ==
  ASSUME Inv, NEW j \in Job, EnqueueAccepts(j)
  PROVE  Inv'
<1> USE NoneAssumption, DepthAssumption, OwnerAssumption
<1>1. Owner[j] \in User /\ phase[j] = "new"
  BY DEF EnqueueAccepts
<1>2. PICK l \in Lane :
        /\ LaneFor(Owner[j], l)
        /\ ~ Full(l)
        /\ laneOf' = [laneOf EXCEPT ![Owner[j]] = l]
        /\ depth' = [depth EXCEPT ![l] = @ + 1]
        /\ chain' = [chain EXCEPT ![l] = Append(@, j)]
        /\ active' = [active EXCEPT ![l] = First(Append(chain[l], j))]
  BY DEF EnqueueAccepts
<1>3. phase' = [phase EXCEPT ![j] = "accepted"] /\ UNCHANGED aborted
  BY DEF EnqueueAccepts
<1>4. chain[l] \in Seq(Job) /\ Len(chain[l]) \in Nat /\ LaneOK(l)
  BY DEF Inv, Lanes
<1>5. /\ chain'[l] \in Seq(Job) /\ Len(chain'[l]) = Len(chain[l]) + 1
      /\ chain'[l] # <<>> /\ chain'[l][Len(chain[l]) + 1] = j
      /\ \A n \in 1 .. Len(chain[l]) : chain'[l][n] = chain[l][n]
      /\ First(chain'[l]) \in Job
  <2>1. chain'[l] = Append(chain[l], j)
    BY <1>2 DEF Inv
  <2> QED BY <2>1, <1>4, Chained
<1>6. depth[l] + 1 \in 0 .. MaxDepth /\ depth'[l] = depth[l] + 1
  BY <1>2 DEF Inv, Full
<1>7. active'[l] = First(chain'[l])
  BY <1>2 DEF Inv
<1>8. TypeOK'
  <2>1. laneOf' \in [User -> Lane \cup {None}]
    BY <1>1, <1>2 DEF Inv
  <2>2. depth' \in [Lane -> 0 .. MaxDepth]
    BY <1>2, <1>6 DEF Inv
  <2>3. chain' \in [Lane -> Seq(Job)]
    BY <1>2, <1>5 DEF Inv
  <2>4. active' \in [Lane -> Job \cup {None}]
    BY <1>2, <1>5, <1>7 DEF Inv
  <2>5. phase' \in [Job -> {"new", "accepted", "ended", "refused"}] /\ aborted' \subseteq Job
    BY <1>3 DEF Inv
  <2> QED BY <2>1, <2>2, <2>3, <2>4, <2>5
<1>9. LaneOK(l)'
  <2>1. depth'[l] = Len(chain'[l])
    BY <1>4, <1>5, <1>6 DEF LaneOK
  <2>2. ASSUME NEW n \in 1 .. Len(chain'[l])
        PROVE  laneOf'[Owner[chain'[l][n]]] = l /\ phase'[chain'[l][n]] = "accepted"
    <3>1. CASE n = Len(chain[l]) + 1
      BY <3>1, <1>1, <1>2, <1>3, <1>5 DEF Inv
    <3>2. CASE n \in 1 .. Len(chain[l])
      <4>1. chain'[l][n] = chain[l][n] /\ chain[l][n] \in Job
        BY <3>2, <1>4, <1>5
      <4>2. laneOf[Owner[chain[l][n]]] = l /\ phase[chain[l][n]] = "accepted"
        BY <3>2, <1>4 DEF LaneOK
      <4>3. Owner[chain[l][n]] \in User
        BY <4>1
      <4> QED BY <4>1, <4>2, <4>3, <1>2, <1>3 DEF Inv
    <3> QED BY <3>1, <3>2, <1>4, <1>5
  <2>3. ASSUME NEW a \in 1 .. Len(chain'[l]), NEW b \in 1 .. Len(chain'[l]),
               chain'[l][a] = chain'[l][b]
        PROVE  a = b
    <3>1. \A n \in 1 .. Len(chain[l]) : chain'[l][n] = chain[l][n] /\ chain[l][n] # j
      BY <1>1, <1>4, <1>5 DEF LaneOK
    <3>2. \A n \in 1 .. Len(chain'[l]) :
            n \in 1 .. Len(chain[l]) \/ (n = Len(chain[l]) + 1 /\ chain'[l][n] = j)
      BY <1>4, <1>5
    <3> QED BY <3>1, <3>2, <2>3, <1>4 DEF LaneOK
  <2> QED BY <2>1, <2>2, <2>3, <1>7 DEF LaneOK
<1>10. ASSUME NEW k \in Lane, k # l PROVE LaneOK(k)'
  <2>1. chain'[k] = chain[k] /\ depth'[k] = depth[k] /\ active'[k] = active[k]
    BY <1>2, <1>10 DEF Inv
  <2>2. LaneOK(k) /\ chain[k] \in Seq(Job)
    BY DEF Inv, Lanes
  <2>3. ASSUME NEW n \in 1 .. Len(chain[k])
        PROVE  laneOf'[Owner[chain[k][n]]] = k /\ phase'[chain[k][n]] = "accepted"
    <3>1. chain[k][n] \in Job /\ Owner[chain[k][n]] \in User
      BY <2>2
    <3>2. laneOf[Owner[chain[k][n]]] = k /\ phase[chain[k][n]] = "accepted"
      BY <2>2 DEF LaneOK
    <3>3. Owner[chain[k][n]] # Owner[j]
      BY <3>2, <1>2, <1>10 DEF LaneFor
    <3> QED BY <3>1, <3>2, <3>3, <1>2, <1>3 DEF Inv
  <2> QED BY <2>1, <2>2, <2>3 DEF LaneOK
<1>11. ASSUME NEW u \in User PROVE UserOK(u)'
  <2>0. /\ \A v \in User : laneOf[v] = l => v = Owner[j]
        /\ \A n \in 1 .. Len(chain[l]) : Owner[chain[l][n]] = Owner[j]
    BY <1>2, LaneIsOwn
  <2>1. CASE u = Owner[j]
    <3>1. laneOf'[u] = l
      BY <2>1, <1>2 DEF Inv
    <3>2. \A n \in 1 .. Len(chain'[l]) : Owner[chain'[l][n]] = u
      BY <2>0, <2>1, <1>4, <1>5
    <3> QED BY <3>1, <3>2, <1>5 DEF UserOK
  <2>2. CASE u # Owner[j]
    <3>1. laneOf'[u] = laneOf[u] /\ laneOf[u] # l
      BY <2>0, <2>2, <1>2 DEF Inv
    <3>2. laneOf[u] # None => laneOf[u] \in Lane /\ chain'[laneOf[u]] = chain[laneOf[u]]
      BY <3>1, <1>2 DEF Inv
    <3>3. UserOK(u)
      BY DEF Inv, Lanes
    <3> QED BY <3>1, <3>2, <3>3 DEF UserOK
  <2> QED BY <2>1, <2>2
<1> QED BY <1>8, <1>9, <1>10, <1>11 DEF Inv, Lanes

\* A refused job is on no chain.
LEMMA RefuseInv ==
  ASSUME Inv, NEW j \in Job, EnqueueRefuses(j)
  PROVE  Inv'
<1> USE NoneAssumption, OwnerAssumption
<1>1. /\ phase[j] = "new" /\ phase' = [phase EXCEPT ![j] = "refused"]
      /\ UNCHANGED <<laneOf, depth, chain, active, aborted>>
  BY DEF EnqueueRefuses
<1>2. TypeOK'
  BY <1>1 DEF Inv
<1>3. ASSUME NEW l \in Lane PROVE LaneOK(l)'
  <2>1. LaneOK(l) /\ chain[l] \in Seq(Job)
    BY DEF Inv, Lanes
  <2>2. \A n \in 1 .. Len(chain[l]) : phase'[chain[l][n]] = "accepted"
    BY <2>1, <1>1 DEF Inv, LaneOK
  <2> QED BY <2>1, <2>2, <1>1 DEF LaneOK
<1>4. ASSUME NEW u \in User PROVE UserOK(u)'
  BY <1>1 DEF UserOK, Inv, Lanes
<1> QED BY <1>2, <1>3, <1>4 DEF Inv, Lanes

(***************************************************************************)
(* The end of a job.                                                        *)
(***************************************************************************)
\* The finally block keeps the invariant, whether or not the lane is dropped.
LEMMA EndInv ==
  ASSUME Inv, NEW j \in Job, End(j)
  PROVE  Inv'
<1> USE NoneAssumption, DepthAssumption, OwnerAssumption
<1>1. PICK l \in Lane :
        /\ active[l] = j
        /\ depth' = [depth EXCEPT ![l] = @ - 1]
        /\ laneOf' = [laneOf EXCEPT ![Owner[j]] = IF Emptied(l) THEN None ELSE @]
        /\ chain' = [chain EXCEPT ![l] = Tail(@)]
        /\ active' = [active EXCEPT ![l] = NextOn(l)]
  BY DEF End
<1>2. phase' = [phase EXCEPT ![j] = "ended"] /\ UNCHANGED aborted
  BY DEF End
<1>3. chain[l] \in Seq(Job) /\ LaneOK(l) /\ First(chain[l]) = j /\ Owner[j] \in User
  BY <1>1 DEF Inv, Lanes, LaneOK
<1>4. /\ chain[l] # <<>> /\ Len(chain[l]) \in Nat /\ Len(chain[l]) >= 1
      /\ chain[l][1] = j
      /\ Tail(chain[l]) \in Seq(Job) /\ Len(Tail(chain[l])) = Len(chain[l]) - 1
      /\ \A n \in 1 .. Len(Tail(chain[l])) :
           n + 1 \in 1 .. Len(chain[l]) /\ Tail(chain[l])[n] = chain[l][n + 1]
      /\ First(Tail(chain[l])) \in Job \cup {None}
  BY <1>3, Started
<1>5. chain'[l] = Tail(chain[l]) /\ active'[l] = First(chain'[l])
  BY <1>1 DEF Inv, NextOn
<1>6. depth'[l] = Len(chain'[l]) /\ depth'[l] \in 0 .. MaxDepth
  BY <1>1, <1>3, <1>4, <1>5 DEF Inv, LaneOK
<1>7. laneOf[Owner[j]] = l
  BY <1>3, <1>4 DEF LaneOK
<1>8. TypeOK'
  <2>1. laneOf' \in [User -> Lane \cup {None}]
    BY <1>1 DEF Inv
  <2>2. depth' \in [Lane -> 0 .. MaxDepth]
    BY <1>1, <1>6 DEF Inv
  <2>3. chain' \in [Lane -> Seq(Job)]
    BY <1>1, <1>4 DEF Inv
  <2>4. active' \in [Lane -> Job \cup {None}]
    BY <1>1, <1>4 DEF Inv, NextOn
  <2>5. phase' \in [Job -> {"new", "accepted", "ended", "refused"}] /\ aborted' \subseteq Job
    BY <1>2 DEF Inv
  <2> QED BY <2>1, <2>2, <2>3, <2>4, <2>5
<1>9. LaneOK(l)'
  <2>1. ASSUME NEW n \in 1 .. Len(chain'[l])
        PROVE  /\ n + 1 \in 1 .. Len(chain[l]) /\ chain'[l][n] = chain[l][n + 1]
               /\ chain[l][n + 1] \in Job /\ chain[l][n + 1] # j
    <3>1. n + 1 \in 1 .. Len(chain[l]) /\ chain'[l][n] = chain[l][n + 1]
      BY <1>4, <1>5
    <3>2. 1 \in 1 .. Len(chain[l]) /\ n + 1 # 1
      BY <1>4
    <3>3. chain[l][n + 1] # j
      BY <3>1, <3>2, <1>3, <1>4 DEF LaneOK
    <3> QED BY <3>1, <3>3, <1>3
  <2>2. ASSUME NEW n \in 1 .. Len(chain'[l])
        PROVE  laneOf'[Owner[chain'[l][n]]] = l /\ phase'[chain'[l][n]] = "accepted"
    <3>1. laneOf[Owner[chain'[l][n]]] = l /\ phase[chain'[l][n]] = "accepted"
      BY <2>1, <1>3 DEF LaneOK
    <3>2. depth[l] # 1
      BY <1>3, <1>4, <1>5 DEF LaneOK
    <3>3. laneOf' = laneOf
      BY <3>2, <1>1, <1>3 DEF Inv, Emptied
    <3>4. chain'[l][n] \in Job /\ chain'[l][n] # j
      BY <2>1
    <3> QED BY <3>1, <3>3, <3>4, <1>2 DEF Inv
  <2>3. ASSUME NEW a \in 1 .. Len(chain'[l]), NEW b \in 1 .. Len(chain'[l]),
               chain'[l][a] = chain'[l][b]
        PROVE  a = b
    <3>1. chain[l][a + 1] = chain[l][b + 1]
      BY <2>1, <2>3
    <3>2. a + 1 \in 1 .. Len(chain[l]) /\ b + 1 \in 1 .. Len(chain[l])
      BY <2>1
    <3>3. a + 1 = b + 1
      BY <3>1, <3>2, <1>3 DEF LaneOK
    <3>4. Len(chain'[l]) \in Nat
      BY <1>4, <1>5
    <3> QED BY <3>3, <3>4
  <2> QED BY <2>2, <2>3, <1>5, <1>6 DEF LaneOK
<1>10. ASSUME NEW k \in Lane, k # l PROVE LaneOK(k)'
  <2>1. chain'[k] = chain[k] /\ depth'[k] = depth[k] /\ active'[k] = active[k]
    BY <1>1, <1>10 DEF Inv
  <2>2. LaneOK(k) /\ chain[k] \in Seq(Job)
    BY DEF Inv, Lanes
  <2>3. ASSUME NEW n \in 1 .. Len(chain[k])
        PROVE  laneOf'[Owner[chain[k][n]]] = k /\ phase'[chain[k][n]] = "accepted"
    <3>1. chain[k][n] \in Job /\ Owner[chain[k][n]] \in User
      BY <2>2
    <3>2. laneOf[Owner[chain[k][n]]] = k /\ phase[chain[k][n]] = "accepted"
      BY <2>2 DEF LaneOK
    <3>3. Owner[chain[k][n]] # Owner[j]
      BY <3>2, <1>7, <1>10
    <3> QED BY <3>1, <3>2, <3>3, <1>1, <1>2 DEF Inv
  <2> QED BY <2>1, <2>2, <2>3 DEF LaneOK
<1>11. ASSUME NEW u \in User PROVE UserOK(u)'
  <2>1. CASE u = Owner[j]
    <3>1. CASE Emptied(l)
      BY <3>1, <2>1, <1>1 DEF Inv, UserOK
    <3>2. CASE ~ Emptied(l)
      <4>1. laneOf'[u] = l
        BY <3>2, <2>1, <1>1, <1>7 DEF Inv
      <4>2. depth'[l] # 0
        BY <3>2, <1>1, <1>6 DEF Emptied, Inv
      <4>3. chain'[l] # <<>>
        BY <4>2, <1>6
      <4>4. UserOK(u)
        BY DEF Inv, Lanes
      <4>5. \A n \in 1 .. Len(chain[l]) : Owner[chain[l][n]] = u
        BY <4>4, <2>1, <1>7 DEF UserOK
      <4>6. \A n \in 1 .. Len(chain'[l]) : Owner[chain'[l][n]] = u
        BY <4>5, <1>4, <1>5
      <4> QED BY <4>1, <4>3, <4>6 DEF UserOK
    <3> QED BY <3>1, <3>2
  <2>2. CASE u # Owner[j]
    <3>1. UserOK(u) /\ laneOf'[u] = laneOf[u]
      BY <2>2, <1>1 DEF Inv, Lanes
    <3>2. laneOf[u] # l
      BY <2>2, <3>1, <1>4 DEF UserOK
    <3>3. laneOf[u] # None => laneOf[u] \in Lane /\ chain'[laneOf[u]] = chain[laneOf[u]]
      BY <3>2, <1>1 DEF Inv
    <3> QED BY <3>1, <3>3 DEF UserOK
  <2> QED BY <2>1, <2>2
<1> QED BY <1>8, <1>9, <1>10, <1>11 DEF Inv, Lanes

\* Raising an abort signal disturbs nothing the invariant speaks of.
LEMMA AbortInv ==
  ASSUME Inv, UNCHANGED <<laneOf, depth, chain, active, phase>>, aborted' \subseteq Job
  PROVE  Inv'
<1>1. TypeOK'
  BY DEF Inv
<1>2. ASSUME NEW l \in Lane PROVE LaneOK(l)'
  BY DEF Inv, Lanes, LaneOK
<1>3. ASSUME NEW u \in User PROVE UserOK(u)'
  BY DEF Inv, Lanes, UserOK
<1> QED BY <1>1, <1>2, <1>3 DEF Inv, Lanes

\* Every step of the queue keeps the invariant.
LEMMA StepInv == Inv /\ [Next]_vars => Inv'
<1> SUFFICES ASSUME Inv, [Next]_vars PROVE Inv'
  OBVIOUS
<1>1. ASSUME NEW j \in Job, EnqueueAccepts(j) PROVE Inv'
  BY <1>1, AcceptInv
<1>2. ASSUME NEW j \in Job, EnqueueRefuses(j) PROVE Inv'
  BY <1>2, RefuseInv
<1>3. ASSUME NEW j \in Job, End(j) PROVE Inv'
  BY <1>3, EndInv
<1>4. ASSUME NEW j \in Job, Timeout(j) PROVE Inv'
  BY <1>4, AbortInv DEF Inv, Timeout
<1>5. ASSUME NEW j \in Job, Cancel(j) PROVE Inv'
  BY <1>5, AbortInv DEF Inv, Cancel
<1>6. CASE DrainAborts
  BY <1>6, AbortInv DEF Inv, DrainAborts
<1>7. CASE UNCHANGED vars
  BY <1>7, AbortInv DEF Inv, vars
<1> QED BY <1>1, <1>2, <1>3, <1>4, <1>5, <1>6, <1>7 DEF Next

\* The inductive invariant holds in every reachable state.
THEOREM Invariance == Spec => []Inv
<1> QED BY InitInv, StepInv, PTL DEF Spec

\* Lane bookkeeping stays within its types; in particular no lane ever holds
\* more than maxDepthPerUser jobs.
THEOREM TypeCorrect == Spec => []TypeOK
<1>1. Inv => TypeOK
  BY DEF Inv
<1> QED BY <1>1, Invariance, PTL

\* A running job is the head of the lane the map holds for its owner.
LEMMA RunningJob ==
  ASSUME Inv, NEW j \in Job, Running(j)
  PROVE  /\ laneOf[Owner[j]] \in Lane
         /\ active[laneOf[Owner[j]]] = j
         /\ chain[laneOf[Owner[j]]] # <<>> /\ Head(chain[laneOf[Owner[j]]]) = j
<1> USE NoneAssumption
<1>1. PICK l \in Lane : active[l] = j
  BY DEF Running
<1>2. chain[l] \in Seq(Job) /\ LaneOK(l) /\ First(chain[l]) = j
  BY <1>1 DEF Inv, Lanes, LaneOK
<1>3. chain[l] # <<>> /\ chain[l][1] = j /\ Head(chain[l]) = j /\ 1 \in 1 .. Len(chain[l])
  BY <1>2, Started
<1>4. laneOf[Owner[j]] = l
  BY <1>2, <1>3 DEF LaneOK
<1> QED BY <1>1, <1>3, <1>4

\* A running job can always be found through the map: cancel and drain reach
\* it, however lanes have been dropped and created anew since it was queued.
THEOREM CancelReaches == Spec => []Reachable
<1>1. Inv => Reachable
  BY RunningJob, NoneAssumption DEF Reachable, Cancelled
<1> QED BY <1>1, Invariance, PTL

\* The queue's promise: one running job per user.
THEOREM MutualExclusion == Spec => []OneAtATime
<1>1. Inv => OneAtATime
  BY RunningJob DEF OneAtATime
<1> QED BY <1>1, Invariance, PTL

(***************************************************************************)
(* What the map holds.                                                      *)
(***************************************************************************)
\* No accepted job is lost: it is on the chain of a lane until it has ended.
Placed ==
  \A j \in Job :
    phase[j] = "accepted" => \E l \in Lane : \E n \in 1 .. Len(chain[l]) : chain[l][n] = j

LEMMA StepPlaced ==
  ASSUME Inv, Placed, [Next]_vars
  PROVE  Placed'
<1> USE NoneAssumption
<1> SUFFICES ASSUME NEW i \in Job, phase'[i] = "accepted"
             PROVE  \E l \in Lane : \E n \in 1 .. Len(chain'[l]) : chain'[l][n] = i
  BY DEF Placed
<1>1. ASSUME NEW j \in Job, EnqueueAccepts(j)
      PROVE  \E l \in Lane : \E n \in 1 .. Len(chain'[l]) : chain'[l][n] = i
  <2>1. PICK l \in Lane : chain' = [chain EXCEPT ![l] = Append(@, j)]
    BY <1>1 DEF EnqueueAccepts
  <2>2. \A k \in Lane : chain[k] \in Seq(Job) /\ Len(chain[k]) \in Nat
    BY DEF Inv
  <2>3. /\ Len(chain'[l]) = Len(chain[l]) + 1 /\ chain'[l][Len(chain[l]) + 1] = j
        /\ \A n \in 1 .. Len(chain[l]) : chain'[l][n] = chain[l][n]
        /\ \A k \in Lane : k # l => chain'[k] = chain[k]
    BY <2>1, <2>2, Chained DEF Inv
  <2>4. CASE i = j
    BY <2>2, <2>3, <2>4
  <2>5. CASE i # j
    <3>1. phase[i] = "accepted"
      BY <1>1, <2>5 DEF EnqueueAccepts, Inv
    <3>2. PICK k \in Lane : \E n \in 1 .. Len(chain[k]) : chain[k][n] = i
      BY <3>1 DEF Placed
    <3> QED BY <2>2, <2>3, <3>2
  <2> QED BY <2>4, <2>5
<1>2. ASSUME NEW j \in Job, End(j)
      PROVE  \E l \in Lane : \E n \in 1 .. Len(chain'[l]) : chain'[l][n] = i
  <2>1. PICK l \in Lane : active[l] = j /\ chain' = [chain EXCEPT ![l] = Tail(@)]
    BY <1>2 DEF End
  <2>2. chain[l] \in Seq(Job) /\ First(chain[l]) = j
    BY <2>1 DEF Inv, Lanes, LaneOK
  <2>3. /\ Len(chain[l]) \in Nat /\ chain[l][1] = j
        /\ chain'[l] \in Seq(Job) /\ Len(chain'[l]) = Len(chain[l]) - 1
        /\ \A n \in 1 .. Len(chain'[l]) : chain'[l][n] = chain[l][n + 1]
        /\ \A k \in Lane : k # l => chain'[k] = chain[k]
    <3>1. chain'[l] = Tail(chain[l]) /\ \A k \in Lane : k # l => chain'[k] = chain[k]
      BY <2>1 DEF Inv
    <3> QED BY <2>2, <3>1, Started
  <2>4. i # j /\ phase[i] = "accepted"
    BY <1>2 DEF End, Inv
  <2>5. PICK k \in Lane : \E n \in 1 .. Len(chain[k]) : chain[k][n] = i
    BY <2>4 DEF Placed
  <2>6. CASE k # l
    BY <2>3, <2>5, <2>6
  <2>7. CASE k = l
    <3>0. PICK n \in 1 .. Len(chain[k]) : chain[k][n] = i
      BY <2>5
    <3>1. n # 1 /\ n \in Nat /\ n <= Len(chain[l])
      BY <2>3, <2>4, <3>0, <2>7
    <3>2. n - 1 \in 1 .. Len(chain'[l]) /\ (n - 1) + 1 = n
      BY <2>3, <2>7, <3>1
    <3> QED BY <2>3, <2>7, <3>0, <3>2
  <2> QED BY <2>6, <2>7
<1>3. CASE UNCHANGED chain /\ (phase'[i] = "accepted" => phase[i] = "accepted")
  BY <1>3 DEF Placed
<1>4. ASSUME NEW j \in Job, EnqueueRefuses(j) PROVE phase[i] = "accepted" /\ UNCHANGED chain
  BY <1>4 DEF EnqueueRefuses, Inv
<1> QED BY <1>1, <1>2, <1>3, <1>4 DEF Next, Timeout, Cancel, DrainAborts, vars

\* A lane is in the map exactly as long as it has work of its user: none is leaked when
\* the user goes quiet, none is dropped with accepted jobs on it.
THEOREM Released == Spec => []LanesReleased
<1>1. Init => Placed
  BY DEF Init, Placed
<1>2. Inv /\ Placed => LanesReleased
  <2> SUFFICES ASSUME Inv, Placed, NEW u \in User
               PROVE  laneOf[u] # None <=> \E j \in Job : Owner[j] = u /\ phase[j] = "accepted"
    BY DEF LanesReleased
  <2> USE NoneAssumption, OwnerAssumption
  <2>1. ASSUME laneOf[u] # None
        PROVE  \E j \in Job : Owner[j] = u /\ phase[j] = "accepted"
    <3>1. PICK l \in Lane : l = laneOf[u]
      BY <2>1 DEF Inv
    <3>2. chain[l] \in Seq(Job) /\ chain[l] # <<>> /\ LaneOK(l)
          /\ \A n \in 1 .. Len(chain[l]) : Owner[chain[l][n]] = u
      BY <2>1, <3>1 DEF Inv, Lanes, UserOK
    <3>3. 1 \in 1 .. Len(chain[l]) /\ chain[l][1] \in Job
      BY <3>2
    <3> QED BY <3>2, <3>3 DEF LaneOK
  <2>2. ASSUME NEW j \in Job, Owner[j] = u, phase[j] = "accepted"
        PROVE  laneOf[u] # None
    <3>1. PICK l \in Lane : \E n \in 1 .. Len(chain[l]) : chain[l][n] = j
      BY <2>2 DEF Placed
    <3> QED BY <2>2, <3>1 DEF Inv, Lanes, LaneOK
  <2> QED BY <2>1, <2>2
<1> QED BY <1>1, <1>2, InitInv, StepInv, StepPlaced, PTL DEF Spec

(***************************************************************************)
(* Which jobs run, before and after a step.                                 *)
(***************************************************************************)
\* A lane that runs a job is the one of the job's owner, and all of its jobs are
\* that owner's.
LEMMA LaneOfRunning ==
  ASSUME Inv, NEW j \in Job, NEW l \in Lane, active[l] = j
  PROVE  /\ laneOf[Owner[j]] = l /\ chain[l] \in Seq(Job) /\ First(chain[l]) = j
         /\ \A n \in 1 .. Len(chain[l]) : Owner[chain[l][n]] = Owner[j]
<1> USE NoneAssumption, OwnerAssumption
<1>1. chain[l] \in Seq(Job) /\ LaneOK(l) /\ First(chain[l]) = j
  BY DEF Inv, Lanes, LaneOK
<1>2. chain[l][1] = j /\ 1 \in 1 .. Len(chain[l])
  BY <1>1, Started
<1>3. laneOf[Owner[j]] = l
  BY <1>1, <1>2 DEF LaneOK
<1>4. UserOK(Owner[j])
  BY DEF Inv, Lanes
<1> QED BY <1>1, <1>3, <1>4 DEF UserOK

\* enqueue starts the new job or none.
LEMMA AcceptRunning ==
  ASSUME Inv, NEW j \in Job, EnqueueAccepts(j)
  PROVE  /\ ~Running(j)
         /\ \A k \in Job : k # j => (Running(k)' <=> Running(k))
<1> USE NoneAssumption
<1>1. PICK l \in Lane : active' = [active EXCEPT ![l] = First(Append(chain[l], j))]
  BY DEF EnqueueAccepts
<1>2. phase[j] = "new"
  BY DEF EnqueueAccepts
<1>3. chain[l] \in Seq(Job) /\ active[l] = First(chain[l])
  BY DEF Inv, Lanes, LaneOK
<1>4. First(Append(chain[l], j)) = IF active[l] = None THEN j ELSE active[l]
  <2>1. Append(chain[l], j) # <<>> /\ Append(chain[l], j)[1] = Head(Append(chain[l], j))
    <3> DEFINE t == Append(chain[l], j)
    <3>1. t \in Seq(Job) /\ t # <<>>
      BY <1>3, Chained
    <3> HIDE DEF t
    <3>2. t[1] = Head(t)
      BY <3>1
    <3> QED BY <3>1, <3>2 DEF t
  <2>2. CASE chain[l] = <<>>
    BY <1>3, <2>1, <2>2 DEF First
  <2>3. CASE chain[l] # <<>>
    <3>1. Head(chain[l]) \in Job /\ active[l] = Head(chain[l]) /\ chain[l][1] = Head(chain[l])
      BY <1>3, <2>3 DEF First
    <3>2. Append(chain[l], j)[1] = chain[l][1]
      BY <1>3, <2>3
    <3> QED BY <2>1, <3>1, <3>2 DEF First
  <2> QED BY <2>2, <2>3
<1>5. \A m \in Lane : active'[m] = IF m = l /\ active[l] = None THEN j ELSE active[m]
  BY <1>1, <1>4 DEF Inv
<1>6. ~Running(j)
  <2> SUFFICES ASSUME NEW m \in Lane, active[m] = j PROVE FALSE
    BY DEF Running
  <2>1. chain[m] \in Seq(Job) /\ LaneOK(m) /\ First(chain[m]) = j
    BY DEF Inv, Lanes, LaneOK
  <2>2. chain[m][1] = j /\ 1 \in 1 .. Len(chain[m])
    BY <2>1, Started
  <2> QED BY <1>2, <2>1, <2>2 DEF LaneOK
<1> QED BY <1>5, <1>6 DEF Running

\* The end of a job starts the next one of its owner or none.
LEMMA EndRunning ==
  ASSUME Inv, NEW j \in Job, End(j)
  PROVE  /\ Running(j)
         /\ \E next \in Job \cup {None} :
              /\ next \in Job => next # j /\ Owner[next] = Owner[j] /\ ~Running(next)
              /\ \A k \in Job : Running(k)' <=> k = next \/ (Running(k) /\ k # j)
<1> USE NoneAssumption
<1>1. PICK l \in Lane : /\ active[l] = j
                        /\ active' = [active EXCEPT ![l] = NextOn(l)]
  BY DEF End
<1>2. /\ laneOf[Owner[j]] = l /\ chain[l] \in Seq(Job) /\ First(chain[l]) = j
      /\ \A n \in 1 .. Len(chain[l]) : Owner[chain[l][n]] = Owner[j]
  BY <1>1, LaneOfRunning
<1>3. /\ chain[l][1] = j /\ Len(chain[l]) \in Nat /\ Len(chain[l]) >= 1
      /\ Tail(chain[l]) \in Seq(Job) /\ Len(Tail(chain[l])) = Len(chain[l]) - 1
      /\ \A n \in 1 .. Len(Tail(chain[l])) :
           n + 1 \in 1 .. Len(chain[l]) /\ Tail(chain[l])[n] = chain[l][n + 1]
      /\ First(Tail(chain[l])) \in Job \cup {None}
  BY <1>2, Started
<1> DEFINE next == First(Tail(chain[l]))
<1>4. \A m \in Lane : active'[m] = IF m = l THEN next ELSE active[m]
  BY <1>1 DEF Inv, NextOn
<1>5. ASSUME next \in Job PROVE next # j /\ Owner[next] = Owner[j]
  <2>1. Tail(chain[l]) # <<>> /\ next = Tail(chain[l])[1]
    BY <1>3, <1>5 DEF First
  <2>2. 1 \in 1 .. Len(Tail(chain[l]))
    BY <1>3, <2>1
  <2>3. 2 \in 1 .. Len(chain[l]) /\ next = chain[l][2]
    BY <1>3, <2>1, <2>2
  <2>4. LaneOK(l)
    BY DEF Inv, Lanes
  <2>5. chain[l][2] # chain[l][1]
    BY <1>3, <2>3, <2>4 DEF LaneOK
  <2> QED BY <1>2, <1>3, <2>3, <2>5
<1>6. ASSUME next \in Job, Running(next) PROVE FALSE
  <2>1. PICK m \in Lane : active[m] = next
    BY <1>6 DEF Running
  <2>2. laneOf[Owner[next]] = m
    BY <1>6, <2>1, LaneOfRunning
  <2> QED BY <1>1, <1>2, <1>5, <1>6, <2>1, <2>2
<1>7. ASSUME NEW k \in Job PROVE Running(k)' <=> k = next \/ (Running(k) /\ k # j)
  <2>1. ASSUME NEW m \in Lane, m # l PROVE active[m] # j
    BY <1>2, <2>1, LaneOfRunning
  <2> HIDE DEF next
  <2> QED BY <1>1, <1>4, <2>1 DEF Running
<1>8. Running(j)
  BY <1>1 DEF Running
<1> HIDE DEF next
<1>9. next \in Job \cup {None}
  BY <1>3 DEF next
<1> QED BY <1>5, <1>6, <1>7, <1>8, <1>9

(***************************************************************************)
(* The lanes implement JobQueue, with queueOf for its queue.                *)
(***************************************************************************)
\* The lane map starts with an empty queue for every user.
LEMMA InitRefines == Init => Promised!Init
<1> SUFFICES ASSUME Init PROVE Promised!Init
  OBVIOUS
<1>1. queueOf = [u \in User |-> <<>>]
  BY DEF Init, queueOf
<1> QED BY <1>1 DEF Init, Promised!Init

\* A step that leaves the lanes alone leaves the queues alone.
LEMMA SameQueues ==
  ASSUME UNCHANGED <<laneOf, chain>>
  PROVE  queueOf' = queueOf
BY DEF queueOf

\* enqueue appends the job to its owner's queue and to no other.
LEMMA AcceptRefines ==
  ASSUME Inv, NEW j \in Job, EnqueueAccepts(j)
  PROVE  Promised!Accept(j)
<1> USE NoneAssumption, OwnerAssumption, DepthAssumption
<1>1. Owner[j] \in User /\ phase[j] = "new" /\ phase' = [phase EXCEPT ![j] = "accepted"]
  BY DEF EnqueueAccepts
<1>2. PICK l \in Lane :
        /\ LaneFor(Owner[j], l) /\ ~ Full(l)
        /\ laneOf' = [laneOf EXCEPT ![Owner[j]] = l]
        /\ chain' = [chain EXCEPT ![l] = Append(@, j)]
  BY DEF EnqueueAccepts
<1>3. chain[l] = queueOf[Owner[j]]
  BY <1>1, <1>2 DEF queueOf, LaneFor, Fresh
<1>4. Len(chain[l]) < MaxDepth
  <2>1. depth[l] = Len(chain[l]) /\ depth[l] \in 0 .. MaxDepth
    BY DEF Inv, Lanes, LaneOK
  <2> QED BY <2>1, <1>2 DEF Full
<1>5. ASSUME NEW u \in User
      PROVE  queueOf'[u] = IF u = Owner[j] THEN Append(chain[l], j) ELSE queueOf[u]
  <2>1. queueOf'[u] = IF laneOf'[u] = None THEN <<>> ELSE chain'[laneOf'[u]]
    BY DEF queueOf
  <2>2. CASE u = Owner[j]
    BY <2>1, <2>2, <1>2 DEF Inv
  <2>3. CASE u # Owner[j]
    <3>1. laneOf'[u] = laneOf[u] /\ laneOf[u] # l
      BY <2>3, <1>2, LaneIsOwn DEF Inv
    <3>2. laneOf[u] # None => chain'[laneOf[u]] = chain[laneOf[u]]
      BY <3>1, <1>2 DEF Inv
    <3> QED BY <2>1, <2>3, <3>1, <3>2 DEF queueOf
  <2> QED BY <2>2, <2>3
<1>6. queueOf' = [queueOf EXCEPT ![Owner[j]] = Append(@, j)]
  <2>1. queueOf' = [u \in User |-> queueOf'[u]]
    BY DEF queueOf
  <2>2. queueOf = [u \in User |-> queueOf[u]]
    BY DEF queueOf
  <2> QED BY <2>1, <2>2, <1>1, <1>3, <1>5
<1> QED BY <1>1, <1>3, <1>4, <1>6 DEF Promised!Accept

\* A job is refused only when its owner's queue is full.
LEMMA RefuseRefines ==
  ASSUME Inv, NEW j \in Job, EnqueueRefuses(j)
  PROVE  Promised!Refuse(j)
<1> USE NoneAssumption, OwnerAssumption, DepthAssumption
<1>1. /\ phase[j] = "new" /\ phase' = [phase EXCEPT ![j] = "refused"]
      /\ laneOf[Owner[j]] # None /\ Full(laneOf[Owner[j]]) /\ Owner[j] \in User
      /\ UNCHANGED <<laneOf, chain>>
  BY DEF EnqueueRefuses
<1>2. laneOf[Owner[j]] \in Lane /\ queueOf[Owner[j]] = chain[laneOf[Owner[j]]]
  BY <1>1 DEF Inv, queueOf
<1>3. Len(queueOf[Owner[j]]) >= MaxDepth
  BY <1>1, <1>2 DEF Full, Inv, Lanes, LaneOK
<1> QED BY <1>1, <1>3, SameQueues DEF Promised!Refuse

\* A job that ends is the head of its owner's queue.
LEMMA EndRefines ==
  ASSUME Inv, NEW j \in Job, End(j)
  PROVE  Promised!End(j)
<1> USE NoneAssumption, OwnerAssumption, DepthAssumption
<1>1. PICK l \in Lane :
        /\ active[l] = j
        /\ laneOf' = [laneOf EXCEPT ![Owner[j]] = IF Emptied(l) THEN None ELSE @]
        /\ chain' = [chain EXCEPT ![l] = Tail(@)]
  BY DEF End
<1>2. phase' = [phase EXCEPT ![j] = "ended"] /\ Owner[j] \in User
  BY DEF End
<1>3. chain[l] \in Seq(Job) /\ LaneOK(l) /\ First(chain[l]) = j
  BY <1>1 DEF Inv, Lanes, LaneOK
<1>4. /\ chain[l] # <<>> /\ Head(chain[l]) = j /\ chain[l][1] = j
      /\ Len(chain[l]) \in Nat /\ 1 \in 1 .. Len(chain[l])
      /\ Tail(chain[l]) \in Seq(Job) /\ Len(Tail(chain[l])) = Len(chain[l]) - 1
  BY <1>3, Started
<1>5. laneOf[Owner[j]] = l
  BY <1>3, <1>4 DEF LaneOK
<1>6. queueOf[Owner[j]] = chain[l]
  BY <1>2, <1>5 DEF queueOf
<1>7. Emptied(l) => Tail(chain[l]) = <<>>
  <2>1. depth[l] = Len(chain[l])
    BY <1>3 DEF LaneOK
  <2>2. Emptied(l) => Len(Tail(chain[l])) = 0
    BY <2>1, <1>4 DEF Emptied
  <2> QED BY <2>2, <1>4, EmptyChain
<1>8. ASSUME NEW u \in User
      PROVE  queueOf'[u] = IF u = Owner[j] THEN Tail(chain[l]) ELSE queueOf[u]
  <2>1. queueOf'[u] = IF laneOf'[u] = None THEN <<>> ELSE chain'[laneOf'[u]]
    BY DEF queueOf
  <2>2. CASE u = Owner[j]
    BY <2>1, <2>2, <1>1, <1>5, <1>7 DEF Inv
  <2>3. CASE u # Owner[j]
    <3>1. UserOK(u) /\ laneOf'[u] = laneOf[u]
      BY <2>3, <1>1 DEF Inv, Lanes
    <3>2. laneOf[u] # l
      BY <2>3, <3>1, <1>4 DEF UserOK
    <3>3. laneOf[u] # None => chain'[laneOf[u]] = chain[laneOf[u]]
      BY <3>2, <1>1 DEF Inv
    <3> QED BY <2>1, <2>3, <3>1, <3>3 DEF queueOf
  <2> QED BY <2>2, <2>3
<1>9. queueOf' = [queueOf EXCEPT ![Owner[j]] = Tail(@)]
  <2>1. queueOf' = [u \in User |-> queueOf'[u]]
    BY DEF queueOf
  <2>2. queueOf = [u \in User |-> queueOf[u]]
    BY DEF queueOf
  <2> QED BY <2>1, <2>2, <1>2, <1>6, <1>8
<1> QED BY <1>2, <1>4, <1>6, <1>9 DEF Promised!End

\* Every step of the lanes is a step of the queues, or leaves them as they are.
LEMMA StepRefines ==
  Inv /\ [Next]_vars => [Promised!Next]_<<queueOf, phase>>
<1> SUFFICES ASSUME Inv, [Next]_vars
             PROVE  [Promised!Next]_<<queueOf, phase>>
  OBVIOUS
<1>1. ASSUME NEW j \in Job, EnqueueAccepts(j) PROVE Promised!Next
  BY <1>1, AcceptRefines DEF Promised!Next
<1>2. ASSUME NEW j \in Job, EnqueueRefuses(j) PROVE Promised!Next
  BY <1>2, RefuseRefines DEF Promised!Next
<1>3. ASSUME NEW j \in Job, End(j) PROVE Promised!Next
  BY <1>3, EndRefines DEF Promised!Next
<1>4. ASSUME UNCHANGED <<laneOf, chain, phase>> PROVE UNCHANGED <<queueOf, phase>>
  BY <1>4, SameQueues
<1>5. ASSUME NEW j \in Job, Timeout(j) \/ Cancel(j) PROVE UNCHANGED <<laneOf, chain, phase>>
  BY <1>5 DEF Timeout, Cancel
<1>6. DrainAborts \/ UNCHANGED vars => UNCHANGED <<laneOf, chain, phase>>
  BY DEF DrainAborts, vars
<1> QED BY <1>1, <1>2, <1>3, <1>4, <1>5, <1>6 DEF Next

\* For every number of users, jobs and lane objects the lanes give each user
\* one first-in first-out queue of at most MaxDepth jobs.
THEOREM Refinement == Spec => ImplementsJobQueue
<1> QED BY InitRefines, StepRefines, Invariance, PTL
       DEF Spec, ImplementsJobQueue, Promised!Spec
=============================================================================
