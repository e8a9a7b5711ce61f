------------------------------- MODULE Council ------------------------------
(***************************************************************************)
(* CouncilOrchestrator.deliberate (gateway/src/council): a question is put  *)
(* to the analysis members of a council, one after the other or two at a    *)
(* time; the opinions are stored, a synthesis is made of them and the       *)
(* session row is completed.  Any member, any query and the synthesis may   *)
(* fail, and the run may be aborted.                                        *)
(***************************************************************************)
EXTENDS Integers, Sequences

CONSTANTS
  Roles,        \* the roles that may be selected for the analysis, in order
  Opinion       \* [score : {-1, 0, 1}, weight : positive]: what one may say

BatchSize == 2

VARIABLES
  pattern,      \* decision.deliberationPattern
  members,      \* analysisMembers, in the order they are asked
  phase,        \* where deliberate() is
  asked,        \* how many members have been asked
  running,      \* member -> its result in the batch that runs
  opinions,     \* Seq([of, says])
  failures,     \* (history) members that failed
  saved,        \* how many opinions have been stored
  session,      \* the CouncilSession row: "none", "open", "completed", "failed"
  level,        \* its confidenceLevel
  aborted,      \* signal.aborted
  faults        \* (history) queries that rejected: of the session's creation,
                \* its last update, or any other

decision == <<pattern, members>>
vars == <<decision, phase, asked, running, opinions, failures, saved, session,
          level, aborted, faults>>

Pattern == {"parallel_then_synthesis", "sequential_buildup", "challenge_response"}
Member == {Roles[i] : i \in DOMAIN Roles}
\* The classifier selects one role at least.
Selections == {SubSeq(Roles, 1, n) : n \in 1 .. Len(Roles)}
Levels == {"high", "medium", "low"}
Result == [is : {"pending", "failed"}] \cup [is : {"heard"}, says : Opinion]
Pending == [is |-> "pending"]

TypeOK ==
  /\ pattern \in Pattern
  /\ members \in Selections
  /\ phase \in {"start", "members", "saving", "synthesis", "closing", "catch", "over"}
  /\ asked \in 0 .. Len(members)
  /\ DOMAIN running \subseteq Member /\ \A m \in DOMAIN running : running[m] \in Result
  /\ opinions \in Seq([of : Member, says : Opinion])
  /\ failures \subseteq Member
  /\ saved \in 0 .. Len(opinions)
  /\ session \in {"none", "open", "completed", "failed"}
  /\ level \in Levels \cup {"none"}
  /\ aborted \in BOOLEAN
  /\ faults \subseteq {"creation", "last update", "other"}

Nobody == [m \in {} |-> Pending]

Init ==
  /\ pattern \in Pattern /\ members \in Selections
  /\ phase = "start" /\ session = "none" /\ level = "none"
  /\ asked = 0 /\ saved = 0
  /\ running = Nobody
  /\ opinions = <<>>
  /\ failures = {} /\ faults = {}
  /\ aborted = FALSE

Goes(p) == phase' = p

\* The session row is created; when that fails nothing is written at all.
Convene ==
  /\ phase = "start"
  /\ Goes("members") /\ session' = "open"
  /\ UNCHANGED <<decision, asked, running, opinions, failures, saved, level, aborted, faults>>

(***************************************************************************)
(* runMembers.  How many are asked at a time; a challenge needs two.        *)
(***************************************************************************)
AtATime == IF pattern = "parallel_then_synthesis" THEN BatchSize ELSE 1

NobodyLeft ==
  \/ asked = Len(members)
  \/ pattern = "challenge_response" /\ Len(members) < 2
  \/ pattern = "parallel_then_synthesis" /\ aborted

\* slice(i, i + BATCH_SIZE) stops at the end.
Upto == IF asked + AtATime > Len(members) THEN Len(members) ELSE asked + AtATime
\* Mutant: a batch starts one too late.
BatchLate == {members[i] : i \in asked + 2 .. Upto}
Batch == {members[i] : i \in asked + 1 .. Upto}

Ask ==
  /\ phase = "members" /\ running = Nobody /\ ~NobodyLeft
  /\ running' = [m \in Batch |-> Pending]
  /\ asked' = Upto
  /\ UNCHANGED <<decision, phase, opinions, failures, saved, session, level, aborted, faults>>

MemberEnds(m) ==
  /\ m \in DOMAIN running /\ running[m] = Pending
  /\ \E result \in Result \ {Pending} :
       /\ running' = [running EXCEPT ![m] = result]
       /\ failures' = IF result.is = "failed" THEN failures \cup {m} ELSE failures
  /\ UNCHANGED <<decision, phase, asked, opinions, saved, session, level, aborted, faults>>

\* What the i-th member has to say in the batch that ran.
Said(i) ==
  IF i > 0 /\ members[i] \in DOMAIN running /\ running[members[i]].is = "heard"
  THEN <<[of |-> members[i], says |-> running[members[i]].says]>> ELSE <<>>

\* Promise.allSettled: the opinions of the batch, which ends with the last member asked and
\* has two at most, in the order of the members.  A member that is asked alone and fails
\* makes the deliberation fail.
Settled ==
  /\ running # Nobody /\ \A m \in DOMAIN running : running[m] # Pending
  /\ opinions' = opinions \o Said(asked - 1) \o Said(asked)
  /\ Goes(IF AtATime = 1 /\ Said(asked) = <<>> THEN "catch" ELSE "members")
  /\ running' = Nobody
  /\ UNCHANGED <<decision, asked, failures, saved, session, level, aborted, faults>>

MembersDone ==
  /\ phase = "members" /\ running = Nobody /\ NobodyLeft
  /\ Goes("saving")
  /\ UNCHANGED <<decision, asked, running, opinions, failures, saved, session, level, aborted, faults>>

(***************************************************************************)
(* The opinions are stored one by one, the synthesis is made, the session   *)
(* completed.                                                               *)
(***************************************************************************)
Save ==
  /\ phase = "saving" /\ saved < Len(opinions)
  /\ saved' = saved + 1
  /\ UNCHANGED <<decision, phase, asked, running, opinions, failures, session, level, aborted, faults>>

Synthesize ==
  /\ phase = "saving" /\ saved = Len(opinions)
  /\ phase' \in {"closing", "catch"}
  /\ UNCHANGED <<decision, asked, running, opinions, failures, saved, session, level, aborted, faults>>

\* calculateWeightedConfidence: the average of the scores, weighted with the
\* findings and sources of each, is compared with 0.3 and -0.3.
Total(weight) ==
  LET upTo[i \in 0 .. Len(opinions)] == IF i = 0 THEN 0 ELSE upTo[i - 1] + weight[i]
  IN upTo[Len(opinions)]

Weighted(score) ==
  Total([i \in DOMAIN opinions |->
           IF opinions[i].says.score = score THEN opinions[i].says.weight ELSE 0])

\* Mutant: a sign is lost.
ConfidenceUp ==
  LET sum == Weighted(1) - Weighted(-1)
      total == Weighted(1) + Weighted(0) + Weighted(-1)
  IN IF 10 * sum > -3 * total THEN "high" ELSE "low"

Confidence ==
  LET sum == Weighted(1) - Weighted(-1)
      total == Weighted(1) + Weighted(0) + Weighted(-1)
  IN IF 10 * sum > 3 * total THEN "high"
     ELSE IF 10 * sum < -3 * total THEN "low" ELSE "medium"

Close(outcome, l) ==
  /\ session' = outcome /\ level' = l
  /\ Goes("over")
  /\ UNCHANGED <<decision, asked, running, opinions, failures, saved, aborted, faults>>

Complete == phase = "closing" /\ Close("completed", Confidence)

\* Mutant: an error is passed on without a word to the session.
CatchSilently == phase = "catch" /\ Close(session, level)
Catch == phase = "catch" /\ Close("failed", "low")

(***************************************************************************)
(* Faults and aborts.                                                       *)
(***************************************************************************)
Rejects(query, p) ==
  /\ faults' = faults \cup {query}
  /\ Goes(p)
  /\ UNCHANGED <<decision, asked, running, opinions, failures, saved, session, level, aborted>>

QueryRejects ==
  \/ phase = "start" /\ Rejects("creation", "over")
  \/ phase = "saving" /\ saved < Len(opinions) /\ Rejects("other", "catch")
  \/ phase = "closing" /\ Rejects("other", "catch")
  \/ phase = "catch" /\ Rejects("last update", "over")

Abort ==
  /\ ~aborted /\ phase # "over"
  /\ aborted' = TRUE
  /\ UNCHANGED <<decision, phase, asked, running, opinions, failures, saved, session, level, faults>>

Next ==
  \/ Convene \/ Ask \/ \E m \in Member : MemberEnds(m)
  \/ Settled \/ MembersDone \/ Save \/ Synthesize
  \/ Complete \/ Catch \/ QueryRejects \/ Abort

Spec == Init /\ [][Next]_vars

-----------------------------------------------------------------------------
(***************************************************************************)
(* Properties.                                                              *)
(***************************************************************************)
Place(m) == CHOOSE i \in DOMAIN members : members[i] = m

\* A completed session stands on the stored opinion of every member, in their
\* order, but for those that failed in a parallel round; unless the run was
\* aborted, or a challenge was to be held with one member, who is not asked.
EveryMemberHeard ==
  session = "completed" /\ ~aborted
    /\ ~(pattern = "challenge_response" /\ Len(members) = 1)
  => /\ \A i \in DOMAIN members :
          members[i] \notin failures <=> \E k \in DOMAIN opinions : opinions[k].of = members[i]
     /\ \A k, l \in DOMAIN opinions : k < l => Place(opinions[k].of) < Place(opinions[l].of)
     /\ saved = Len(opinions)
     /\ failures # {} => pattern = "parallel_then_synthesis"

\* Whatever fails on the way, a deliberation that is over leaves no session
\* open, unless its last query rejects.
NoSessionLeftOpen ==
  phase = "over" /\ "last update" \notin faults =>
    session \in {"completed", "failed"} \/ (session = "none" /\ "creation" \in faults)

Score(l) == CASE l = "high" -> 1 [] l = "medium" -> 0 [] l = "low" -> -1

\* The council is as confident as its members: no more than the most confident
\* of them, no less than the least.
LevelWithinOpinions ==
  session = "completed" /\ opinions # <<>> =>
    /\ \E i \in DOMAIN opinions : opinions[i].says.score <= Score(level)
    /\ \E i \in DOMAIN opinions : opinions[i].says.score >= Score(level)
=============================================================================
