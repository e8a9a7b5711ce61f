------------------------------ MODULE RiskScores ----------------------------
(***************************************************************************)
(* RiskScenarioService, RiskCalculationService and RiskService              *)
(* (apps/server/src/risks) for one risk: the scores of its scenarios, which *)
(* follow from their ratings and their controls, and the risk's own, which  *)
(* are the worst of its scenarios'.  A rating or a score of 0 is none.      *)
(***************************************************************************)
EXTENDS Requests, Naturals, FiniteSets, FiniteSetsExt

CONSTANTS
  Scenario,
  Control, Implementation,      \* Control -> implementationStatus
  Likelihoods, Impacts          \* the ratings users give, of 1 .. 5

VARIABLES
  scenario,     \* Scenario -> its row, NoRow if there is none
  linked,       \* Scenario -> the controls linked to it
  risk,         \* the stored scores of the risk
  unscored,     \* (history) scenarios whose last calculation failed
  behind        \* (history) a recalculation of the risk failed, was not asked for, or
                \* was overwritten

rows == <<scenario, linked, risk>>
vars == <<rows, unscored, behind, requests>>

Score == 0 .. 25
Scores == [inherent : Score, residual : Score]
NoScores == [inherent |-> 0, residual |-> 0]
NoRow == [exists |-> FALSE]
Row == [exists : {TRUE}, likelihood : Likelihoods \cup {0}, impact : Impacts \cup {0},
        scores : Scores]

TypeOK ==
  /\ scenario \in [Scenario -> Row \cup {NoRow}]
  /\ linked \in [Scenario -> SUBSET Control]
  /\ risk \in Scores
  /\ unscored \subseteq Scenario /\ behind \in BOOLEAN
  /\ request \in [Handler ->
       [op : {"idle", "scan"}]
         \cup [op : {"calculate"}, of : Scenario, parent : BOOLEAN]
         \cup [op : {"persist"}, of : Scenario, parent : BOOLEAN, scores : Scores]
         \cup [op : {"residual"}, of : Scenario, score : Score]
         \cup [op : {"update"}, of : Scenario, likelihood : Likelihoods \cup {0},
              impact : Impacts \cup {0}, inherent : Score]
         \cup [op : {"store"}, scores : Scores]]
  /\ overlapped \in BOOLEAN

Existing == {s \in Scenario : scenario[s].exists}

Init ==
  /\ scenario = [s \in Scenario |-> NoRow]
  /\ linked = [s \in Scenario |-> {}]
  /\ risk = NoScores
  /\ unscored = {}
  /\ behind = FALSE
  /\ RequestsInit

(***************************************************************************)
(* The scores of a scenario: likelihood * impact, each reduced by the mean  *)
(* effectiveness of the linked controls whose status counts.                *)
(***************************************************************************)
Effect == [IMPLEMENTED |-> 100, PARTIAL |-> 50, NOT_STARTED |-> 0]

AverageScore(C) ==
  LET valid == {c \in C : Implementation[c] \in DOMAIN Effect}
      total == MapThenSumSet(LAMBDA c : Effect[Implementation[c]], valid)
  IN IF valid = {} THEN 0 ELSE (2 * total + Cardinality(valid)) \div (2 * Cardinality(valid))

Reduction(score) ==
  CASE score >= 90 -> [likelihood |-> 3, impact |-> 2]
    [] score \in 80 .. 89 -> [likelihood |-> 2, impact |-> 1]
    [] score \in 70 .. 79 -> [likelihood |-> 1, impact |-> 1]
    [] score \in 50 .. 69 -> [likelihood |-> 1, impact |-> 0]
    [] OTHER -> [likelihood |-> 0, impact |-> 0]

\* Mutant: the reduction is not clamped to a minimum of 1.
ReducedBelow(rating, by) == IF rating <= by THEN 0 ELSE rating - by
Reduced(rating, by) == IF rating = 0 \/ by = 0 THEN rating ELSE Max({1, rating - by})

Calculated(s) ==
  LET row == scenario[s]
      by == Reduction(AverageScore(linked[s]))
  IN [inherent |-> row.likelihood * row.impact,
      residual |-> Reduced(row.likelihood, by.likelihood) * Reduced(row.impact, by.impact)]

(***************************************************************************)
(* create, update and delete write the scenario; then its scores and those  *)
(* of the risk are recalculated, each in queries of its own.                *)
(***************************************************************************)
Rated(row, inherent) ==
  IF inherent = 0 THEN row ELSE [row EXCEPT !.scores.inherent = inherent]

Create(h, s, l, i) ==
  /\ s \notin Existing
  /\ scenario' = [scenario EXCEPT ![s] = Rated(
       [exists |-> TRUE, likelihood |-> l, impact |-> i, scores |-> NoScores], l * i)]
  /\ Reads(h, [op |-> "calculate", of |-> s, parent |-> TRUE])
  /\ UNCHANGED <<linked, risk, unscored, behind>>

\* A rating of 0 leaves the one the scenario has.
Given(rating, current) == IF rating = 0 THEN current ELSE rating

UpdateReads(h, s, l, i) ==
  /\ s \in Existing
  /\ Reads(h, [op |-> "update", of |-> s, likelihood |-> l, impact |-> i,
       inherent |-> Given(l, scenario[s].likelihood) * Given(i, scenario[s].impact)])
  /\ UNCHANGED <<rows, unscored, behind>>

Updated(row, data) ==
  Rated([row EXCEPT !.likelihood = Given(data.likelihood, @),
                    !.impact = Given(data.impact, @)], data.inherent)

\* Mutant: the scores are not recalculated.
UpdateOnly(h) ==
  LET s == request[h].of
  IN /\ Serves(h, "update")
     /\ s \in Existing
     /\ scenario' = [scenario EXCEPT ![s] = Updated(@, request[h])]
     /\ Continues(h, [op |-> "scan"])
     /\ UNCHANGED <<linked, risk, unscored, behind>>

Update(h) ==
  LET s == request[h].of
  IN /\ Serves(h, "update")
     /\ s \in Existing
     /\ scenario' = [scenario EXCEPT ![s] = Updated(@, request[h])]
     /\ Continues(h, [op |-> "calculate", of |-> s, parent |-> TRUE])
     /\ UNCHANGED <<linked, risk, unscored, behind>>

\* Mutant: the risk keeps the scores of a scenario that is gone.
DeleteOnly(h, s) ==
  /\ s \in Existing
  /\ scenario' = [scenario EXCEPT ![s] = NoRow]
  /\ linked' = [linked EXCEPT ![s] = {}]
  /\ unscored' = unscored \ {s}
  /\ AtOnce
  /\ UNCHANGED <<risk, behind>>

Delete(h, s) ==
  /\ s \in Existing
  /\ scenario' = [scenario EXCEPT ![s] = NoRow]
  /\ linked' = [linked EXCEPT ![s] = {}]
  /\ unscored' = unscored \ {s}
  /\ Reads(h, [op |-> "scan"])
  /\ UNCHANGED <<risk, behind>>

\* linkControl and unlinkControl recalculate nothing.
Link(s, C) ==
  /\ s \in Existing
  /\ linked' = [linked EXCEPT ![s] = C]
  /\ AtOnce
  /\ UNCHANGED <<scenario, risk, unscored, behind>>

(***************************************************************************)
(* calculateScenario reads the scenario with its controls, and persists     *)
(* both scores at once.  A failure is logged, and the risk recalculated.    *)
(* The endpoint for one scenario (parent = FALSE) stops before that.        *)
(***************************************************************************)
RecalculateReads(h, s) ==
  /\ s \in Existing
  /\ Reads(h, [op |-> "persist", of |-> s, parent |-> FALSE, scores |-> Calculated(s)])
  /\ UNCHANGED <<rows, unscored, behind>>

Calculate(h) ==
  LET s == request[h].of
  IN /\ Serves(h, "calculate")
     /\ s \in Existing
     /\ Continues(h, [op |-> "persist", of |-> s, parent |-> TRUE,
                      scores |-> Calculated(s)])
     /\ UNCHANGED <<rows, unscored, behind>>

\* persistCalculationResults.
Persist(h) ==
  LET s == request[h].of
      parent == request[h].parent
  IN /\ Serves(h, "persist")
     /\ s \in Existing
     /\ scenario' = [scenario EXCEPT ![s].scores = request[h].scores]
     /\ unscored' = unscored \ {s}
     /\ behind' = (behind \/ ~parent)
     /\ Continues(h, IF parent THEN [op |-> "scan"] ELSE Idle)
     /\ UNCHANGED <<linked, risk>>

CalculationFails(h) ==
  LET s == request[h].of
  IN /\ request[h].op \in {"calculate", "persist"}
     /\ request[h].parent
     /\ unscored' = unscored \cup ({s} \cap Existing)
     /\ Continues(h, [op |-> "scan"])
     /\ UNCHANGED <<rows, behind>>

(***************************************************************************)
(* calculateResidualFromControls: the effectiveness of a control is a stub  *)
(* that answers 0, so that the residual score is the inherent one.          *)
(***************************************************************************)
ResidualReads(h, s) ==
  /\ s \in Existing
  /\ Reads(h, [op |-> "residual", of |-> s,
               score |-> scenario[s].likelihood * scenario[s].impact])
  /\ UNCHANGED <<rows, unscored, behind>>

Residual(h) ==
  LET s == request[h].of
  IN /\ Serves(h, "residual")
     /\ s \in Existing
     /\ scenario' = [scenario EXCEPT ![s].scores.residual = request[h].score]
     /\ Continues(h, [op |-> "scan"])
     /\ UNCHANGED <<linked, risk, unscored, behind>>

(***************************************************************************)
(* recalculateScores (and recalculateParentRiskScores): the highest scores  *)
(* of the scenarios are read, then stored.                                  *)
(***************************************************************************)
Worst ==
  [inherent |-> Max({0} \cup {scenario[s].scores.inherent : s \in Existing}),
   residual |-> Max({0} \cup {scenario[s].scores.residual : s \in Existing})]

Scan(h) ==
  /\ Serves(h, "scan")
  /\ Continues(h, [op |-> "store", scores |-> Worst])
  /\ UNCHANGED <<rows, unscored, behind>>

Store(h) ==
  /\ Serves(h, "store")
  /\ risk' = request[h].scores
  /\ behind' = FALSE
  /\ Answers(h)
  /\ UNCHANGED <<scenario, linked, unscored>>

\* RiskService.update may be given the scores.
Overwrite(scores) ==
  /\ risk' = scores
  /\ behind' = TRUE
  /\ AtOnce
  /\ UNCHANGED <<scenario, linked, unscored>>

\* A query fails or the process stops: what follows is not done.
BreaksOff(h) ==
  LET r == request[h]
      calculates == r.op \in {"calculate", "persist"} /\ r.parent
  IN /\ r # Idle
     /\ unscored' = IF calculates THEN unscored \cup ({r.of} \cap Existing) ELSE unscored
     /\ behind' = (behind \/ calculates \/ r.op \in {"scan", "store"})
     /\ Answers(h)
     /\ UNCHANGED rows

Next ==
  \/ \E s \in Scenario, C \in SUBSET Control : Link(s, C)
  \/ Overwrite(NoScores)
  \/ \E h \in Handler :
       \/ \E s \in Scenario :
            \/ \E l \in Likelihoods \cup {0}, i \in Impacts \cup {0} :
                 Create(h, s, l, i) \/ UpdateReads(h, s, l, i)
            \/ Delete(h, s) \/ RecalculateReads(h, s) \/ ResidualReads(h, s)
       \/ Update(h) \/ Calculate(h) \/ Persist(h) \/ CalculationFails(h) \/ Residual(h)
       \/ Scan(h) \/ Store(h) \/ BreaksOff(h)

Spec == Init /\ [][Next]_vars

-----------------------------------------------------------------------------
\* Between requests the scores of the risk are those of its worst scenario,
\* unless two requests overlapped, or the risk's recalculation failed, was left
\* out, or was overwritten.
RiskIsWorst == Quiet /\ ~overlapped /\ ~behind => risk = Worst

\* Controls never raise a scenario's score, and never bring it down to nothing,
\* once it has been calculated.
ResidualWithinInherent ==
  Quiet /\ ~overlapped =>
    \A s \in Existing \ unscored :
      LET scores == scenario[s].scores
      IN scores.residual <= scores.inherent
           /\ (scores.residual = 0 <=> scores.inherent = 0)
=============================================================================
