--------------------------- MODULE RegulatoryScope --------------------------
(***************************************************************************)
(* Which regulations apply to the organisation, and what follows from it    *)
(* for its assets, controls, entries of its Statements of Applicability and *)
(* risks: RegulatoryEligibilityService and RegulatoryScopePropagationService *)
(* (apps/server/src/organisation), which write one query after the other.   *)
(***************************************************************************)
EXTENDS Requests, Naturals, Sequences

VARIABLES
  profile,      \* Regulation -> it applies (isDoraApplicable, isNis2Applicable)
  applicable,   \* Kind -> (Regulation -> the flag of the rows of that kind)
  linked,       \* Regulation -> the profile links to an assessment that exists
  answered,     \* Regulation -> what that assessment says (isApplicable), if anything
  due,          \* (history) the rows need not agree: there was no propagation yet, it
                \* broke off, or something was edited since
  apart,        \* (history) Regulation -> the profile or the assessment was written
                \* without the other since an answer was propagated
  cut           \* (history) a request broke off before the profile was written

assessment == <<linked, answered>>
rows == <<profile, applicable, assessment>>
history == <<due, apart, cut>>
vars == <<rows, history, requests>>

Regulation == {"DORA", "NIS2"}
Scope == [Regulation -> BOOLEAN]
Kinds == <<"asset", "control", "entry", "risk">>
Kind == {Kinds[i] : i \in DOMAIN Kinds}
Answer == {{TRUE}, {FALSE}, {}}

Step == [op : {"profile", "read"}, scope : Scope, at : DOMAIN Kinds]

TypeOK ==
  /\ profile \in Scope
  /\ applicable \in [Kind -> Scope]
  /\ linked \in [Regulation -> BOOLEAN]
  /\ answered \in [Regulation -> Answer]
  /\ due \in BOOLEAN /\ apart \in [Regulation -> BOOLEAN] /\ cut \in BOOLEAN
  /\ request \in [Handler ->
       {Idle} \cup Step
         \cup [op : {"link"}, scope : Scope, of : Regulation, says : Answer]
         \cup [op : {"write"}, scope : Scope, at : DOMAIN Kinds, rows : SUBSET Regulation]]
  /\ overlapped \in BOOLEAN

\* No regulation applies at first, but a control or a risk is applicable by default.
Init ==
  /\ profile = [r \in Regulation |-> FALSE]
  /\ applicable = [k \in Kind |-> [r \in Regulation |-> k # "asset"]]
  /\ linked = [r \in Regulation |-> FALSE]
  /\ answered = [r \in Regulation |-> {}]
  /\ due = TRUE /\ apart = [r \in Regulation |-> FALSE] /\ cut = FALSE
  /\ RequestsInit

(***************************************************************************)
(* completeSurveyAndPropagate writes the survey, which may be the one that  *)
(* is linked already, reads what is known of the other regulation, links    *)
(* the survey to the profile, and propagates both; propagateCurrentScope    *)
(* propagates the profile as it is.                                         *)
(***************************************************************************)
\* A request without an answer leaves the survey its own, and the regulation does not apply.
Completes(r, applies, says) ==
  /\ says = {applies} \/ ~applies
  /\ \/ UNCHANGED answered
     \/ /\ linked[r] /\ says \in {{applies}, answered[r]}
        /\ answered' = [answered EXCEPT ![r] = says]
  /\ UNCHANGED <<profile, applicable, linked, history>>

\* Mutant: the other regulation is taken not to apply.
CompleteForgets(h, r, applies, says) ==
  /\ Completes(r, applies, says)
  /\ Reads(h, [op |-> "link", scope |-> [q \in Regulation |-> q = r /\ applies],
               of |-> r, says |-> says])

Complete(h, r, applies, says) ==
  /\ Completes(r, applies, says)
  /\ Reads(h, [op |-> "link", scope |-> [profile EXCEPT ![r] = applies],
               of |-> r, says |-> says])

LinkSurvey(h) ==
  LET r == request[h].of
  IN /\ Serves(h, "link")
     /\ linked' = [linked EXCEPT ![r] = TRUE]
     /\ answered' = [answered EXCEPT ![r] = request[h].says]
     /\ apart' = [apart EXCEPT ![r] = request[h].says # {request[h].scope[r]}]
     /\ Continues(h, [op |-> "profile", scope |-> request[h].scope, at |-> 1])
     /\ UNCHANGED <<profile, applicable, due, cut>>

PropagateCurrent(h) ==
  /\ Reads(h, [op |-> "profile", scope |-> profile, at |-> 1])
  /\ UNCHANGED <<rows, history>>

WriteProfile(h) ==
  /\ Serves(h, "profile")
  /\ profile' = request[h].scope
  /\ due' = TRUE
  /\ Continues(h, [request[h] EXCEPT !.op = "read"])
  /\ UNCHANGED <<applicable, assessment, apart, cut>>

\* Mutant: rows are only taken out of the scope, never in again.
DifferingOut(k, scope) ==
  IF k = "asset" THEN Regulation ELSE {r \in Regulation : applicable[k][r] /\ ~scope[r]}

\* The rows of a kind that are to be written: all assets, and whatever else differs.
Differing(k, scope) ==
  IF k = "asset" THEN Regulation ELSE {r \in Regulation : applicable[k][r] # scope[r]}

\* The next kind, or the end.
After(p) ==
  IF p.at = Len(Kinds) THEN Idle ELSE [op |-> "read", scope |-> p.scope, at |-> p.at + 1]

ReadRows(h) ==
  LET p == request[h]
      differing == Differing(Kinds[p.at], p.scope)
  IN /\ Serves(h, "read")
     /\ Continues(h, IF differing = {} THEN After(p)
                     ELSE [op |-> "write", scope |-> p.scope, at |-> p.at, rows |-> differing])
     /\ due' = (due /\ (differing # {} \/ p.at < Len(Kinds)))
     /\ UNCHANGED <<rows, apart, cut>>

\* All assets in one query, the others row by row in no particular order.
WriteRows(h) ==
  LET p == request[h]
  IN /\ Serves(h, "write")
     /\ \E R \in IF Kinds[p.at] = "asset" THEN {p.rows} ELSE {{r} : r \in p.rows} :
          /\ applicable' = [applicable EXCEPT ![Kinds[p.at]] =
               [r \in Regulation |-> IF r \in R THEN p.scope[r] ELSE @[r]]]
          /\ Continues(h, IF R = p.rows THEN After(p) ELSE [p EXCEPT !.rows = @ \ R])
          /\ due' = (due /\ (R # p.rows \/ p.at < Len(Kinds)))
     /\ UNCHANGED <<profile, assessment, apart, cut>>

\* A query fails, which is only logged, or the process stops.
BreaksOff(h) ==
  /\ request[h] # Idle
  /\ due' = TRUE
  /\ cut' = (cut \/ request[h].op \in {"link", "profile"})
  /\ Answers(h)
  /\ UNCHANGED <<rows, apart>>

\* A user edits the profile, which keeps its links, or a row (a new row is one that was
\* edited, too).
EditProfile(r) ==
  /\ profile' = [profile EXCEPT ![r] = ~@]
  /\ due' = TRUE
  /\ apart' = [apart EXCEPT ![r] = TRUE]
  /\ AtOnce
  /\ UNCHANGED <<applicable, assessment, cut>>

EditRow(k, r) ==
  /\ applicable' = [applicable EXCEPT ![k][r] = ~@]
  /\ due' = TRUE
  /\ AtOnce
  /\ UNCHANGED <<profile, assessment, apart, cut>>

\* The linked assessment is updated, or completed again without propagateScope (the
\* default); it is deleted, which leaves the profile its id.
UpdateSurvey(r, says) ==
  /\ linked[r]
  /\ answered' = [answered EXCEPT ![r] = says]
  /\ apart' = [apart EXCEPT ![r] = TRUE]
  /\ AtOnce
  /\ UNCHANGED <<profile, applicable, linked, due, cut>>

DeleteSurvey(r) ==
  /\ linked[r]
  /\ linked' = [linked EXCEPT ![r] = FALSE]
  /\ answered' = [answered EXCEPT ![r] = {}]
  /\ AtOnce
  /\ UNCHANGED <<profile, applicable, history>>

Next ==
  \/ \E r \in Regulation :
       \/ EditProfile(r) \/ DeleteSurvey(r)
       \/ \E k \in Kind : EditRow(k, r)
       \/ \E says \in Answer : UpdateSurvey(r, says)
  \/ \E h \in Handler :
       \/ \E r \in Regulation, applies \in BOOLEAN, says \in Answer :
            Complete(h, r, applies, says)
       \/ PropagateCurrent(h) \/ LinkSurvey(h) \/ WriteProfile(h)
       \/ ReadRows(h) \/ WriteRows(h) \/ BreaksOff(h)

Spec == Init /\ [][Next]_vars

-----------------------------------------------------------------------------
\* After a propagation that ran to its end nothing of a regulation is in the scope
\* unless the regulation applies, and everything is if it does: whatever earlier ones
\* left undone.
ScopeAgrees ==
  Quiet /\ ~overlapped /\ ~due => \A k \in Kind : applicable[k] = profile

\* A regulation applies if the assessment the profile links to says so: completing the
\* survey of the other regulation, with its propagation, does not change that.  (An edit
\* of the profile or of the assessment alone does, until the next answer is propagated.)
AnswerStands ==
  Quiet /\ ~overlapped /\ ~cut =>
    \A r \in Regulation : ~apart[r] => answered[r] \subseteq {profile[r]}
=============================================================================
