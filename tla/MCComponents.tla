---------------------------- MODULE MCComponents -----------------------------
(***************************************************************************)
(* The instance of Components for TLC.                                      *)
(***************************************************************************)
EXTENDS Components, TLC

CONSTANTS u1, u2, k1, k2, k3, m1, m2, m3, c1

AnyHandler == Permutations(Handler) \cup Permutations(Scenario)

\* What a member of the council may say: of little weight, or of more.
MemberRoles == <<m1, m2, m3>>
Opinions ==
  {[score |-> 1, weight |-> 1], [score |-> 0, weight |-> 3], [score |-> -1, weight |-> 1]}

\* Two jobs of one user, and one that is scheduled for another.
LaneOf == [j \in {k1, k2, k3} |-> IF j = k3 THEN u2 ELSE u1]

\* The parts of a policy besides its document.
PolicyParts == {{"version"}, {"controls", "risks"}}

\* The implementation status of the control.
Implemented == [c \in {c1} |-> "IMPLEMENTED"]

\* Bounds of this instance.  The requests that rate scenarios or propagate the
\* scope do not overlap (their properties are about those that do not).  Once requests
\* have overlapped, no workflow is escalated, no evidence is updated, approved or
\* rejected, no incident is forced, cut or updated, and nobody writes in a timeline.  A
\* workflow is created with at most three steps, or two once requests have overlapped.
\* What is written past a workflow or an approval is not combined with everything else:
\* a policy becomes DRAFT or APPROVED by it; no request breaks off on a change that has
\* such a status; no incident is both forced and written about, or cut as well; one
\* regulation at a time has its profile and its assessment written apart.
Bounded ==
  /\ \A w \in Workflow : Cardinality(posted'[w]) <= 3
  /\ changeUpdated' => ~changeCut'
  /\ direct' => document' \in {"DRAFT", "APPROVED"}
  /\ forced' => ~rewritten' /\ ~incidentCut'
  /\ rewritten' => ~incidentCut'
  /\ ~apart'["DORA"] \/ ~apart'["NIS2"]
  /\ scopeCut' => ~apart'["DORA"] /\ ~apart'["NIS2"]
  /\ overlapped' =>
       /\ subject \notin {"risks", "scopes"}
       /\ overdue' = {}
       /\ \A w \in Workflow : Cardinality(posted'[w]) <= 2
       /\ subject = "policies" /\ direct' => document' = "DRAFT"
       /\ changeUpdated' => change' \in {"PENDING_APPROVAL", "APPROVED"}
       /\ subject = "evidence" => \A h \in Handler :
            request'[h].op \notin {"update", "approve", "rejectEvidence"}
       /\ ~forced' /\ ~rewritten' /\ ~incidentCut'
       /\ subject = "incidents" => \A h \in Handler : ~IncidentRows!Serves(h, "update")'

BoundedSpec == PartsInit /\ [][PartsNext /\ Bounded]_partsVars
=============================================================================
