----------------------------- MODULE Components -----------------------------
(***************************************************************************)
(* The components that share neither state nor calls with each other: the   *)
(* services of the server (apps/server) and the parts of the gateway that   *)
(* are modelled on their own.  A behaviour is one of one component, its     *)
(* subject; the variables of the others keep their initial values.          *)
(* PolicyApproval is extended, the others are instantiated with the same    *)
(* requests.  A constant has the name it has in the modules it is for.      *)
(***************************************************************************)
EXTENDS PolicyApproval, Integers, Sequences

CONSTANTS
  Subjects,                             \* the components of this composition
  Approver, Required,                   \* ChangeApproval
  Soa,                                  \* SoaApproval
  User, None,                           \* CorrectiveAction and the gateway's parts
  Plan, FirstPlan, Task,                \* TreatmentPlans
  Test,                                 \* AssessmentStats
  Evidence,                             \* EvidenceRequests
  Session, MaxAttempts,                 \* AuthSessions
  Base, Width, MaxNumber,               \* ReferenceNumbers
  Call, Connection,                     \* ToolServerPool
  Roles, Opinion,                       \* Council
  PerUser, PerOrg, Window, MaxTime,     \* HourlyLimit
  Scenario, Implementation, Likelihoods, Impacts,       \* RiskScores
  Content, MaxVersions,                 \* PolicyVersions
  Action, Payloads, MaxDocuments,       \* PolicyCreation
  Control,                              \* ScenarioControls
  Job, Owner, Scheduled, Signal         \* GatewayShutdown

\* A process serves finitely many requests at a time.
ASSUME HandlersAssumption == IsFiniteSet(Handler)

\* An assessment has finitely many tests.
ASSUME TestsAssumption == IsFiniteSet(Test)

\* A plan has finitely many actions; ratings are 1 to 5; an account may be locked.
ASSUME PlansAssumption == FirstPlan \in Plan /\ IsFiniteSet(Task)
ASSUME RatingsAssumption == Likelihoods \subseteq 1 .. 5 /\ Impacts \subseteq 1 .. 5
ASSUME AttemptsAssumption == MaxAttempts \in Nat \ {0}

\* The required approvers are among those that may be asked.
ASSUME RequiredAssumption == Required \subseteq Approver

\* undefined is neither a connection nor a set of calls.
ASSUME NoneAssumption == None \notin Connection /\ \A C \in SUBSET Call : C # None

\* What a payload may have besides the document, and the bound on documents.
ASSUME PayloadsAssumption == Payloads \subseteq SUBSET {"controls", "risks", "version"}
ASSUME MaxDocumentsAssumption == MaxDocuments \in Nat \ {0}

\* The width of a reference's number, and the bound on the numbers given out.
ASSUME NumbersAssumption == Width \in Nat /\ MaxNumber \in Nat
ASSUME BaseAssumption == Base \in Nat \ {0, 1}

\* A job goes to the lane of its user.
ASSUME OwnerAssumption == Owner \in [Job -> User]

\* No role is selected twice; an opinion is a positive, a neutral or a negative one, and has
\* some weight.
ASSUME RolesAssumption ==
  /\ Roles \in Seq({Roles[i] : i \in DOMAIN Roles})
  /\ \A i, j \in DOMAIN Roles : Roles[i] = Roles[j] => i = j
ASSUME OpinionAssumption ==
  \A o \in Opinion : o.score \in {-1, 0, 1} /\ o.weight \in Nat \ {0}

\* The limits are numbers of requests, the hour and the bound on the clock ones of milliseconds.
ASSUME LimitsAssumption ==
  PerUser \in Nat /\ PerOrg \in Nat /\ Window \in Nat /\ MaxTime \in Nat

VARIABLES
  subject,
  change, approval, changeUpdated, changeAsked, changeCut,
  soa,
  status, severity, cap, draftedBy, rejectedBy, approvedBy,
  plan, task, progress, reopened, fresh,
  test, result, stats, statsCut,
  evidenceRequest, evidence, fulfilled, lost, approved, archived, edited,
  session, attempts, locked, streak, ended, logins,
  scheme, refs, deleted,
  run, mapped, state, died, covered, call, via,
  pattern, members, phase, rolesAsked, running, opinions, failures, saved,
  councilSession, level, aborted, faults,
  now, userWindow, orgWindow, accepted,
  scenario, linked, risk, unscored, behind,
  content, number, versions, versionEdited, versionCut,
  exceptionStatus, expired, exceptionApproved, exceptionEnded,
  proposalStatus, wanted, created, refused, createdDeleted,
  links, marked, linkCut,
  incidentStatus, stamps, timeline, manual, forced, rewritten, incidentCut,
  lane, jobPhase, jobAborted, ticking, scheduling, listening, streams,
  stop, awaited, timedOut, exited,
  profile, applicable, surveyLinked, answered, due, apart, scopeCut

Changes == INSTANCE ChangeApproval WITH
  updated <- changeUpdated, asked <- changeAsked,
  cut <- changeCut
Soas == INSTANCE SoaApproval
Caps == INSTANCE CorrectiveAction WITH NoUser <- None
Plans == INSTANCE TreatmentPlans
Assessments == INSTANCE AssessmentStats WITH cut <- statsCut
Evidences == INSTANCE EvidenceRequests WITH asked <- evidenceRequest
Sessions == INSTANCE AuthSessions
References == INSTANCE ReferenceNumbers
ToolServers == INSTANCE ToolServerPool
Councils == INSTANCE Council WITH
  asked <- rolesAsked,
  session <- councilSession
RateLimit == INSTANCE HourlyLimit
Risks == INSTANCE RiskScores WITH Control <- DOMAIN Implementation
Versions == INSTANCE PolicyVersions WITH
  edited <- versionEdited,
  cut <- versionCut
Exceptions == INSTANCE PolicyExceptions WITH
  status <- exceptionStatus,
  approved <- exceptionApproved, ended <- exceptionEnded
Creations == INSTANCE PolicyCreation WITH
  status <- proposalStatus,
  document <- created, deleted <- createdDeleted
Controls == INSTANCE ScenarioControls WITH cut <- linkCut
IncidentRows == INSTANCE Incidents WITH
  status <- incidentStatus,
  cut <- incidentCut
Shutdown == INSTANCE GatewayShutdown WITH
  phase <- jobPhase,
  aborted <- jobAborted
Scopes == INSTANCE RegulatoryScope WITH linked <- surveyLinked, cut <- scopeCut

(***************************************************************************)
(* One component at a time.                                                 *)
(***************************************************************************)
policyVars == <<rows, overdue, history>>
changeVars == <<change, approval, changeUpdated, changeAsked, changeCut>>
soaVars == <<soa>>
capVars == <<status, severity, cap, draftedBy, rejectedBy, approvedBy>>
planVars == <<plan, task, progress, reopened, fresh>>
assessmentVars == <<test, result, stats, statsCut>>
evidenceVars == <<evidenceRequest, evidence, fulfilled, lost, approved,
  archived, edited>>
sessionVars == <<session, attempts, locked, streak, ended, logins>>
referenceVars == <<scheme, refs, deleted>>
toolServerVars == <<run, mapped, state, died, covered, call, via>>
councilVars == <<pattern, members, phase, rolesAsked, running, opinions,
  failures, saved, councilSession, level, aborted, faults>>
rateLimitVars == <<now, userWindow, orgWindow, accepted>>
riskVars == <<scenario, linked, risk, unscored, behind>>
versionVars == <<content, number, versions, versionEdited, versionCut>>
exceptionVars == <<exceptionStatus, expired, exceptionApproved,
  exceptionEnded>>
creationVars == <<proposalStatus, wanted, created, refused, createdDeleted>>
controlVars == <<links, marked, linkCut>>
incidentVars == <<incidentStatus, stamps, timeline, manual, forced, rewritten,
  incidentCut>>
shutdownVars == <<lane, jobPhase, jobAborted, ticking, scheduling,
  listening, streams, stop, awaited, timedOut, exited>>
scopeVars == <<profile, applicable, surveyLinked, answered, due, apart, scopeCut>>

Keep(component, v) == IF subject = component THEN TRUE ELSE UNCHANGED v

OthersKeep ==
  /\ UNCHANGED subject
  /\ Keep("policies", policyVars)
  /\ Keep("changes", changeVars)
  /\ Keep("soas", soaVars)
  /\ Keep("caps", capVars)
  /\ Keep("plans", planVars)
  /\ Keep("assessments", assessmentVars)
  /\ Keep("evidence", evidenceVars)
  /\ Keep("sessions", sessionVars)
  /\ Keep("references", referenceVars)
  /\ Keep("toolServers", toolServerVars)
  /\ Keep("councils", councilVars)
  /\ Keep("rateLimit", rateLimitVars)
  /\ Keep("risks", riskVars)
  /\ Keep("versions", versionVars)
  /\ Keep("exceptions", exceptionVars)
  /\ Keep("creations", creationVars)
  /\ Keep("controls", controlVars)
  /\ Keep("incidents", incidentVars)
  /\ Keep("shutdown", shutdownVars)
  /\ Keep("scopes", scopeVars)

NoRequests == UNCHANGED requests

\* Where several initial states are possible, one is taken for the components
\* that are not the subject.
PartsInit ==
  /\ subject \in Subjects
  /\ IF subject = "caps" THEN TRUE ELSE status = "OPEN" /\ severity = "MAJOR"
  /\ IF subject = "references" THEN TRUE ELSE scheme = "count"
  /\ IF subject = "councils" THEN TRUE
     ELSE pattern = "sequential_buildup" /\ members = <<Roles[1]>>
  /\ IF subject = "versions" THEN TRUE ELSE content = (CHOOSE c \in Content : TRUE) /\ versions = <<>>
  /\ IF subject = "exceptions" THEN TRUE ELSE expired = FALSE
  /\ IF subject = "creations" THEN TRUE ELSE wanted = [a \in Action |-> CHOOSE p \in Payloads : TRUE]
  /\ Init
  /\ Changes!Init
  /\ Soas!Init
  /\ Caps!Init
  /\ Plans!Init
  /\ Assessments!Init
  /\ Evidences!Init
  /\ Sessions!Init
  /\ References!Init
  /\ ToolServers!Init
  /\ Councils!Init
  /\ RateLimit!Init
  /\ Risks!Init
  /\ Versions!Init
  /\ Exceptions!Init
  /\ Creations!Init
  /\ Controls!Init
  /\ IncidentRows!Init
  /\ Shutdown!Init
  /\ Scopes!Init

\* The parts of the gateway serve no requests.
PartsNext ==
  /\ OthersKeep
  /\ \/ subject = "policies" /\ Next
     \/ subject = "changes" /\ Changes!Next
     \/ subject = "soas" /\ Soas!Next
     \/ subject = "caps" /\ Caps!Next
     \/ subject = "plans" /\ Plans!Next
     \/ subject = "assessments" /\ Assessments!Next
     \/ subject = "evidence" /\ Evidences!Next
     \/ subject = "sessions" /\ Sessions!Next
     \/ subject = "references" /\ References!Next
     \/ subject = "toolServers" /\ ToolServers!Next /\ NoRequests
     \/ subject = "councils" /\ Councils!Next /\ NoRequests
     \/ subject = "rateLimit" /\ RateLimit!Next /\ NoRequests
     \/ subject = "risks" /\ Risks!Next
     \/ subject = "versions" /\ Versions!Next
     \/ subject = "exceptions" /\ Exceptions!Next
     \/ subject = "creations" /\ Creations!Next
     \/ subject = "controls" /\ Controls!Next
     \/ subject = "incidents" /\ IncidentRows!Next
     \/ subject = "shutdown" /\ Shutdown!Next /\ NoRequests
     \/ subject = "scopes" /\ Scopes!Next

partsVars ==
  <<subject, requests, policyVars, changeVars, soaVars, capVars, planVars,
    assessmentVars, evidenceVars, sessionVars, referenceVars,
    toolServerVars, councilVars, rateLimitVars, riskVars, versionVars,
    exceptionVars, creationVars, controlVars, incidentVars, shutdownVars,
    scopeVars>>

PartsSpec == PartsInit /\ [][PartsNext]_partsVars

-----------------------------------------------------------------------------
(***************************************************************************)
(* The properties of the components, stated in their modules.               *)
(***************************************************************************)
\* Every component's variables, and the requests it serves, stay within their
\* types.
PartsTypeOK ==
  /\ subject = "policies" => TypeOK
  /\ subject = "changes" => Changes!TypeOK
  /\ subject = "soas" => Soas!TypeOK
  /\ subject = "caps" => Caps!TypeOK
  /\ subject = "plans" => Plans!TypeOK
  /\ subject = "assessments" => Assessments!TypeOK
  /\ subject = "evidence" => Evidences!TypeOK
  /\ subject = "sessions" => Sessions!TypeOK
  /\ subject = "references" => References!TypeOK
  /\ subject = "toolServers" => ToolServers!TypeOK
  /\ subject = "councils" => Councils!TypeOK
  /\ subject = "rateLimit" => RateLimit!TypeOK
  /\ subject = "risks" => Risks!TypeOK
  /\ subject = "versions" => Versions!TypeOK
  /\ subject = "exceptions" => Exceptions!TypeOK
  /\ subject = "creations" => Creations!TypeOK
  /\ subject = "controls" => Controls!TypeOK
  /\ subject = "incidents" => IncidentRows!TypeOK
  /\ subject = "shutdown" => Shutdown!TypeOK
  /\ subject = "scopes" => Scopes!TypeOK

\* A change that was asked to wait for approval has somebody left to answer, one that
\* the approvals made APPROVED nobody (ChangeApprovalService); a status that
\* ChangeService.update wrote promises neither.
ChangeWaits ==
  /\ Changes!NeverHangs
  /\ Changes!ApprovedIsSettled

\* (Does not hold.)  An approved change has no required approver who rejected
\* it (the history entry of ChangeApprovalService.approve).
AllRequiredApproved == Changes!AllRequiredApproved

\* Of what replaces its predecessor one is in force: a version of the Statement
\* of Applicability, a risk's treatment plan, a sign-in's refresh session, the primary
\* control of a scenario (SOAService.approve, TreatmentPlanService.create,
\* AuthService.refresh, RiskScenarioService.linkControl and unlinkControl).
OneInForce ==
  /\ Soas!OneApproved
  /\ Plans!OneActivePlan
  /\ Sessions!OneSessionPerLogin
  /\ Controls!OnePrimary
  /\ Controls!PrimaryIsReplaced

\* What is in force was approved, by somebody who may: a corrective action plan
\* by somebody else than its drafter, an exception to a policy before it was activated,
\* and not after it ended (NonconformityService.approveCap, DocumentExceptionService).
ApprovedFirst ==
  /\ Caps!FourEyes
  /\ Exceptions!ActiveWasApproved
  /\ Exceptions!EndedStaysEnded

\* What is stored of other rows agrees with them: a plan's progress with its
\* actions, an assessment's counters with its tests, a risk's scores with its
\* scenarios, the count of failed sign-ins, a policy with its newest version, an
\* incident with its timeline, if nobody wrote in it, and its timestamps, what is in the
\* scope of a regulation with the profile, and that with the answer (recalculatePlanProgress, recalculateStats, recalculateScores,
\* AuthService.login, createVersion, updateStatus, propagateRegulatoryScope).
AggregatesAgree ==
  /\ Plans!ProgressIsShare
  /\ Assessments!StatsAgree
  /\ Risks!RiskIsWorst
  /\ Risks!ResidualWithinInherent
  /\ Sessions!FailuresCounted
  /\ Versions!NewestIsCurrent
  /\ IncidentRows!TimelineLeadsHere
  /\ IncidentRows!PhasesAreStamped
  /\ Scopes!ScopeAgrees
  /\ Scopes!AnswerStands

\* What counts as done is there: a submitted request has evidence, approved
\* evidence stays as it was approved, an executed CREATE_POLICY has a document with all
\* that was asked for (EvidenceRequestService, EvidenceService, policy.executors.ts).
DoneIsComplete ==
  /\ Evidences!SubmittedHasEvidence
  /\ Evidences!ApprovedEvidenceStands
  /\ Creations!ExecutedIsComplete

\* The next reference a service gives is free, no two versions of a policy have
\* the same number, and a policy is refused for its reference only in a race
\* (generateChangeRef and its like, createVersion, PolicyDocumentService.create).
NumbersAreFree ==
  /\ References!NextIsFree
  /\ Versions!VersionsDistinct
  /\ Creations!RefusedByRace

\* Every server process will be closed; a job that a shutdown leaves behind had
\* been waited for, and what ran in its lane had been aborted (McpToolExecutor,
\* Gateway.stop).
NothingLeftBehind ==
  /\ ToolServers!NoServerLeaks
  /\ Shutdown!LeftBehind

\* No connection is closed under a call, and the map does not lead to a closed
\* one (McpToolExecutor).
ConnectionsUsable ==
  /\ ToolServers!NotClosedInUse
  /\ ToolServers!MapLeadsToServer

\* A completed session stands on every member's stored opinion and is as
\* confident as they are; a deliberation that is over leaves no session open
\* (CouncilOrchestrator.deliberate).
CouncilConcludes ==
  /\ Councils!EveryMemberHeard
  /\ Councils!LevelWithinOpinions
  /\ Councils!NoSessionLeftOpen

\* The windows of the rate limit count the last hour (registerRateLimit).
CountsTheHour == RateLimit!CountsTheHour
=============================================================================
