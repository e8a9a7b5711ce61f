--------------------------- MODULE ActionApproval ---------------------------
(***************************************************************************)
(* The human-in-the-loop gate of the server: McpApprovalController over     *)
(* McpApprovalService and McpApprovalExecutorService                        *)
(* (apps/server/src/mcp-approval).  Every row of McpPendingAction is an     *)
(* element of Action; every HTTP request the Node process is serving is an  *)
(* element of Handler, and a handler is interrupted at each await between   *)
(* two database calls.                                                      *)
(***************************************************************************)
EXTENDS Naturals

CONSTANTS
  Action,       \* the proposals
  Reviewer,     \* the administrators
  NoReviewer,   \* reviewedById = null
  Handler,      \* the requests the server may serve at the same time
  Retrier,      \* those of them that may serve POST :id/retry
  Executable,   \* actions whose type has a registered executor
  Faults,       \* what may go wrong: "db" (a query rejects), "crash"
  MaxRounds     \* bound: how often one proposal may be put to review

ASSUME ReviewerAssumption == NoReviewer \notin Reviewer
ASSUME HandlerAssumption == Retrier \subseteq Handler /\ Executable \subseteq Action
ASSUME FaultsAssumption == Faults \subseteq {"db", "crash"}
ASSUME RoundsAssumption == MaxRounds \in Nat \ {0}

VARIABLES
  status,       \* Action -> McpActionStatus of its row, "ABSENT" before create
  reviewedBy,   \* Action -> reviewedById of its row
  round,        \* Action -> (history) times it has been made PENDING
  effects,      \* Action -> round -> (history) times its executor succeeded
  actor,        \* Action -> (history) reviewer its last effect was run for
  announced,    \* actions with an approval.resolved event in their last round
  pc,           \* Handler -> where its request is
  on,           \* Handler -> action its request is about
  as,           \* Handler -> reviewer who sent the request
  claim         \* Handler -> (history) round in which it approved the action

row == <<status, reviewedBy>>
history == <<round, effects, actor>>
handlers == <<pc, on, as, claim>>
vars == <<status, reviewedBy, round, effects, actor, announced, pc, on, as, claim>>

Status == {"ABSENT", "PENDING", "APPROVED", "REJECTED", "EXECUTED", "FAILED"}
Round == 1 .. MaxRounds
Phase == {"idle", "claimed", "executing", "applied", "raised", "retrying"}
Working == {"claimed", "executing", "applied", "raised"}

TypeOK ==
  /\ status \in [Action -> Status]
  /\ reviewedBy \in [Action -> Reviewer \cup {NoReviewer}]
  /\ round \in [Action -> 0 .. MaxRounds]
  /\ effects \in [Action -> [Round -> Nat]]
  /\ actor \in [Action -> Reviewer \cup {NoReviewer}]
  /\ announced \subseteq Action
  /\ pc \in [Handler -> Phase]
  /\ on \in [Handler -> Action]
  /\ as \in [Handler -> Reviewer]
  /\ claim \in [Handler -> 0 .. MaxRounds]

Init ==
  /\ status = [a \in Action |-> "ABSENT"]
  /\ reviewedBy = [a \in Action |-> NoReviewer]
  /\ round = [a \in Action |-> 0]
  /\ effects = [a \in Action |-> [n \in Round |-> 0]]
  /\ actor = [a \in Action |-> NoReviewer]
  /\ announced = {}
  /\ pc = [h \in Handler |-> "idle"]
  /\ on \in [Handler -> Action]
  /\ as \in [Handler -> Reviewer]
  /\ claim = [h \in Handler |-> 0]

Goto(h, phase) == pc' = [pc EXCEPT ![h] = phase]

(***************************************************************************)
(* Proposals.  A tool of an MCP server writes the row.                      *)
(***************************************************************************)
Create(a) ==
  /\ status[a] = "ABSENT"
  /\ status' = [status EXCEPT ![a] = "PENDING"]
  /\ round' = [round EXCEPT ![a] = 1]
  /\ UNCHANGED <<reviewedBy, effects, actor, announced, handlers>>

(***************************************************************************)
(* POST :id/approve.  updateMany ... where status = PENDING is one          *)
(* statement of the database; a request that matches no row is refused and  *)
(* changes nothing.                                                         *)
(***************************************************************************)
\* Mutant: the status check lets a second approval through.
ApprovableTwice(a) == status[a] \in {"PENDING", "APPROVED"}
Approvable(a) == status[a] = "PENDING"

Approve(h, a, r) ==
  /\ pc[h] = "idle"
  /\ Approvable(a)
  /\ status' = [status EXCEPT ![a] = "APPROVED"]
  /\ reviewedBy' = [reviewedBy EXCEPT ![a] = r]
  /\ Goto(h, "claimed")
  /\ on' = [on EXCEPT ![h] = a]
  /\ as' = [as EXCEPT ![h] = r]
  /\ claim' = [claim EXCEPT ![h] = round[a]]
  /\ UNCHANGED <<history, announced>>

\* The row is read back; canExecute decides between running the executor and
\* announcing the decision.
Dispatch(h) ==
  /\ pc[h] = "claimed"
  /\ \/ /\ on[h] \in Executable
        /\ Goto(h, "executing")
        /\ UNCHANGED announced
     \/ /\ on[h] \notin Executable
        /\ Goto(h, "idle")
        /\ announced' = announced \cup {on[h]}
  /\ UNCHANGED <<row, history, on, as, claim>>

\* findUniqueOrThrow rejects: the request ends before the executor is called.
LoadFails(h) ==
  /\ "db" \in Faults
  /\ pc[h] = "claimed"
  /\ Goto(h, "idle")
  /\ UNCHANGED <<row, history, announced, on, as, claim>>

ExecutorSucceeds(h) ==
  /\ pc[h] = "executing"
  /\ effects' = [effects EXCEPT ![on[h]][claim[h]] = @ + 1]
  /\ actor' = [actor EXCEPT ![on[h]] = as[h]]
  /\ Goto(h, "applied")
  /\ UNCHANGED <<row, round, announced, on, as, claim>>

\* Mutant: the catch logs the error and forgets markFailed.
ExecutorThrowIsLogged(h) ==
  /\ pc[h] = "executing"
  /\ Goto(h, "idle")
  /\ UNCHANGED <<row, history, announced, on, as, claim>>

ExecutorThrows(h) ==
  /\ pc[h] = "executing"
  /\ Goto(h, "raised")
  /\ UNCHANGED <<row, history, announced, on, as, claim>>

\* markExecuted and markFailed update by id, whatever the row's status is.
Settle(h, outcome) ==
  /\ status' = [status EXCEPT ![on[h]] = outcome]
  /\ Goto(h, "idle")
  /\ UNCHANGED <<reviewedBy, history, announced, on, as, claim>>

MarkExecuted(h) == pc[h] = "applied" /\ Settle(h, "EXECUTED")

\* markExecuted is inside the try: when it rejects the catch marks a failure.
MarkExecutedFails(h) ==
  /\ "db" \in Faults
  /\ pc[h] = "applied"
  /\ Goto(h, "raised")
  /\ UNCHANGED <<row, history, announced, on, as, claim>>

\* Mutant: a status the column's enum does not have.
MarkErrored(h) == pc[h] = "raised" /\ Settle(h, "ERROR")
MarkFailed(h) == pc[h] = "raised" /\ Settle(h, "FAILED")

MarkFailedFails(h) ==
  /\ "db" \in Faults
  /\ pc[h] = "raised"
  /\ Goto(h, "idle")
  /\ UNCHANGED <<row, history, announced, on, as, claim>>

(***************************************************************************)
(* POST :id/reject.                                                         *)
(***************************************************************************)
\* Mutant: the rejection is not signed.
RejectUnsigned(a, r) ==
  /\ status[a] = "PENDING"
  /\ status' = [status EXCEPT ![a] = "REJECTED"]
  /\ announced' = announced \cup {a}
  /\ UNCHANGED <<reviewedBy, history, handlers>>

Reject(a, r) ==
  /\ status[a] = "PENDING"
  /\ status' = [status EXCEPT ![a] = "REJECTED"]
  /\ reviewedBy' = [reviewedBy EXCEPT ![a] = r]
  /\ announced' = announced \cup {a}
  /\ UNCHANGED <<history, handlers>>

(***************************************************************************)
(* POST :id/retry.  findOne, the status check, and a second, unconditional  *)
(* update.                                                                  *)
(***************************************************************************)
\* Mutants: retry of anything executed, or of anything decided.
RetryableExecuted(a) == status[a] \in {"FAILED", "EXECUTED"}
RetryableRejected(a) == status[a] \in {"FAILED", "REJECTED"}
Retryable(a) == status[a] = "FAILED"

RetryRead(h, a) ==
  /\ h \in Retrier
  /\ pc[h] = "idle"
  /\ Retryable(a)
  /\ round[a] < MaxRounds
  /\ Goto(h, "retrying")
  /\ on' = [on EXCEPT ![h] = a]
  /\ UNCHANGED <<row, history, announced, as, claim>>

RetryWrite(h) ==
  /\ pc[h] = "retrying"
  /\ round[on[h]] < MaxRounds
  /\ status' = [status EXCEPT ![on[h]] = "PENDING"]
  /\ reviewedBy' = [reviewedBy EXCEPT ![on[h]] = NoReviewer]
  /\ round' = [round EXCEPT ![on[h]] = @ + 1]
  /\ announced' = announced \ {on[h]}
  /\ Goto(h, "idle")
  /\ UNCHANGED <<effects, actor, on, as, claim>>

\* The server process stops: the requests it was serving are gone.
Crash ==
  /\ "crash" \in Faults
  /\ \E h \in Handler : pc[h] # "idle"
  /\ pc' = [h \in Handler |-> "idle"]
  /\ UNCHANGED <<row, history, announced, on, as, claim>>

Continue(h) ==
  \/ Dispatch(h) \/ LoadFails(h)
  \/ ExecutorSucceeds(h) \/ ExecutorThrows(h)
  \/ MarkExecuted(h) \/ MarkExecutedFails(h)
  \/ MarkFailed(h) \/ MarkFailedFails(h)
  \/ RetryWrite(h)

Next ==
  \/ \E a \in Action : Create(a)
  \/ \E a \in Action, r \in Reviewer : Reject(a, r)
  \/ \E h \in Handler, a \in Action, r \in Reviewer : Approve(h, a, r)
  \/ \E h \in Handler, a \in Action : RetryRead(h, a)
  \/ \E h \in Handler : Continue(h)
  \/ Crash

Spec == Init /\ [][Next]_vars

\* The event loop resumes every request whose query or executor has answered;
\* administrators are under no obligation.
Fairness == \A h \in Handler : WF_vars(Continue(h))

FairSpec == Spec /\ Fairness

-----------------------------------------------------------------------------
(***************************************************************************)
(* Retries are serialised when a single request at a time may be serving    *)
(* one: the condition under which the pipeline keeps ActionLifecycle.       *)
(***************************************************************************)
SerialRetries == \A g, h \in Retrier : g = h

\* Two requests never act on the same approval, and one approval never
\* applies its payload twice (the atomic updateMany of approve), whatever
\* retries, failures and crashes there are.
OneEffectPerApproval ==
  /\ \A a \in Action, n \in Round : effects[a][n] <= 1
  /\ \A g, h \in Handler :
       /\ pc[g] \in Working /\ pc[h] \in Working
       /\ on[g] = on[h] /\ claim[g] = claim[h]
       => g = h

\* The inductive strengthening of OneEffectPerApproval: an approval belongs
\* to the round it was given in, a round is approved only while it is
\* PENDING, and its payload has not been applied before its approval has.
RoundOK(a) ==
  /\ status[a] = "ABSENT" <=> round[a] = 0
  /\ \A n \in Round : n > round[a] => effects[a][n] = 0
  /\ status[a] = "PENDING" => effects[a][round[a]] = 0

ClaimOK(h) ==
  /\ pc[h] = "retrying" => round[on[h]] > 0
  /\ pc[h] \in Working =>
       /\ claim[h] > 0 /\ claim[h] <= round[on[h]]
       /\ status[on[h]] = "PENDING" => claim[h] # round[on[h]]
  /\ pc[h] \in {"claimed", "executing"} => effects[on[h]][claim[h]] = 0

Rounds == (\A a \in Action : RoundOK(a)) /\ (\A h \in Handler : ClaimOK(h))

\* A proposal is being executed by at most one request, and only while its
\* row says APPROVED (holds when retries are serialised: retry checks FAILED
\* in one statement and resets the row in another).
ExecutedOnlyWhileApproved ==
  /\ \A h \in Handler : pc[h] \in Working => status[on[h]] = "APPROVED"
  /\ \A g, h \in Handler :
       pc[g] \in Working /\ pc[h] \in Working /\ on[g] = on[h] => g = h

\* The audit trail (reviewedById) names a reviewer for every decision, and
\* for an executed action the reviewer in whose name the executor ran.
Signed(a) ==
  /\ status[a] \in {"APPROVED", "REJECTED", "EXECUTED", "FAILED"}
       => reviewedBy[a] # NoReviewer
  /\ status[a] = "EXECUTED" => /\ actor[a] = reviewedBy[a]
                               /\ effects[a][round[a]] = 1

AuditTrail == \A a \in Action : Signed(a)

\* The inductive strengthening of ExecutedOnlyWhileApproved and AuditTrail:
\* what each request has seen of its row is still true of it.
SeenOK(h) ==
  /\ pc[h] \in Working =>
       /\ status[on[h]] = "APPROVED"
       /\ claim[h] = round[on[h]]
       /\ as[h] = reviewedBy[on[h]]
  /\ pc[h] = "applied" =>
       /\ actor[on[h]] = as[h]
       /\ effects[on[h]][claim[h]] = 1
  /\ pc[h] = "retrying" => h \in Retrier /\ status[on[h]] = "FAILED"

Serial == \A h \in Handler : SeenOK(h)

\* Over all its rounds a proposal changes the domain tables at most once (as
\* long as no query of the server rejects; retry re-runs only what FAILED).
AppliedAtMostOnce ==
  \A a \in Action, m, n \in Round :
    effects[a][m] > 0 /\ effects[a][n] > 0 => m = n

\* An approved action that has an executor is settled (EXECUTED or FAILED):
\* approve never leaves it APPROVED.
ApprovedSettles ==
  \A a \in Executable : status[a] = "APPROVED" ~> status[a] # "APPROVED"

\* retry: "Only FAILED actions can be retried."
OnlyFailedIsRetried ==
  [][\A a \in Action :
       status'[a] = "PENDING" /\ status[a] \notin {"ABSENT", "PENDING"}
         => status[a] = "FAILED"]_vars

\* The pipeline implements the lifecycle a reviewer relies on.
Lifecycle == INSTANCE ActionLifecycle
ImplementsLifecycle == Lifecycle!Spec
=============================================================================
