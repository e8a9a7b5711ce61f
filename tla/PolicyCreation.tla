---------------------------- MODULE PolicyCreation --------------------------
(***************************************************************************)
(* The CREATE_POLICY executor (apps/server/src/mcp-approval/executors) with *)
(* PolicyDocumentService.create: once a proposal is approved, a document is *)
(* created under the first free reference, then its control mappings, its   *)
(* risk mappings and its first version, one query each.  (How approvals and *)
(* retries of one proposal race is in ActionApproval; here each is a step.) *)
(***************************************************************************)
EXTENDS Requests, Naturals, FiniteSets

CONSTANTS
  Action,       \* the proposals, all of them for the same reference
  Payloads,     \* the parts a payload may have: sets of Part
  MaxDocuments  \* (bound) documents, and references tried

VARIABLES
  status,       \* Action -> the proposal's status column
  wanted,       \* Action -> the parts its payload has
  document,     \* Reference -> the document's row with its parts, or NoDocument
  refused,      \* (history) a document was refused because its reference was taken
  deleted       \* (history) proposals one of whose documents a user deleted

rows == <<status, wanted, document>>
history == <<refused, deleted>>
vars == <<rows, history, requests>>

Part == {"controls", "risks", "version"}
Reference == 1 .. MaxDocuments
NoDocument == [exists |-> FALSE]
Document == [exists : {TRUE}, by : Action, parts : SUBSET Part]

TypeOK ==
  /\ status \in [Action -> {"PENDING", "APPROVED", "EXECUTED", "FAILED"}]
  /\ wanted \in [Action -> Payloads]
  /\ document \in [Reference -> Document \cup {NoDocument}]
  /\ refused \in BOOLEAN /\ deleted \subseteq Action
  /\ request \in [Handler ->
       {Idle} \cup [op : {"find", "create"} \cup Part \cup {"executed"},
                    of : Action, at : Reference]
         \cup [op : {"failed"}, of : Action]]
  /\ overlapped \in BOOLEAN

Taken == {n \in Reference : document[n].exists}
Working == {h \in Handler : request[h] # Idle}

Init ==
  /\ status = [a \in Action |-> "PENDING"]
  /\ wanted \in [Action -> Payloads]
  /\ document = [n \in Reference |-> NoDocument]
  /\ refused = FALSE /\ deleted = {}
  /\ RequestsInit

Approve(h, a) ==
  /\ status[a] = "PENDING"
  /\ Cardinality(Taken) + Cardinality(Working) < MaxDocuments
  /\ status' = [status EXCEPT ![a] = "APPROVED"]
  /\ Reads(h, [op |-> "find", of |-> a, at |-> 1])
  /\ UNCHANGED <<wanted, document, history>>

(***************************************************************************)
(* create: references are tried one after the other until one is free.      *)
(***************************************************************************)
\* Mutant: only the reference that was asked for is tried.
FindOnce(h) ==
  /\ Serves(h, "find")
  /\ Continues(h, [request[h] EXCEPT !.op = "create"])
  /\ UNCHANGED <<rows, history>>

Find(h) ==
  /\ Serves(h, "find")
  /\ request[h].at \in Taken => request[h].at < MaxDocuments       \* (bound)
  /\ Continues(h, IF request[h].at \in Taken THEN [request[h] EXCEPT !.at = @ + 1]
                  ELSE [request[h] EXCEPT !.op = "create"])
  /\ UNCHANGED <<rows, history>>

\* The parts of the payload that are left to create, in their order.
InOrder == <<"controls", "risks", "version">>
FirstOf(a, S) ==
  LET left == {i \in S : InOrder[i] \in wanted[a]}
  IN IF left = {} THEN "executed" ELSE InOrder[CHOOSE i \in left : \A j \in left : i <= j]
After(part) == {i \in DOMAIN InOrder : \E j \in DOMAIN InOrder : InOrder[j] = part /\ i > j}

Create(h) ==
  LET r == request[h]
  IN /\ Serves(h, "create")
     /\ r.at \notin Taken
     /\ document' = [document EXCEPT ![r.at] = [exists |-> TRUE, by |-> r.of, parts |-> {}]]
     /\ Continues(h, [r EXCEPT !.op = FirstOf(r.of, DOMAIN InOrder)])
     /\ UNCHANGED <<status, wanted, history>>

CreateRefused(h) ==
  /\ Serves(h, "create")
  /\ request[h].at \in Taken
  /\ refused' = TRUE
  /\ Continues(h, [op |-> "failed", of |-> request[h].of])
  /\ UNCHANGED <<rows, deleted>>

\* Mutant: a part that could not be created is skipped.
PartSkipped(h) ==
  /\ request[h].op \in Part
  /\ Continues(h, [request[h] EXCEPT !.op = FirstOf(request[h].of, After(@))])
  /\ UNCHANGED <<rows, history>>

CreatePart(h) ==
  LET r == request[h]
  IN /\ r.op \in Part
     /\ r.at \in Taken /\ document[r.at].by = r.of
     /\ document' = [document EXCEPT ![r.at].parts = @ \cup {r.op}]
     /\ Continues(h, [r EXCEPT !.op = FirstOf(r.of, After(r.op))])
     /\ UNCHANGED <<status, wanted, history>>

\* A query of the executor rejects: what was created stays.
Throws(h) ==
  /\ request[h].op \in {"find", "create"} \cup Part
  /\ Continues(h, [op |-> "failed", of |-> request[h].of])
  /\ UNCHANGED <<rows, history>>

Settle(h) ==
  /\ request[h].op \in {"executed", "failed"}
  /\ status' = [status EXCEPT ![request[h].of] =
                  IF Serves(h, "executed") THEN "EXECUTED" ELSE "FAILED"]
  /\ Answers(h)
  /\ UNCHANGED <<wanted, document, history>>

Retry(a) ==
  /\ status[a] = "FAILED"
  /\ status' = [status EXCEPT ![a] = "PENDING"]
  /\ AtOnce
  /\ UNCHANGED <<wanted, document, history>>

\* DELETE :id?hard=true; a part of a document that is gone cannot be created.
Delete(n) ==
  /\ n \in Taken
  /\ document' = [document EXCEPT ![n] = NoDocument]
  /\ deleted' = deleted \cup {document[n].by}
  /\ AtOnce
  /\ UNCHANGED <<status, wanted, refused>>

\* The process stops: the proposals it was executing stay APPROVED.
Crash ==
  /\ ~Quiet
  /\ request' = [h \in Handler |-> Idle]
  /\ UNCHANGED <<rows, history, overlapped>>

Next ==
  \/ \E a \in Action : Retry(a)
  \/ \E n \in Reference : Delete(n)
  \/ \E h \in Handler :
       \/ \E a \in Action : Approve(h, a)
       \/ Find(h) \/ Create(h) \/ CreateRefused(h) \/ CreatePart(h)
       \/ Throws(h) \/ Settle(h)
  \/ Crash

Spec == Init /\ [][Next]_vars

-----------------------------------------------------------------------------
\* An executed proposal has a document with everything its payload asked for, whatever
\* earlier attempts left behind (unless a user deleted one of its documents).
ExecutedIsComplete ==
  \A a \in Action \ deleted : status[a] = "EXECUTED" =>
    \E n \in Taken : document[n].by = a /\ document[n].parts = wanted[a]

\* A document is refused only because another request took its reference meanwhile.
RefusedByRace == refused => overlapped
=============================================================================
