------------------------------ MODULE Requests ------------------------------
(***************************************************************************)
(* The HTTP requests a Nest server process (apps/server) is serving.  Each  *)
(* is interrupted at every await between two database calls; what it has    *)
(* read and will act upon is a record, request[h].  The modules that model  *)
(* a service extend this one and add the rows the service writes.           *)
(***************************************************************************)
CONSTANT Handler        \* the requests that may be served at the same time

VARIABLES
  request,      \* Handler -> what the request has read, and what it does next
  overlapped    \* (history) two requests have been in service at the same time

requests == <<request, overlapped>>

Idle == [op |-> "idle"]
Quiet == \A h \in Handler : request[h] = Idle
Serves(h, op) == request[h].op = op

RequestsInit ==
  /\ request = [h \in Handler |-> Idle]
  /\ overlapped = FALSE

\* A request arrives and its first query is answered: it goes on with r.
Reads(h, r) ==
  /\ request[h] = Idle
  /\ request' = [request EXCEPT ![h] = r]
  /\ overlapped' = (overlapped \/ ~Quiet)

\* A request goes on to its next await.
Continues(h, r) ==
  /\ request' = [request EXCEPT ![h] = r]
  /\ UNCHANGED overlapped

Answers(h) == Continues(h, Idle)

\* A request whose handler is one query, between the awaits of the others.
AtOnce ==
  /\ overlapped' = (overlapped \/ ~Quiet)
  /\ UNCHANGED request
=============================================================================
