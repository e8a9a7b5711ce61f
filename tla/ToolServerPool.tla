--------------------------- MODULE ToolServerPool ---------------------------
(***************************************************************************)
(* McpToolExecutor (gateway/src/agent/mcp-tool-executor.ts) during one run: *)
(* the tool calls to one MCP server.  The first call spawns a server        *)
(* process, later calls reuse the connection the map holds, and a timer     *)
(* closes a connection that was idle for 60 s.  The calls of a turn run in  *)
(* parallel, each for 30 s at most; the run shuts the executor down when    *)
(* none is left.  The map has one entry per server name, and the timer of a *)
(* connection deletes that entry whichever connection it leads to.          *)
(***************************************************************************)
CONSTANTS
  Call,         \* the tool calls of the run
  Connection,
  None          \* undefined

VARIABLES
  run,          \* "working", "closing" (in shutdown), "over"
  mapped,       \* what the connections map holds for the server, None
  state,        \* Connection -> "unused", "starting", "up", "closing", "down"
  died,         \* Connections whose process exited by itself
  covered,      \* Connection -> the calls its idle timer waits for, None: no timer
  call,         \* Call -> "new", "connecting", "calling", "over"
  via           \* Call -> its connection

vars == <<run, mapped, state, died, covered, call, via>>

TypeOK ==
  /\ run \in {"working", "closing", "over"}
  /\ mapped \in Connection \cup {None}
  /\ state \in [Connection -> {"unused", "starting", "up", "closing", "down"}]
  /\ died \subseteq Connection
  /\ covered \in [Connection -> (SUBSET Call) \cup {None}]
  /\ call \in [Call -> {"new", "connecting", "calling", "over"}]
  /\ via \in [Call -> Connection \cup {None}]

Init ==
  /\ run = "working"
  /\ mapped = None
  /\ state = [c \in Connection |-> "unused"]
  /\ died = {}
  /\ covered = [c \in Connection |-> None]
  /\ call = [k \in Call |-> "new"]
  /\ via = [k \in Call |-> None]

Calls(c) == {k \in Call : call[k] = "calling" /\ via[k] = c}

\* Mutants: one timer per server name; and a timer that is set only once.
ResetTimerOfName(c, k) ==
  covered' = [d \in Connection |-> IF d = c THEN Calls(c) \cup {k} ELSE None]
ResetTimerOnce(c, k) ==
  covered' = [covered EXCEPT ![c] = IF @ = None THEN Calls(c) \cup {k} ELSE @]

\* resetIdleTimer: 60 s from now, when every call made on c by then is over.
ResetIdleTimer(c, k) == covered' = [covered EXCEPT ![c] = Calls(c) \cup {k}]

(***************************************************************************)
(* execute.                                                                 *)
(***************************************************************************)
\* getOrSpawnServer finds a connection.  Client.close() makes a connection
\* refuse calls at once, as a process that exited does.
Reuse(k) ==
  /\ run = "working" /\ call[k] = "new" /\ mapped # None
  /\ via' = [via EXCEPT ![k] = mapped]
  /\ call' = [call EXCEPT ![k] =
       IF state[mapped] = "up" /\ mapped \notin died THEN "calling" ELSE "over"]
  /\ ResetIdleTimer(mapped, k)
  /\ UNCHANGED <<run, mapped, state, died>>

Spawn(k, c) ==
  /\ run = "working" /\ call[k] = "new" /\ mapped = None
  /\ state[c] = "unused"
  /\ state' = [state EXCEPT ![c] = "starting"]
  /\ via' = [via EXCEPT ![k] = c]
  /\ call' = [call EXCEPT ![k] = "connecting"]
  /\ UNCHANGED <<run, mapped, died, covered>>

Connected(k) ==
  LET c == via[k]
  IN /\ call[k] = "connecting"
     /\ state' = [state EXCEPT ![c] = "up"]
     /\ mapped' = c
     /\ call' = [call EXCEPT ![k] = "calling"]
     /\ ResetIdleTimer(c, k)
     /\ UNCHANGED <<run, died, via>>

ConnectFails(k) ==
  /\ call[k] = "connecting"
  /\ state' = [state EXCEPT ![via[k]] = "down"]
  /\ call' = [call EXCEPT ![k] = "over"]
  /\ UNCHANGED <<run, mapped, died, covered, via>>

\* The answer, an error, or the 30 s are over.
Ends(k) ==
  /\ call[k] = "calling"
  /\ call' = [call EXCEPT ![k] = "over"]
  /\ UNCHANGED <<run, mapped, state, died, covered, via>>

\* The server process exits: the calls it was serving fail.
Dies(c) ==
  /\ state[c] = "up" /\ c \notin died
  /\ died' = died \cup {c}
  /\ call' = [k \in Call |-> IF k \in Calls(c) THEN "over" ELSE call[k]]
  /\ UNCHANGED <<run, mapped, state, covered, via>>

(***************************************************************************)
(* The idle timer: close(), then the map entry is deleted by name.          *)
(***************************************************************************)
IdleFires(c) ==
  /\ covered[c] # None /\ \A k \in covered[c] : call[k] = "over"
  /\ covered' = [covered EXCEPT ![c] = None]
  /\ state' = [state EXCEPT ![c] = "closing"]
  /\ UNCHANGED <<run, mapped, died, call, via>>

\* Mutant: the entry stays in the map.
IdleClosedMapped(c) ==
  /\ state[c] = "closing"
  /\ state' = [state EXCEPT ![c] = "down"]
  /\ UNCHANGED <<run, mapped, died, covered, call, via>>

IdleClosed(c) ==
  /\ state[c] = "closing"
  /\ state' = [state EXCEPT ![c] = "down"]
  /\ mapped' = None
  /\ UNCHANGED <<run, died, covered, call, via>>

(***************************************************************************)
(* shutdown, in the finally block of the run: every mapped connection.      *)
(***************************************************************************)
Shutdown ==
  /\ run = "working"
  /\ \A k \in Call : call[k] \in {"new", "over"}
  /\ run' = "closing"
  /\ IF mapped = None THEN UNCHANGED <<state, covered>>
     ELSE /\ covered' = [covered EXCEPT ![mapped] = None]
          /\ state' = [state EXCEPT ![mapped] = "down"]
  /\ UNCHANGED <<mapped, died, call, via>>

Cleared ==
  /\ run = "closing"
  /\ run' = "over"
  /\ mapped' = None
  /\ UNCHANGED <<state, died, covered, call, via>>

Next ==
  \/ \E k \in Call :
       \/ Reuse(k) \/ \E c \in Connection : Spawn(k, c)
       \/ Connected(k) \/ ConnectFails(k) \/ Ends(k)
  \/ \E c \in Connection : Dies(c) \/ IdleFires(c) \/ IdleClosed(c)
  \/ Shutdown \/ Cleared

Spec == Init /\ [][Next]_vars

-----------------------------------------------------------------------------
(***************************************************************************)
(* Properties.                                                              *)
(***************************************************************************)
\* No server process is left behind, though parallel calls may spawn several,
\* the map forgets all but one and shutdown closes only what is mapped:
\* whatever is up has an idle timer of its own that will close it.
NoServerLeaks ==
  \A c \in Connection : state[c] = "up" => covered[c] # None

\* A connection is not closed under a call that it is serving.
NotClosedInUse ==
  \A k \in Call : call[k] = "calling" => state[via[k]] = "up"

\* The map does not lead to a closed connection, which would fail every call
\* made through it, except while the idle timer or shutdown is at it, or when
\* the process exited by itself.
MapLeadsToServer ==
  mapped # None /\ run = "working" =>
    mapped \in died \/ state[mapped] \in {"up", "closing"}
=============================================================================
