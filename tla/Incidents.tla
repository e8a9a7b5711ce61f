------------------------------ MODULE Incidents -----------------------------
(***************************************************************************)
(* IncidentService (apps/server/src/incidents) for one incident: its        *)
(* status, the timestamps of its phases, and its timeline, which gets an    *)
(* entry for every change of status, in a query of its own.  Entries can    *)
(* also be written by hand (IncidentTimelineController).  Of the timeline   *)
(* only the end is kept, and whether its entries form a chain.              *)
(***************************************************************************)
EXTENDS Requests

VARIABLES
  status,       \* the incident's status column
  stamps,       \* the timestamp columns that are set
  timeline,     \* where its STATUS_CHANGE entries lead, and whether each starts where
                \* the one before it ended
  manual,       \* it has an entry with isAutomated: false
  forced,       \* (history) update, which checks no transition, wrote a status
  rewritten,    \* (history) an entry was added, edited or deleted by hand
  cut           \* (history) a request broke off after its first write

rows == <<status, stamps, timeline, manual>>
history == <<forced, rewritten, cut>>
vars == <<rows, history, requests>>

Status == {"DETECTED", "TRIAGED", "INVESTIGATING", "CONTAINING", "ERADICATING",
           "RECOVERING", "POST_INCIDENT", "CLOSED"}
Stamp == {"reportedAt", "classifiedAt", "containedAt", "eradicatedAt", "recoveredAt",
          "closedAt"}
Change == [from : Status, to : Status]
End == [to : Status, chained : BOOLEAN]

TypeOK ==
  /\ status \in Status
  /\ stamps \subseteq Stamp
  /\ timeline \in End
  /\ manual \in BOOLEAN
  /\ forced \in BOOLEAN /\ rewritten \in BOOLEAN /\ cut \in BOOLEAN
  /\ request \in [Handler ->
       {Idle} \cup [op : {"update", "updateStatus"}, change : Change]
         \cup [op : {"entry"}, change : Change, isAutomated : BOOLEAN]]
  /\ overlapped \in BOOLEAN

Init ==
  /\ status = "DETECTED"
  /\ stamps = {}
  /\ timeline = [to |-> "DETECTED", chained |-> TRUE]
  /\ manual = FALSE
  /\ forced = FALSE /\ rewritten = FALSE /\ cut = FALSE
  /\ RequestsInit

Transitions ==
  [DETECTED |-> {"TRIAGED", "CLOSED"},
   TRIAGED |-> {"INVESTIGATING", "CLOSED"},
   INVESTIGATING |-> {"CONTAINING", "ERADICATING", "CLOSED"},
   CONTAINING |-> {"ERADICATING", "INVESTIGATING", "CLOSED"},
   ERADICATING |-> {"RECOVERING", "CONTAINING", "CLOSED"},
   RECOVERING |-> {"POST_INCIDENT", "ERADICATING", "CLOSED"},
   POST_INCIDENT |-> {"CLOSED"},
   CLOSED |-> {"DETECTED"}]

\* Mutant: the phase that begins is stamped instead of the one that is over.
StampedOnEntry ==
  [DETECTED |-> {}, TRIAGED |-> {"reportedAt"}, INVESTIGATING |-> {"classifiedAt"},
   CONTAINING |-> {"containedAt"}, ERADICATING |-> {"eradicatedAt"},
   RECOVERING |-> {"recoveredAt"}, POST_INCIDENT |-> {}, CLOSED |-> {"closedAt"}]

Stamped ==
  [DETECTED |-> {}, TRIAGED |-> {"reportedAt"}, INVESTIGATING |-> {"classifiedAt"},
   CONTAINING |-> {}, ERADICATING |-> {"containedAt"}, RECOVERING |-> {"eradicatedAt"},
   POST_INCIDENT |-> {"recoveredAt"}, CLOSED |-> {"closedAt"}]

(***************************************************************************)
(* update and updateStatus read the status, write the row by id, and then   *)
(* add the entry.                                                           *)
(***************************************************************************)
UpdateReads(h, s) ==
  /\ Reads(h, [op |-> "update", change |-> [from |-> status, to |-> s]])
  /\ UNCHANGED <<rows, history>>

\* The dates of an update may be given, too.
Update(h, S) ==
  LET c == request[h].change
  IN /\ Serves(h, "update")
     /\ status' = c.to
     /\ stamps' = stamps \cup S
     /\ forced' = TRUE
     /\ Continues(h, IF c.from = c.to THEN Idle
                     ELSE [op |-> "entry", change |-> c, isAutomated |-> TRUE])
     /\ UNCHANGED <<timeline, manual, rewritten, cut>>

UpdateStatusReads(h, s) ==
  /\ s \in Transitions[status]
  /\ Reads(h, [op |-> "updateStatus", change |-> [from |-> status, to |-> s]])
  /\ UNCHANGED <<rows, history>>

UpdateStatus(h) ==
  LET c == request[h].change
  IN /\ Serves(h, "updateStatus")
     /\ status' = c.to
     /\ stamps' = stamps \cup Stamped[c.to]
     /\ Continues(h, [op |-> "entry", change |-> c, isAutomated |-> FALSE])
     /\ UNCHANGED <<timeline, manual, history>>

Entered(c) == [to |-> c.to, chained |-> timeline.chained /\ timeline.to = c.from]

\* Mutant: the entry names the status the incident came from twice.
EnterStale(h) ==
  /\ Serves(h, "entry")
  /\ timeline' = Entered([request[h].change EXCEPT !.to = request[h].change.from])
  /\ manual' = (manual \/ ~request[h].isAutomated)
  /\ Answers(h)
  /\ UNCHANGED <<status, stamps, history>>

Enter(h) ==
  /\ Serves(h, "entry")
  /\ timeline' = Entered(request[h].change)
  /\ manual' = (manual \/ ~request[h].isAutomated)
  /\ Answers(h)
  /\ UNCHANGED <<status, stamps, history>>

(***************************************************************************)
(* IncidentTimelineController, and the executor ADD_TIMELINE_ENTRY: entries *)
(* of any type and text, whatever the status is.  An entry that is edited   *)
(* or deleted is not an automated one; those of updateStatus are not.       *)
(***************************************************************************)
ByHand(end) ==
  /\ timeline' = end
  /\ rewritten' = TRUE
  /\ AtOnce
  /\ UNCHANGED <<status, stamps, forced, cut>>

AddEntry(end) == ByHand(end) /\ manual' = TRUE
EditEntry(end) == manual /\ ByHand(end) /\ UNCHANGED manual
DeleteEntry(end) == manual /\ ByHand(end) /\ manual' \in BOOLEAN     \* or the last of them

BreaksOff(h) ==
  /\ request[h] # Idle
  /\ cut' = (cut \/ Serves(h, "entry"))
  /\ Answers(h)
  /\ UNCHANGED <<rows, forced, rewritten>>

Next ==
  \/ \E h \in Handler :
       \/ \E s \in Status : UpdateReads(h, s) \/ UpdateStatusReads(h, s)
       \/ \E S \in {{}, {"containedAt"}} : Update(h, S)
       \/ UpdateStatus(h) \/ Enter(h) \/ BreaksOff(h)
  \/ \E end \in End : AddEntry(end) \/ EditEntry(end) \/ DeleteEntry(end)

Spec == Init /\ [][Next]_vars

-----------------------------------------------------------------------------
\* Between requests the timeline leads, change by change, from DETECTED to the status
\* the incident has, unless requests overlapped or broke off, or somebody wrote in it.
TimelineLeadsHere ==
  Quiet /\ ~overlapped /\ ~cut /\ ~rewritten => timeline = [to |-> status, chained |-> TRUE]

\* What must have been stamped by the time an incident has a status, whichever way it
\* took through the transitions: the response times are computed from these columns.
Expected ==
  LET triaged == {"reportedAt"}
      classified == triaged \cup {"classifiedAt"}
      contained == classified \cup {"containedAt"}
      eradicated == contained \cup {"eradicatedAt"}
  IN [DETECTED |-> {}, TRIAGED |-> triaged, INVESTIGATING |-> classified,
      CONTAINING |-> classified, ERADICATING |-> contained, RECOVERING |-> eradicated,
      POST_INCIDENT |-> eradicated \cup {"recoveredAt"}, CLOSED |-> {"closedAt"}]

\* It holds even when requests overlap, as long as update leaves the status alone.
PhasesAreStamped == ~forced => Expected[status] \subseteq stamps
=============================================================================
