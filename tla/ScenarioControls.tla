--------------------------- MODULE ScenarioControls -------------------------
(***************************************************************************)
(* The controls linked to one risk scenario, one of which may be marked as  *)
(* the primary one: linkControl, updateControlLink and unlinkControl of     *)
(* RiskScenarioService (apps/server/src/risks).                             *)
(***************************************************************************)
EXTENDS Requests, Naturals, Sequences, SequencesExt

CONSTANT Control

VARIABLES
  links,        \* the link rows, in the order of createdAt
  marked,       \* (history) a user marked a control and did not take the mark back
  cut           \* (history) a request broke off after its first write

vars == <<links, marked, cut, requests>>

Link == [control : Control, primary : BOOLEAN]

TypeOK ==
  /\ links \in Seq(Link)
  /\ marked \in BOOLEAN /\ cut \in BOOLEAN
  /\ request \in [Handler ->
       {Idle} \cup [op : {"unmarkToLink", "link", "unmarkToUpdate", "update"},
                    of : Control, primary : BOOLEAN]
         \cup [op : {"unlink"}, of : Control, primary : BOOLEAN]
         \cup [op : {"promote"}, of : Control]
         \cup [op : {"first"}]]
  /\ overlapped \in BOOLEAN

Init ==
  /\ links = <<>>
  /\ marked = FALSE
  /\ cut = FALSE
  /\ RequestsInit

Linked == {links[i].control : i \in DOMAIN links}
Of(c) == CHOOSE i \in DOMAIN links : links[i].control = c
Primary == {links[i].control : i \in {j \in DOMAIN links : links[j].primary}}

Unmarked == [i \in DOMAIN links |-> [links[i] EXCEPT !.primary = FALSE]]
Marked(c, primary) == [links EXCEPT ![Of(c)].primary = primary]

\* A link that is to be the primary one first takes the mark from the others.
LinkReads(h, c, primary) ==
  /\ c \notin Linked
  /\ Reads(h, [op |-> IF primary THEN "unmarkToLink" ELSE "link",
               of |-> c, primary |-> primary])
  /\ UNCHANGED <<links, marked, cut>>

\* Mutant: a link that is updated takes the mark from nobody.
UpdateReadsOnly(h, c, primary) ==
  /\ c \in Linked
  /\ Reads(h, [op |-> "update", of |-> c, primary |-> primary])
  /\ UNCHANGED <<links, marked, cut>>

UpdateReads(h, c, primary) ==
  /\ c \in Linked
  /\ Reads(h, [op |-> IF primary /\ c \notin Primary THEN "unmarkToUpdate" ELSE "update",
               of |-> c, primary |-> primary])
  /\ UNCHANGED <<links, marked, cut>>

Unmark(h) ==
  /\ request[h].op \in {"unmarkToLink", "unmarkToUpdate"}
  /\ links' = Unmarked
  /\ Continues(h, [request[h] EXCEPT !.op = IF @ = "unmarkToLink" THEN "link" ELSE "update"])
  /\ UNCHANGED <<marked, cut>>

Create(h) ==
  LET new == [control |-> request[h].of, primary |-> request[h].primary]
  IN /\ Serves(h, "link")
     /\ new.control \notin Linked
     /\ links' = Append(links, new)
     /\ marked' = (marked \/ new.primary)
     /\ Answers(h)
     /\ UNCHANGED cut

Update(h) ==
  LET c == request[h].of
  IN /\ Serves(h, "update")
     /\ c \in Linked
     /\ links' = Marked(c, request[h].primary)
     /\ marked' = (request[h].primary \/ (marked /\ c \notin Primary))
     /\ Answers(h)
     /\ UNCHANGED cut

(***************************************************************************)
(* When the primary control is unlinked, the oldest link left is marked.    *)
(***************************************************************************)
UnlinkReads(h, c) ==
  /\ c \in Linked
  /\ Reads(h, [op |-> "unlink", of |-> c, primary |-> c \in Primary])
  /\ UNCHANGED <<links, marked, cut>>

\* Mutant: nothing takes the place of the primary control.
UnlinkOnly(h) ==
  LET c == request[h].of
  IN /\ Serves(h, "unlink")
     /\ c \in Linked
     /\ links' = RemoveAt(links, Of(c))
     /\ Answers(h)
     /\ UNCHANGED <<marked, cut>>

Unlink(h) ==
  LET c == request[h].of
  IN /\ Serves(h, "unlink")
     /\ c \in Linked
     /\ links' = RemoveAt(links, Of(c))
     /\ Continues(h, IF request[h].primary THEN [op |-> "first"] ELSE Idle)
     /\ marked' = (marked /\ links' # <<>>)
     /\ UNCHANGED cut

First(h) ==
  /\ Serves(h, "first")
  /\ Continues(h, IF links = <<>> THEN Idle
                  ELSE [op |-> "promote", of |-> links[1].control])
  /\ UNCHANGED <<links, marked, cut>>

Promote(h) ==
  LET c == request[h].of
  IN /\ Serves(h, "promote")
     /\ c \in Linked
     /\ links' = Marked(c, TRUE)
     /\ Answers(h)
     /\ UNCHANGED <<marked, cut>>

\* A query fails (the row may be gone, or there already) or the process stops.
BreaksOff(h) ==
  /\ request[h] # Idle
  /\ cut' = TRUE
  /\ Answers(h)
  /\ UNCHANGED <<links, marked>>

Next ==
  \E h \in Handler :
    \/ \E c \in Control :
         \/ \E primary \in BOOLEAN : LinkReads(h, c, primary) \/ UpdateReads(h, c, primary)
         \/ UnlinkReads(h, c)
    \/ Unmark(h) \/ Create(h) \/ Update(h) \/ Unlink(h) \/ First(h) \/ Promote(h)
    \/ BreaksOff(h)

Spec == Init /\ [][Next]_vars

-----------------------------------------------------------------------------
\* At most one control is the primary one, unless requests overlapped.
OnePrimary == ~overlapped => \A c, d \in Primary : c = d

\* A scenario whose primary control was chosen keeps one as long as it has controls:
\* the request that takes it away names another.
PrimaryIsReplaced ==
  Quiet /\ ~overlapped /\ ~cut /\ marked /\ links # <<>> => Primary # {}
=============================================================================
