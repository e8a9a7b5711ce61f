---------------------------- MODULE PolicyVersions --------------------------
(***************************************************************************)
(* DocumentVersionService (apps/server/src/policies) for one document: its  *)
(* content, its version number, and the rows of its version history.  Two   *)
(* rows may have the same number: the schema does not forbid it.            *)
(***************************************************************************)
EXTENDS Requests, Naturals, Sequences

CONSTANTS
  Content,      \* the texts the document may have
  MaxVersions   \* (bound) createVersion is called while there are fewer rows

VARIABLES
  content,      \* the document's text
  number,       \* its majorVersion and minorVersion
  versions,     \* the version rows, in the order of createdAt
  edited,       \* (history) the document was edited after its last version
  cut           \* (history) a request broke off

rows == <<content, number, versions>>
history == <<edited, cut>>
vars == <<rows, history, requests>>

Number == [major : Nat, minor : Nat]
Version == [number : Number, content : Content, initial : BOOLEAN]
Create == [op : {"insert"}, number : Number, content : Content]

TypeOK ==
  /\ content \in Content
  /\ number \in Number
  /\ versions \in Seq(Version)
  /\ edited \in BOOLEAN /\ cut \in BOOLEAN
  /\ request \in [Handler ->
       {Idle} \cup Create
         \cup [op : {"restore"}, content : Content]
         \cup [op : {"reread"}]
         \cup [op : {"renumber"}, number : Number]]
  /\ overlapped \in BOOLEAN

(***************************************************************************)
(* A document starts as version 1.0.  CREATE_POLICY may add a first row     *)
(* with the number of its payload, which the document's columns ignore.     *)
(***************************************************************************)
Initial(n) == [number |-> n, content |-> content, initial |-> TRUE]

Init ==
  /\ content \in Content
  /\ number = [major |-> 1, minor |-> 0]
  /\ versions \in {<<>>, <<Initial(number)>>, <<Initial([number EXCEPT !.minor = 1])>>}
  /\ edited = FALSE /\ cut = FALSE
  /\ RequestsInit

\* PolicyDocumentService.update.
Edit(c) ==
  /\ c # content
  /\ content' = c
  /\ edited' = TRUE
  /\ AtOnce
  /\ UNCHANGED <<number, versions, cut>>

Following(isMajor) ==
  IF isMajor THEN [major |-> number.major + 1, minor |-> 0]
  ELSE [number EXCEPT !.minor = @ + 1]

Creation(isMajor) ==
  [op |-> "insert", number |-> Following(isMajor), content |-> content]

(***************************************************************************)
(* createVersion reads the document, inserts the row, renumbers the         *)
(* document.  rollback restores the content of a row that has the number    *)
(* asked for, then creates a (minor) version of it.                         *)
(***************************************************************************)
CreateReads(h, isMajor) ==
  /\ Len(versions) < MaxVersions
  /\ Reads(h, Creation(isMajor))
  /\ UNCHANGED <<rows, history>>

Insert(h) ==
  /\ Serves(h, "insert")
  /\ versions' = Append(versions,
       [number |-> request[h].number, content |-> request[h].content, initial |-> FALSE])
  /\ edited' = FALSE
  /\ Continues(h, [op |-> "renumber", number |-> request[h].number])
  /\ UNCHANGED <<content, number, cut>>

\* Mutant: the document keeps its number.
RenumberNot(h) ==
  /\ Serves(h, "renumber")
  /\ Answers(h)
  /\ UNCHANGED <<rows, history>>

Renumber(h) ==
  /\ Serves(h, "renumber")
  /\ number' = request[h].number
  /\ Answers(h)
  /\ UNCHANGED <<content, versions, history>>

RollbackReads(h, i) ==
  /\ Len(versions) < MaxVersions
  /\ Reads(h, [op |-> "restore", content |-> versions[i].content])
  /\ UNCHANGED <<rows, history>>

\* Mutant: the rollback creates no version.
RestoreOnly(h) ==
  /\ Serves(h, "restore")
  /\ content' = request[h].content
  /\ Answers(h)
  /\ UNCHANGED <<number, versions, history>>

Restore(h) ==
  /\ Serves(h, "restore")
  /\ content' = request[h].content
  /\ Continues(h, [op |-> "reread"])
  /\ UNCHANGED <<number, versions, history>>

Reread(h) ==
  /\ Serves(h, "reread")
  /\ Continues(h, Creation(FALSE))
  /\ UNCHANGED <<rows, history>>

\* A query fails or the process stops: what follows is not done.
BreaksOff(h) ==
  /\ request[h] # Idle
  /\ cut' = TRUE
  /\ Answers(h)
  /\ UNCHANGED <<rows, edited>>

Next ==
  \/ \E c \in Content : Edit(c)
  \/ \E h \in Handler :
       \/ \E isMajor \in BOOLEAN : CreateReads(h, isMajor)
       \/ \E i \in DOMAIN versions : RollbackReads(h, i)
       \/ Insert(h) \/ Renumber(h) \/ Restore(h) \/ Reread(h) \/ BreaksOff(h)

Spec == Init /\ [][Next]_vars

-----------------------------------------------------------------------------
Undisturbed == ~overlapped /\ ~cut

\* No two versions have the same number, unless requests overlapped or broke off,
\* or the first row was given a number the document's columns do not have.
VersionsDistinct ==
  Undisturbed /\ (\A i \in DOMAIN versions :
                    versions[i].initial => versions[i].number = [major |-> 1, minor |-> 0])
    => \A i, j \in DOMAIN versions : versions[i].number = versions[j].number => i = j

\* Between requests the document has the number of its newest version, and the text
\* unless it was edited since: a rollback is a version, too.
NewestIsCurrent ==
  Quiet /\ Undisturbed /\ versions # <<>> =>
    LET newest == versions[Len(versions)]
    IN /\ newest.initial \/ newest.number = number
       /\ edited \/ newest.content = content
=============================================================================
