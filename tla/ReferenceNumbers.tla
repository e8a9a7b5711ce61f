-------------------------- MODULE ReferenceNumbers --------------------------
(***************************************************************************)
(* The readable references the services give to the rows of one table in    *)
(* one year ("CHG-2026-0007"): a prefix and a number padded with zeros to a *)
(* width, unique in the table.  The next one is computed from a query and   *)
(* inserted by another.  Two schemes are in use:                            *)
(*   "count": the number of rows plus one (nonconformities, incidents,      *)
(*            assessments, change requests, exceptions);                    *)
(*   "last":  the number in the reference that is last in string order,     *)
(*            plus one (changes, evidence, evidence requests), where two    *)
(*            services use different widths on the evidence table.          *)
(* Digits are in base Base, to reach the end of a width with few rows.      *)
(***************************************************************************)
EXTENDS Requests, Integers, FiniteSets

CONSTANTS
  Base,         \* 10 in the code
  Width,        \* the usual width of the number (3 or 4 in the code)
  MaxNumber     \* bound on the numbers given out

VARIABLES
  scheme,       \* which scheme the table uses
  refs,         \* the references of the rows: <<number, length of the number>>
  deleted       \* (history) a row has been deleted

rows == <<scheme, refs>>
vars == <<rows, deleted, requests>>

Scheme == {"count", "last"}
Ref == (1 .. MaxNumber) \X (Width .. Width + MaxNumber)

TypeOK ==
  /\ scheme \in Scheme
  /\ refs \subseteq Ref
  /\ deleted \in BOOLEAN
  /\ request \in [Handler -> [op : {"idle"}] \cup [op : {"insert"}, ref : Ref]]
  /\ overlapped \in BOOLEAN

Init ==
  /\ scheme \in Scheme
  /\ refs = {}
  /\ deleted = FALSE
  /\ RequestsInit

(***************************************************************************)
(* The string order of references: digit by digit from the left, and a      *)
(* prefix before what it is a prefix of.                                    *)
(***************************************************************************)
Power(k) == LET p[i \in 0 .. k] == IF i = 0 THEN 1 ELSE Base * p[i - 1] IN p[k]
Digits(n) == CHOOSE d \in 1 .. n : Power(d - 1) <= n /\ n < Power(d)

\* toString().padStart(width, '0')
Padded(n, width) == <<n, IF Digits(n) > width THEN Digits(n) ELSE width>>

\* The first k digits of a number: all of them, if it has no more.
Leading(r, k) == IF r[2] = k THEN r[1] ELSE r[1] \div Power(r[2] - k)

Before(r, q) ==
  LET k == IF r[2] < q[2] THEN r[2] ELSE q[2]
  IN \/ Leading(r, k) < Leading(q, k)
     \/ Leading(r, k) = Leading(q, k) /\ r[2] < q[2]

\* findFirst, orderBy desc: none for an empty table.
\* Mutant: the order is not reversed.
First == {r \in refs : \A q \in refs : ~Before(q, r)}
Last == {r \in refs : \A q \in refs : ~Before(r, q)}

NextNumber ==
  IF scheme = "count" THEN Cardinality(refs) + 1
  ELSE IF refs = {} THEN 1
  ELSE (CHOOSE r \in Last : TRUE)[1] + 1

(***************************************************************************)
(* create: the reference is computed, then inserted.  A wide one is what    *)
(* the evidence migration gives to what it copies.                          *)
(***************************************************************************)
Widths == IF scheme = "last" THEN {Width, Width + 1} ELSE {Width}

CreateReads(h, width) ==
  /\ width \in Widths
  /\ NextNumber \in 1 .. MaxNumber        \* (bound)
  /\ Reads(h, [op |-> "insert", ref |-> Padded(NextNumber, width)])
  /\ UNCHANGED <<rows, deleted>>

Create(h) ==
  LET r == request[h].ref
  IN /\ Serves(h, "insert")
     /\ r \notin refs          \* else the unique constraint refuses it
     /\ refs' = refs \cup {r}
     /\ Answers(h)
     /\ UNCHANGED <<scheme, deleted>>

Delete(r) ==
  /\ r \in refs
  /\ refs' = refs \ {r}
  /\ deleted' = TRUE
  /\ UNCHANGED scheme /\ AtOnce

\* The insertion is refused, or the process stops.
BreaksOff(h) ==
  /\ request[h] # Idle
  /\ Answers(h)
  /\ UNCHANGED <<rows, deleted>>

Next ==
  \/ \E h \in Handler :
       \/ \E width \in {Width, Width + 1} : CreateReads(h, width)
       \/ Create(h) \/ BreaksOff(h)
  \/ \E r \in Ref : Delete(r)

Spec == Init /\ [][Next]_vars

-----------------------------------------------------------------------------
(***************************************************************************)
(* Properties.                                                              *)
(***************************************************************************)
\* Only one width is in use, and its numbers are not used up.
Uniform ==
  \E l \in {Width, Width + 1} :
    \A r \in refs : r[2] = l /\ r[1] + 1 < Power(l)

\* The next reference a service would give is free, so that a creation is
\* refused only when another one took its reference in between: as long as,
\* where rows are counted, none has been deleted, and, where the last reference
\* is looked up, all have the width it would get and that is not used up.
NextIsFree ==
  \A width \in Widths :
    /\ scheme = "count" => ~deleted
    /\ scheme = "last" => Uniform /\ \A r \in refs : r[2] = width
    => Padded(NextNumber, width) \notin refs
=============================================================================
