--------------------------- MODULE AssessmentStats --------------------------
(***************************************************************************)
(* AssessmentService and AssessmentTestService (apps/server/src/controls)   *)
(* for one assessment: the counters recalculateStats stores after a test    *)
(* was executed or skipped or the tests of a scope item were removed.  None *)
(* of the three looks at the status of the assessment.                      *)
(***************************************************************************)
EXTENDS Requests, Naturals, FiniteSets

CONSTANT Test           \* the assessment's tests

VARIABLES
  test,         \* Test -> status column, "ABSENT" for no row
  result,       \* Test -> result column, which skipTest leaves alone
  stats,        \* the stored counters
  cut           \* (history) a request broke off after its first write

rows == <<test, result, stats>>
vars == <<rows, cut, requests>>

TestStatus == {"ABSENT", "PENDING", "COMPLETED", "SKIPPED"}
Result == {"NONE", "PASS", "FAIL"}
Number == 0 .. Cardinality(Test)
Stats == [total : Number, completed : Number, passed : Number, failed : Number]

TypeOK ==
  /\ test \in [Test -> TestStatus]
  /\ result \in [Test -> Result]
  /\ stats \in Stats
  /\ cut \in BOOLEAN
  /\ request \in [Handler ->
       [op : {"idle", "scan"}]
         \cup [op : {"execute"}, of : Test, result : {"PASS", "FAIL"}]
         \cup [op : {"skip"}, of : Test]
         \cup [op : {"store"}, stats : Stats]]
  /\ overlapped \in BOOLEAN

Count(S) == Cardinality({t \in Test : test[t] # "ABSENT" /\ t \in S})

Summary ==
  [total |-> Count(Test),
   completed |-> Count({t \in Test : test[t] \in {"COMPLETED", "SKIPPED"}}),
   passed |-> Count({t \in Test : result[t] = "PASS"}),
   failed |-> Count({t \in Test : result[t] = "FAIL"})]

Init ==
  /\ test = [t \in Test |-> "PENDING"]
  /\ result = [t \in Test |-> "NONE"]
  /\ stats = Summary
  /\ cut = FALSE
  /\ RequestsInit

(***************************************************************************)
(* executeTest, skipTest and removeScopeItem write the test, then           *)
(* recalculate.  (The execution record executeTest creates first has no     *)
(* counter.)                                                                *)
(***************************************************************************)
ExecuteReads(h, t, r) ==
  /\ test[t] # "ABSENT"
  /\ Reads(h, [op |-> "execute", of |-> t, result |-> r])
  /\ UNCHANGED <<rows, cut>>

Execute(h) ==
  LET t == request[h].of
  IN /\ Serves(h, "execute")
     /\ test[t] # "ABSENT"
     /\ test' = [test EXCEPT ![t] = "COMPLETED"]
     /\ result' = [result EXCEPT ![t] = request[h].result]
     /\ Continues(h, [op |-> "scan"])
     /\ UNCHANGED <<stats, cut>>

SkipReads(h, t) ==
  /\ test[t] # "ABSENT"
  /\ Reads(h, [op |-> "skip", of |-> t])
  /\ UNCHANGED <<rows, cut>>

Skip(h) ==
  LET t == request[h].of
  IN /\ Serves(h, "skip")
     /\ test[t] # "ABSENT"
     /\ test' = [test EXCEPT ![t] = "SKIPPED"]
     /\ Continues(h, [op |-> "scan"])
     /\ UNCHANGED <<result, stats, cut>>

RemoveScopeItem(h, S) ==
  /\ test' = [t \in Test |-> IF t \in S THEN "ABSENT" ELSE test[t]]
  /\ Reads(h, [op |-> "scan"])
  /\ UNCHANGED <<result, stats, cut>>

\* recalculateStats reads the tests, counts, and stores.
Scan(h) ==
  /\ Serves(h, "scan")
  /\ Continues(h, [op |-> "store", stats |-> Summary])
  /\ UNCHANGED <<rows, cut>>

\* Mutant: the total is not stored.
StoreSome(h) ==
  /\ Serves(h, "store")
  /\ stats' = [request[h].stats EXCEPT !.total = stats.total]
  /\ Answers(h)
  /\ UNCHANGED <<test, result, cut>>

Store(h) ==
  /\ Serves(h, "store")
  /\ stats' = request[h].stats
  /\ Answers(h)
  /\ UNCHANGED <<test, result, cut>>

BreaksOff(h) ==
  /\ request[h] # Idle
  /\ cut' = (cut \/ request[h].op \in {"scan", "store"})
  /\ Answers(h)
  /\ UNCHANGED rows

Next ==
  \E h \in Handler :
    \/ \E t \in Test : SkipReads(h, t) \/ \E r \in {"PASS", "FAIL"} : ExecuteReads(h, t, r)
    \/ \E S \in SUBSET Test : RemoveScopeItem(h, S)
    \/ Execute(h) \/ Skip(h) \/ Scan(h) \/ Store(h) \/ BreaksOff(h)

Spec == Init /\ [][Next]_vars

-----------------------------------------------------------------------------
\* Between requests the stored counters are those of the tests, unless two
\* requests overlapped (the later store may come from the earlier scan) or one
\* broke off before it stored them.
StatsAgree == Quiet /\ ~overlapped /\ ~cut => stats = Summary
=============================================================================
