-------------------------- MODULE MCTaskScheduler ---------------------------
(* Instances of TaskScheduler for TLC. *)
EXTENDS TaskScheduler, TLC

CONSTANTS a1, a2

OneAction == {a1}
TwoActions == {a1, a2}
FirstGate == {1}
EveryGate == {1, 2}
NoGate == {}
OnlySchedule == {"schedule"}
AnyWork == {"flow", "unknown", "schedule"}
WorkAndRetry == {"flow", "schedule", "retry"}
NoFaults == {}
OnlyAgent == {"agent"}
AnyFault == {"db", "agent", "crash"}
=============================================================================
