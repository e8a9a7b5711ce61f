--------------------------- MODULE ActionLifecycle ---------------------------
(***************************************************************************)
(* What the approval pipeline promises about one McpPendingAction row: the  *)
(* abstract specification that ActionApproval implements.                   *)
(*                                                                          *)
(* A proposal goes through rounds.  In a round it is PENDING until one      *)
(* reviewer approves or rejects it; an approved proposal is applied to the  *)
(* domain tables at most once and is then EXECUTED or FAILED; only a FAILED *)
(* proposal starts another round.  REJECTED and EXECUTED are final.         *)
(***************************************************************************)
EXTENDS Naturals

CONSTANTS
  Action,     \* the proposals
  MaxRounds   \* bound: how often one proposal may be put to review

VARIABLES
  status,     \* Action -> status of its row, "ABSENT" before it is created
  round,      \* Action -> the round it is in, 0 before it is created
  effects     \* Action -> round -> times its payload has been applied

vars == <<status, round, effects>>

Status == {"ABSENT", "PENDING", "APPROVED", "REJECTED", "EXECUTED", "FAILED"}

Round == 1 .. MaxRounds

Init ==
  /\ status = [a \in Action |-> "ABSENT"]
  /\ round = [a \in Action |-> 0]
  /\ effects = [a \in Action |-> [n \in Round |-> 0]]

Move(a, from, to) ==
  /\ status[a] = from
  /\ status' = [status EXCEPT ![a] = to]

Propose(a) ==
  /\ Move(a, "ABSENT", "PENDING")
  /\ round' = [round EXCEPT ![a] = 1]
  /\ UNCHANGED effects

Decide(a) ==
  /\ Move(a, "PENDING", "APPROVED") \/ Move(a, "PENDING", "REJECTED")
  /\ UNCHANGED <<round, effects>>

Apply(a) ==
  /\ status[a] = "APPROVED"
  /\ effects[a][round[a]] = 0
  /\ effects' = [effects EXCEPT ![a][round[a]] = 1]
  /\ UNCHANGED <<status, round>>

Settle(a) ==
  /\ \/ Move(a, "APPROVED", "EXECUTED") /\ effects[a][round[a]] = 1
     \/ Move(a, "APPROVED", "FAILED")
  /\ UNCHANGED <<round, effects>>

Retry(a) ==
  /\ Move(a, "FAILED", "PENDING")
  /\ round' = [round EXCEPT ![a] = @ + 1]
  /\ UNCHANGED effects

Next ==
  \E a \in Action :
    Propose(a) \/ Decide(a) \/ Apply(a) \/ Settle(a) \/ Retry(a)

Spec == Init /\ [][Next]_vars
=============================================================================
