---------------------------- MODULE AuthSessions ----------------------------
(***************************************************************************)
(* AuthService (apps/server/src/auth) for one active user: sign-in with its *)
(* counter of failures, and the chain of refresh sessions a sign-in starts. *)
(* A refresh reads the session, revokes it, and creates the next; that is   *)
(* three awaits.  Time is left out: a lock may have expired whenever it is  *)
(* looked at, and so may a session (an expired session stays as it is).     *)
(***************************************************************************)
EXTENDS Requests, Naturals, FiniteSets

CONSTANTS
  Session,
  MaxAttempts   \* failures that lock the account (5 in the code)

VARIABLES
  session,      \* Session -> "ABSENT", "VALID", "REVOKED" (revokedAt is set)
  attempts,     \* failedLoginAttempts
  locked,       \* lockedUntil is set
  streak,       \* (history) failures written since the last sign-in, capped
  ended,        \* (history) signed out, or a refresh broke off half-way
  logins        \* (history) sign-ins so far, at most 1 counts

rows == <<session, attempts, locked>>
history == <<streak, ended, logins>>
vars == <<rows, history, requests>>

\* Bound: failures past the one that locks are counted as one more.
Capped(n) == IF n > MaxAttempts THEN MaxAttempts + 1 ELSE n

TypeOK ==
  /\ session \in [Session -> {"ABSENT", "VALID", "REVOKED"}]
  /\ {attempts, streak} \subseteq 0 .. MaxAttempts + 1
  /\ {locked, ended} \subseteq BOOLEAN
  /\ logins \in 0 .. 2
  /\ request \in [Handler ->
       [op : {"idle", "reset", "open"}] \cup [op : {"fail"}, attempts : 0 .. MaxAttempts + 1]
         \cup [op : {"revoke", "rotate"}, of : Session]]
  /\ overlapped \in BOOLEAN

Init ==
  /\ session = [s \in Session |-> "ABSENT"]
  /\ attempts = 0 /\ streak = 0 /\ logins = 0
  /\ locked = FALSE /\ ended = FALSE
  /\ RequestsInit

(***************************************************************************)
(* login: the user is read, the lock and the password are checked.          *)
(***************************************************************************)
WrongPassword(h) ==
  /\ Reads(h, [op |-> "fail", attempts |-> Capped(attempts + 1)])
  /\ UNCHANGED <<rows, history>>

Fail(h) ==
  /\ Serves(h, "fail")
  /\ attempts' = request[h].attempts
  /\ locked' = (locked \/ request[h].attempts >= MaxAttempts)
  /\ streak' = Capped(streak + 1)
  /\ Answers(h)
  /\ UNCHANGED <<session, ended, logins>>

RightPassword(h) ==
  /\ Reads(h, [op |-> IF attempts > 0 \/ locked THEN "reset" ELSE "open"])
  /\ UNCHANGED <<rows, history>>

\* Mutant: signing in lifts the lock and keeps the count.
ResetLock(h) ==
  /\ Serves(h, "reset")
  /\ locked' = FALSE /\ streak' = 0
  /\ Continues(h, [op |-> "open"])
  /\ UNCHANGED <<session, attempts, ended, logins>>

Reset(h) ==
  /\ Serves(h, "reset")
  /\ attempts' = 0 /\ locked' = FALSE /\ streak' = 0
  /\ Continues(h, [op |-> "open"])
  /\ UNCHANGED <<session, ended, logins>>

Open(h, s) ==
  /\ Serves(h, "open")
  /\ session[s] = "ABSENT"
  /\ session' = [session EXCEPT ![s] = "VALID"]
  /\ logins' = IF logins < 2 THEN logins + 1 ELSE logins
  /\ Answers(h)
  /\ UNCHANGED <<attempts, locked, streak, ended>>

(***************************************************************************)
(* refresh and logout.                                                      *)
(***************************************************************************)
RefreshReads(h, s) ==
  /\ session[s] = "VALID"
  /\ Reads(h, [op |-> "revoke", of |-> s])
  /\ UNCHANGED <<rows, history>>

\* Mutant: the session that is refreshed stays valid.
RevokesNothing(h) ==
  /\ Serves(h, "revoke")
  /\ Continues(h, [op |-> "rotate", of |-> request[h].of])
  /\ UNCHANGED <<rows, history>>

Revoke(h) ==
  /\ Serves(h, "revoke")
  /\ session' = [session EXCEPT ![request[h].of] = "REVOKED"]
  /\ Continues(h, [op |-> "rotate", of |-> request[h].of])
  /\ UNCHANGED <<attempts, locked, history>>

Rotate(h, s) ==
  /\ Serves(h, "rotate")
  /\ session[s] = "ABSENT"
  /\ session' = [session EXCEPT ![s] = "VALID"]
  /\ Answers(h)
  /\ UNCHANGED <<attempts, locked, history>>

Logout(s) ==
  /\ session[s] = "VALID"
  /\ session' = [session EXCEPT ![s] = "REVOKED"]
  /\ ended' = TRUE
  /\ UNCHANGED <<attempts, locked, streak, logins>> /\ AtOnce

\* A query rejects or the process stops.
BreaksOff(h) ==
  /\ request[h] # Idle
  /\ ended' = (ended \/ Serves(h, "rotate"))
  /\ Answers(h)
  /\ UNCHANGED <<rows, streak, logins>>

Next ==
  \/ \E h \in Handler :
       \/ WrongPassword(h) \/ Fail(h) \/ RightPassword(h) \/ Reset(h)
       \/ \E s \in Session : Open(h, s) \/ RefreshReads(h, s) \/ Rotate(h, s)
       \/ Revoke(h) \/ BreaksOff(h)
  \/ \E s \in Session : Logout(s)

Spec == Init /\ [][Next]_vars

-----------------------------------------------------------------------------
(***************************************************************************)
(* Properties.                                                              *)
(***************************************************************************)
Valid == {s \in Session : session[s] = "VALID"}

\* One sign-in has exactly one session to refresh, however often it has been
\* rotated, between requests that do not overlap: never two, and none only
\* after a logout or a refresh that broke off between its two writes.
OneSessionPerLogin ==
  Quiet /\ ~overlapped /\ logins = 1 =>
    Cardinality(Valid) = 1 \/ (ended /\ Valid = {})

\* Failures that do not overlap are all counted, so that the account is locked
\* when MaxAttempts of them came without a sign-in in between.
FailuresCounted ==
  ~overlapped => attempts = streak /\ (streak >= MaxAttempts => locked)
=============================================================================
