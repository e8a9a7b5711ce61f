----------------------------- MODULE HourlyLimit ----------------------------
(***************************************************************************)
(* The sliding windows of the gateway's rate limit                          *)
(* (gateway/src/middleware/rate-limit.ts): how many requests a user, and    *)
(* the organisation, have dispatched in the last hour.  The hook has no     *)
(* await, so a request is one step; the concurrency limit beside it is in   *)
(* GatewayRuns.                                                             *)
(***************************************************************************)
EXTENDS Integers, Sequences, FiniteSets

CONSTANTS
  User,         \* the users of one organisation
  PerUser,      \* perUserHour
  PerOrg,       \* perOrgHour
  Window,       \* an hour
  MaxTime       \* bound on the clock

VARIABLES
  now,
  userWindow,   \* User -> timestamps, <<>> also for no entry
  orgWindow,
  accepted      \* (history) [user, at] of the requests that were let through

vars == <<now, userWindow, orgWindow, accepted>>

TypeOK ==
  /\ now \in 0 .. MaxTime
  /\ userWindow \in [User -> Seq(0 .. MaxTime)]
  /\ orgWindow \in Seq(0 .. MaxTime)
  /\ accepted \in Seq([user : User, at : 0 .. MaxTime])

Init ==
  /\ now = 0
  /\ userWindow = [u \in User |-> <<>>]
  /\ orgWindow = <<>>
  /\ accepted = <<>>

\* Mutant: an entry goes when it is exactly an hour old.
ExpiredEarly(t) == t <= now - Window
Expired(t) == t < now - Window

\* pruneWindow: the timestamps from before the window are cut off the front, up to the first
\* one within it.
CutOff(w) ==
  CHOOSE i \in 0 .. Len(w) :
    (\A j \in 1 .. i : Expired(w[j])) /\ (i < Len(w) => ~Expired(w[i + 1]))
Pruned(w) == SubSeq(w, CutOff(w) + 1, Len(w))

\* The hook prunes what it looks at; the organisation's window is looked at
\* only when the user's has room.
UserHasRoom(u) == Len(Pruned(userWindow[u])) < PerUser
OrgHasRoom == Len(Pruned(orgWindow)) < PerOrg
Admits(u) == UserHasRoom(u) /\ OrgHasRoom

Accept(u) ==
  /\ Admits(u)
  /\ userWindow' = [userWindow EXCEPT ![u] = Append(Pruned(@), now)]
  /\ orgWindow' = Append(Pruned(orgWindow), now)
  /\ accepted' = Append(accepted, [user |-> u, at |-> now])
  /\ UNCHANGED now

Refuse(u) ==
  /\ ~Admits(u)
  /\ userWindow' = [userWindow EXCEPT ![u] = Pruned(@)]
  /\ orgWindow' = IF UserHasRoom(u) THEN Pruned(orgWindow) ELSE orgWindow
  /\ UNCHANGED <<now, accepted>>

\* cleanupStaleEntries, every five minutes.
Cleanup ==
  /\ userWindow' = [u \in User |-> Pruned(userWindow[u])]
  /\ orgWindow' = Pruned(orgWindow)
  /\ UNCHANGED <<now, accepted>>

Tick ==
  /\ now < MaxTime
  /\ now' = now + 1
  /\ UNCHANGED <<userWindow, orgWindow, accepted>>

Next == (\E u \in User : Accept(u) \/ Refuse(u)) \/ Cleanup \/ Tick

Spec == Init /\ [][Next]_vars

-----------------------------------------------------------------------------
InLastHour(S) ==
  Cardinality({i \in DOMAIN accepted : accepted[i].user \in S /\ accepted[i].at >= now - Window})

\* The windows, however they were pruned, count the last hour and nothing else:
\* nobody gets more than the limits through within an hour, and a request is
\* refused only when a limit has been used up; a refused request, or one
\* refused for the organisation's sake, uses up nothing.
CountsTheHour ==
  /\ InLastHour(User) <= PerOrg /\ \A u \in User : InLastHour({u}) <= PerUser
  /\ \A u \in User : Admits(u) <=> InLastHour({u}) < PerUser /\ InLastHour(User) < PerOrg
=============================================================================
