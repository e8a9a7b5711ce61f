SPECIFICATION BoundedSpec
CONSTANTS
  u1 = u1
  u2 = u2
  k1 = k1
  k2 = k2
  k3 = k3
  m1 = m1
  m2 = m2
  m3 = m3
  c1 = c1
  None = None
  NoStep = NoStep
  Handler = {h1, h2}
  Workflow = {w1}
  Steps = 1
  MaxDelegations = 1
  MaxTwins = 1
  Approver = {r1, r2, o1}
  Required = {r1, r2}
  Soa = {v1, v2, v3}
  User = {u1, u2}
  Plan = {p1, p2}
  FirstPlan = p1
  Task = {t1, t2}
  Test = {t1, t2}
  Evidence = {e1, e2}
  Session = {s1, s2, s3}
  MaxAttempts = 3
  Base = 2
  Width = 2
  MaxNumber = 5
  Call = {k1, k2, k3}
  Connection = {c1, c2, c3}
  Roles <- MemberRoles
  Opinion <- Opinions
  PerUser = 2
  PerOrg = 3
  Window = 2
  MaxTime = 5
  Scenario = {s1, s2}
  Implementation <- Implemented
  Likelihoods = {2, 5}
  Impacts = {2}
  Content = {"first", "second"}
  MaxVersions = 3
  Action = {a1, a2}
  Payloads <- PolicyParts
  MaxDocuments = 3
  Control = {c1, c2}
  Job = {k1, k2, k3}
  Owner <- LaneOf
  Scheduled = {k3}
  Signal = {s1, s2}
  Subjects = {"changes"}
SYMMETRY AnyHandler
INVARIANTS
  AllRequiredApproved
CHECK_DEADLOCK FALSE
