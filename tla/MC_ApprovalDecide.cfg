SPECIFICATION Spec
CONSTANTS
  u1 = u1
  u2 = u2
  u3 = u3
  p1 = p1
  p2 = p2
  approver = approver
  NoTask = NoTask
  Users = {u1, u2, u3}
  Roles = {approver}
  Members <- MCMembers
  Admins = {u1}
  Templates <- JustAnyThenAll
  Workers = {p1, p2}
  Reconcilers = {}
  Ops = {"delegate", "cancel", "revoke"}
  Windows = {1}
  Durations = {0}
  MaxStages = 2
  MaxGen = 0
  MaxFaults = 0
  MaxTime = 0
CHECK_DEADLOCK FALSE
INVARIANTS VersionGuardsStatus StagesEarned
PROPERTIES TerminalIsFinal VerdictIsFinal
SYMMETRY WorkerSymmetry
