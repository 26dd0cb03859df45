SPECIFICATION FairSpec
CONSTANTS
  u1 = u1
  u2 = u2
  u3 = u3
  p1 = p1
  p2 = p2
  approver = approver
  NoTask = NoTask
  Users = {u1, u2}
  Roles = {approver}
  Members <- MCMembers
  Admins = {u1}
  Templates <- Shrinking
  Workers = {p1}
  Reconcilers = {"r1", "r2"}
  Ops = {"rewindow", "template"}
  Windows = {0}
  Durations = {1}
  MaxStages = 2
  MaxGen = 0
  MaxFaults = 1
  MaxTime = 2
CHECK_DEADLOCK FALSE
INVARIANT ApprovedHasGrant
PROPERTIES ImplementsRequestLife EveryRequestEnds ElapsedGrantsClose
