SPECIFICATION FairSpec
CONSTANTS
  h1 = h1
  h2 = h2
  r1 = r1
  r2 = r2
  Handlers = {h1}
  Reconcilers = {r1}
  Policies <- MCPolicies
  Requested = {0}
  Overrides = {0}
  Floor = 1
  MaxMints = 5
  MaxFaults = 1
  MaxTime = 2
CHECK_DEADLOCK FALSE
INVARIANTS AuditGatesAccess AccessNeedsApproval
PROPERTIES LapsedEnds DecidedEnds
