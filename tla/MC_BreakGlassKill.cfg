SPECIFICATION Spec
CONSTANTS
  h1 = h1
  h2 = h2
  r1 = r1
  r2 = r2
  Handlers = {h1, h2}
  Reconcilers = {r1}
  Policies <- NoReview
  Requested = {0}
  Overrides = {0}
  Floor = 1
  MaxMints = 2
  MaxFaults = 0
  MaxTime = 1
CHECK_DEADLOCK FALSE
INVARIANT KillSwitchSevers
