SPECIFICATION Spec
CONSTANTS
  c1 = c1
  c2 = c2
  Callers = {c1, c2}
  ChanSize = 1
  CritSize = 1
  BatchSize = 2
  Instants = {0, 1}
  Resolution = 2
  Faults = {}
  MaxFaults = 0
  MaxEvents = 3
  MaxStarts = 1
CHECK_DEADLOCK FALSE
INVARIANT ChainVerifies
