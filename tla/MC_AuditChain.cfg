SPECIFICATION FairSpec
CONSTANTS
  c1 = c1
  c2 = c2
  Callers = {c1, c2}
  ChanSize = 1
  CritSize = 1
  BatchSize = 2
  Instants = {1}
  Resolution = 2
  Faults = {"insert", "ambiguous", "seed", "genesis", "crash"}
  MaxFaults = 2
  MaxEvents = 3
  MaxStarts = 2
CHECK_DEADLOCK FALSE
INVARIANTS TypeOK ChainContinues SealOnChain
PROPERTY AcceptedIsRecorded
