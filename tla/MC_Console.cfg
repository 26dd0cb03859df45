SPECIFICATION Spec
CONSTANTS
    Runs = {r1, r2, r3, r4}
    NoRun = NoRun
    Backoffs = 2
    MaxClicks = 1
    MaxSessions = 1
    Calls = {k1, k2, k3, k4}
    NoCall = NoCall
    DeskBackoffs = 2
    MaxDeskClicks = 2
    MaxReports = 2
    MaxStarts = 3
    MaxReconnect = 1
    MaxRdpClicks = 2
    f1 = f1
    f2 = f2
    f3 = f3
    dir = dir
    NoDir = NoDir
    Files = {f1, f2, f3}
    Batches <- MCBatches
    DirOf <- MCDirOf
    Concurrency = 2
    MaxDriveClicks = 3
    MaxLapses = 2
INVARIANTS
    TypeOK
    StatusIsBacked
    NoOrphanSession
    OneConnection
    DisconnectSticks
    PumpKeepsUp
    CancelWins
    ShownIsSo
    RdpLetsGo
PROPERTIES
    ClosedStaysClosed
    EveryWaitEnds
CHECK_DEADLOCK FALSE
