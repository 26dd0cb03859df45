SPECIFICATION PoolSpec
CONSTANTS
    p1 = p1
    p2 = p2
    e1 = e1
    e2 = e2
    c1 = c1
    c2 = c2
    Callers = {p1, p2}
    Entries = {e1, e2}
    NoEntry = NoEntry
    Clients = {c1, c2}
    NoClient = NoClient
    MaxSessions = 1
INVARIANTS
    PoolTypeOK
    DisposedStaysClosed
PROPERTIES
    EvictionSparesUsers
    AcquireReturns
    IdleReclaimed
