SPECIFICATION Spec
CONSTANTS
    Agents = {a1}
    Tunnels = {t1, t2}
    NoTunnel = NoTunnel
    MaxAdminOps = 2
    MaxRenews = 1
    MaxCrashes = 1
    cut = cut
    policy = policy
    low = low
    Changes = {cut, policy, low}
    HighRisk = {cut, policy}
    Cutting = {cut}
    Defaults = {policy}
    NoChange = NoChange
    Tools = {"nftables"}
    Silent = {cut}
    MaxApplies = 2
INVARIANTS
    TypeOK
    ActivationFirst
    NoGhostRoute
    CutIsWatched
PROPERTIES
    DeadTunnelsLeave
    OnlineIsBacked
    UncommittedUndone
    CommittedStays
CHECK_DEADLOCK FALSE
