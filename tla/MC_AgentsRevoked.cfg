SPECIFICATION AgentSpec
CONSTANTS
    Agents = {a1}
    Tunnels = {t1, t2}
    NoTunnel = NoTunnel
    MaxAdminOps = 2
    MaxRenews = 0
    MaxCrashes = 0
PROPERTIES
    RevokedStaysRevoked
CHECK_DEADLOCK FALSE
