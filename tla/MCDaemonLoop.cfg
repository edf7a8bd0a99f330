CONSTANTS
    c1 = c1
    c2 = c2
    First = c1
    Conns = {c1, c2}
    Kinds = {"mcp", "status", "shutdown", "unauthorized", "silent"}
    Limits = {0, 2}
    PreambleSecs = 1
SPECIFICATION OrderedSpec
INVARIANTS
    TypeOK
    ActiveIsExact
PROPERTIES
    NoCallIsPendingAtIdleTimeout
    IdleDaemonEnds
    AcknowledgedStopEnds
    UpstreamLossEnds
    SilentConnectionsClose
    ServesAsDiscoverySays
CHECK_DEADLOCK FALSE
