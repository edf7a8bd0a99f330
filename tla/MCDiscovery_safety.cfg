CONSTANTS
    d1 = d1
    d2 = d2
    c1 = c1
    q1 = q1
    q2 = q2
    Daemons = {d1, d2}
    Clients = {c1}
    Ports = {q1, q2}
    Ops = {"auto", "daemon", "spawn", "status", "stop"}
    MaxPolls = 1
SPECIFICATION Spec
SYMMETRY Symmetry
INVARIANTS
    TypeOK
    CleanExitLeavesNoState
    NoOtherDaemonAcknowledges
    AutoGivesUpOnTheDeadOnly
    ServingIsDiscoverable
PROPERTIES
    ImplementsService
CHECK_DEADLOCK FALSE
