CONSTANTS
    d1 = d1
    d2 = d2
    c1 = c1
    q1 = q1
    q2 = q2
    Daemons = {d1, d2}
    Clients = {c1}
    Ports = {q1, q2}
    Ops = {"auto"}
    MaxPolls = 1
SPECIFICATION Spec
SYMMETRY Symmetry
INVARIANTS
    OneDaemonServes
CHECK_DEADLOCK FALSE
