CONSTANTS
    d1 = d1
    d2 = d2
    c1 = c1
    q1 = q1
    Daemons = {d1, d2}
    Clients = {c1}
    Ports = {q1}
    Ops = {"auto", "daemon", "status", "stop"}
    MaxPolls = 1
SPECIFICATION FairSpec
PROPERTIES
    CommandsEnd
    StartsSettle
CHECK_DEADLOCK FALSE
