CONSTANTS
    c1 = c1
    First = c1
    Conns = {c1}
    Kinds = {"mcp"}
    Limits = {1}
    PreambleSecs = 1
SPECIFICATION Spec
PROPERTIES
    IdlenessCountsFromTheLastClient
CHECK_DEADLOCK FALSE
