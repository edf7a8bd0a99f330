CONSTANTS
    c1 = c1
    First = c1
    Conns = {c1}
    Kinds = {"status"}
    Limits = {0}
    PreambleSecs = 1
SPECIFICATION FairSpec
PROPERTIES
    SignalEnds
CHECK_DEADLOCK FALSE
