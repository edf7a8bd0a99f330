CONSTANTS
    c1 = c1
    c2 = c2
    Clients = {c1, c2}
    Lines = 2
SPECIFICATION FairSpec
INVARIANTS
    TypeOK
    OneResultEach
    ExitTellsFailure
    EachCallIsMadeOnce
PROPERTIES
    BatchesEnd
CHECK_DEADLOCK FALSE
