CONSTANTS
    Types = {"a", "b"}
    Versions <- MCVersions
    NoVersion = NoVersion
    Lists <- MCLists
    Needles <- MCNeedles
    Requests <- MCRequests
SPECIFICATION Spec
INVARIANTS
    TypeOK
    BestIsLatest
    SchemaAgreesWithTypes
CHECK_DEADLOCK FALSE
