CONSTANTS
    NoOffset = NoOffset
    NoText = NoText
    Files <- MCFiles
    Texts <- MCTexts
    InitialDisks <- MCInitialDisks
    RawUris <- MCRawUris
    Offsets = {0, 2, 3, 6}
    MaxDiagnostics = 2
    MaxEdits = 1
SPECIFICATION Spec
INVARIANTS
    TypeOK
    PlacedInOneText
    EscapedUrisAreFollowed
CHECK_DEADLOCK FALSE
