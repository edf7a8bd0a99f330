CONSTANTS
    p1 = p1
    p2 = p2
    Procs = {p1, p2}
    Commands <- MCCommands
    Paths <- MCPaths
    Texts <- MCTexts
    UserTexts = {"draft", "tidy"}
    Fmt <- MCFmt
    Empty = ""
    Decompilations <- MCDecompilations
    SkillFiles <- MCSkillFiles
    InitialDisks <- MCInitialDisks
    MaxEdits = 1
SPECIFICATION Spec
SYMMETRY Symmetry
INVARIANTS
    TypeOK
    RefusedWritesNothing
    ReadableFilesNeedForce
    CheckTellsTheTruth
    AnnouncedFilesAreThere
CHECK_DEADLOCK FALSE
