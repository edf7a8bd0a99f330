CONSTANT
    Invocations <- MCInvocations
SPECIFICATION FairSpec
INVARIANTS
    TypeOK
    UsageErrorsAskNobody
    
    FindingsArePrinted
    NoServerIsLeft
PROPERTY
    InvocationEnds
CHECK_DEADLOCK FALSE
