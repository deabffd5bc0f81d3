SPECIFICATION Spec
CONSTANTS
    CaseCount = 2
    FailClosed = {2}
    MaxAttempts = 2
    FileNames = {n1, n2}
INVARIANTS
    StrayDecksOnly
    FailuresAreFinal
PROPERTY
    RunEnds
