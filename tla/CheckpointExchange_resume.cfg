CONSTANTS
    MaxAttempts = 2
    TotalSteps = 1
    Continuations = 1
SPECIFICATION FairSpec
CHECK_DEADLOCK FALSE
INVARIANTS
    AckIsFundedAndDurable
    OneWorkerOfLineage
    NothingRepeated
PROPERTIES
    SavedEndIsGenuine
    SessionEnds
