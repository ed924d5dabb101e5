CONSTANTS
    MaxSteps = 4
    Patience = 2
    Tolerance = 1
    Values = {1, 3}
    NonFinite = 9
    Origins = 2
    Samples = 3
    Chunk = 2
    Grid = 2
    MaxBroken = 1
    MaxAttempts = 3
SPECIFICATION Spec
CHECK_DEADLOCK FALSE
INVARIANTS
    SameAsOneRun
    SavesAreAccepted
