CONSTANTS
    Node = {1, 2, 3, 4}
    Definitions <- Slots
    MaxAttempts = 1
    MaxParallel = 1
    MaxIterations = 2
    MaxStarts = 1
SPECIFICATION Spec
INVARIANTS
    FailsOnlyIdle
CHECK_DEADLOCK FALSE
