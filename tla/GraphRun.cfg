CONSTANTS
    Node = {1, 2, 3, 4}
    Definitions <- Shapes
    MaxAttempts = 2
    MaxParallel = 2
    MaxIterations = 2
    MaxStarts = 2
SPECIFICATION FairSpec
INVARIANTS
    TypeOK
    CompletedTruthful
    EffectOnce
    UnknownHeld
    NeverStuck
PROPERTIES
    ResultStays
    Promise
    DrivenEnds
CHECK_DEADLOCK FALSE
