CONSTANTS
    Proc = {p1, p2}
    Call = {c1, c2}
    Hash = {ask}
    AskHash = {ask}
    MaxRuns = 1
    LeaseTTL = 1
    ApprovalTTL = 1
SPECIFICATION FairSpec
PROPERTIES
    RunEnds
    SessionFreed
