CONSTANTS
    Proc = {p1, p2}
    Call = {c1}
    Hash = {ask, free}
    AskHash = {ask}
    MaxRuns = 2
    LeaseTTL = 1
    ApprovalTTL = 1
SPECIFICATION Spec
SYMMETRY ProcSymmetry
INVARIANTS
    TypeOK
    SideEffectExclusion
    AtMostOnce
    ApprovedOnly
    ReceiptsTruthful
    OldRunsSettled
    OnePending
PROPERTIES
    SettledStays
