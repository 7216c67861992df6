CONSTANTS
    x1 = x1
    x2 = x2
    Core = {c1, c2}
    Nobody = Nobody
    Merge = {m1, m2}
    Base = Base
    Workspace = {x1}
    Writer = {u1, u2}
    Overlap <- NoPair
    RequireReview = TRUE
    RollbackOnFailure = TRUE
    WriterTTL = 1
    OwnerTTL = 1
    MaxFencing = 2
SPECIFICATION Spec
SYMMETRY Symmetry
INVARIANTS
    TypeOK
    LandsOnce
    RecordedTruthfully
PROPERTIES
    ResultStays
