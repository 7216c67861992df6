CONSTANTS
    x1 = x1
    x2 = x2
    Core = {c1, c2}
    Nobody = Nobody
    Merge = {m1}
    Base = Base
    Workspace = {x1, x2}
    Writer = {u1}
    Overlap <- OnePair
    RequireReview = FALSE
    RollbackOnFailure = FALSE
    WriterTTL = 1
    OwnerTTL = 1
    MaxFencing = 1
SPECIFICATION FairSpec
PROPERTIES
    ExpiredRecovered
