CONSTANTS
    Core = {c1, c2}
    Nobody = Nobody
    Schedule = {s1}
    Definitions <- Mixed
    Minute = 2
    TTL = 1
    Interval = 2
    MaxTime = 4
    MaxVersion = 2
    MaxChange = 2
    Moves = {"paused"}
SPECIFICATION Spec
SYMMETRY CoreSymmetry
INVARIANTS
    TypeOK
    WriterLeads
    PassedOver
    OnTimeFires
PROPERTIES
    WatchForward
CONSTRAINT Second
