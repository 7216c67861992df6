CONSTANTS
    s1 = s1
    r1 = r1
    r2 = r2
    Worker = {w1, w2}
    Nobody = Nobody
    Request = {r1, r2}
    Schedule = {s1}
    ScheduleOf <- OneSchedule
    Limits = {1, 2}
    MaxAttempts = 2
    RetryBase = 1
    RetryMax = 1
    AuthorityTTL = 2
    JobTTL = 2
    MaxFence = 3
    Moves = {"enabled", "paused", "cancelled"}
    Idempotency = {TRUE, FALSE}
SPECIFICATION Spec
SYMMETRY WorkerSymmetry
CONSTRAINT Bounded
INVARIANTS
    TypeOK
    SingleWriter
    ConcurrencyLimit
    NonIdempotentOnce
    OutcomeTruthful
PROPERTIES
    SettledStays
