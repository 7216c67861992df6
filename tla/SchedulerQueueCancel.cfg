CONSTANTS
    s1 = s1
    r1 = r1
    r2 = r2
    Worker = {w1, w2}
    Nobody = Nobody
    Request = {r1}
    Schedule = {s1}
    ScheduleOf <- OneSchedule
    Limits = {1}
    MaxAttempts = 2
    RetryBase = 1
    RetryMax = 1
    AuthorityTTL = 1
    JobTTL = 1
    MaxFence = 3
    Moves = {}
    Idempotency = {TRUE}
SPECIFICATION FairSpec
PROPERTIES
    CancelSettles
