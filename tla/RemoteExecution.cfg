CONSTANTS
    j1 = j1
    j2 = j2
    Job = {j1, j2}
    NoJob = NoJob
    Kind <- AllKinds
    Dispatcher = {d1, d2}
    Owner = {o1}
    MaxConcurrent = 2
    LeaseTTL = 1
    MaxLeases = 2
SPECIFICATION Spec
SYMMETRY DispatcherSymmetry
CONSTRAINT Few
INVARIANTS
    TypeOK
    Agreed
PROPERTIES
    Promise
