\* One service for all requests to the API, a budget of one call, three calls at a
\* time; or two approval requests, of which two out of three people must approve,
\* two sweeps at a time, and overdue requests are rejected.
SPECIFICATION GovernanceSpec
CONSTANTS
    Tasks = {t1, t2, t3}
    Shared = shared
    None = none
    PerRequest = FALSE
    Limit = 1
    CallBound = 4
    Requests = {r1, r2}
    Users = {u1, u2, u3}
    Sweepers = {s1, s2}
    System = system
    Required = 2
    AllowSelf = FALSE
    AutoReject = TRUE
    AutoApprove = FALSE
SYMMETRY Symmetry
INVARIANTS
    GovernanceTypeOK
    BoundedOverrun
    CountsWhatItSpends
    TrailSound
    RowsSound
    ToldTheTruth
PROPERTY KeepsLifecycle
CHECK_DEADLOCK FALSE
