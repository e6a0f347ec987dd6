\* One approver is enough, as by default, and two sweeps at a time; an overdue
\* request is approved by the system, the policy that could do the most harm.
SPECIFICATION Spec
CONSTANTS
    Requests = {r1, r2}
    Users = {u1, u2}
    Tasks = {t1, t2}
    Sweepers = {s1, s2}
    System = system
    Required = 1
    AllowSelf = FALSE
    AutoReject = FALSE
    AutoApprove = TRUE
SYMMETRY Symmetry
INVARIANTS
    TypeOK
    RowsSound
    SystemWaitsForDeadline
PROPERTY NeverReopened
CHECK_DEADLOCK FALSE
