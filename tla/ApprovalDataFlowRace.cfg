\* The default timeouts, two approvers: does a rejection decide?
SPECIFICATION Spec
CONSTANTS
    Requests = {r1}
    Users = {u1, u2, u3}
    Tasks = {t1, t2}
    Sweepers = {s1}
    System = system
    Required = 2
    AllowSelf = FALSE
    AutoReject = FALSE
    AutoApprove = FALSE
PROPERTY RejectionIsFinal
CHECK_DEADLOCK FALSE
