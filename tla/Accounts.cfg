\* Two usages, two periods and two closings over a month and its end; or two
\* invitations, three accepts and a sweep; three calls in four ticks; or
\* three policies.
SPECIFICATION AccountsSpec
CONSTANTS
    Usages = {u1, u2}
    Quotas = {q1, q2}
    Periods = {m1, m2}
    Closings = {k1, k2}
    MaxRecords = 1
    LastMonth = 1
    Ids = {i1, i2}
    Accepts = {a1, a2, a3}
    Sweeps = {s1}
    Calls = {c1, c2, c3}
    LastTick = 3
    Minute = 1
    Hour = 2
    Day = 4
    PerMinute = 1
    PerHour = 2
    PerDay = 2
    Policies = {p1, p2, p3}
    Priorities = {0, 1}
    DefaultEffect = "deny"
    FailClosed = FALSE
    NoId = none
INVARIANTS
    AccountsTypeOK
    QuotaAgrees
    PeriodBills
    UsedOnce
    AcceptanceOnRecord
    WindowsBounded
PROPERTIES
    PolicyMovesItsWay
CHECK_DEADLOCK FALSE
