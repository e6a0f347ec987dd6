\* A stop, a redeploy and a promotion of the one running deployment that overlap.
SPECIFICATION MCSystemSpec
CONSTANTS
    Deployments = {d1, d2, d3}
    Running = {d1}
    None = none
    Deploys = {q1}
    Stops = {s1}
    Redeploys = {r1}
    Promotions = {p1}
    Creates = {q1}
    Approves = {}
    Rejects = {}
    Executes = {}
INVARIANTS
    TypeOK
    ActiveIsServed
    LeftoverHasCause
PROPERTIES
    KeepsPromotion
    StopHolds
    ComesToRest
CHECK_DEADLOCK FALSE
