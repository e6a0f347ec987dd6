\* A promotion with a request of each kind, over one running deployment that may be
\* stopped and two to be made.
SPECIFICATION MCSpec
CONSTANTS
    Deployments = {d1, d2, d3}
    Running = {d1}
    None = none
    Makers = {c1, a1, e1, o1}
    Promotions = {p1}
    Creates = {c1}
    Approves = {a1}
    Rejects = {r1}
    Executes = {e1}
    Stoppable = {d1}
INVARIANTS
    PromotionTypeOK
    ApprovedFirst
    ClosedOnce
    ClosingStands
    NamesItsDeployment
    StrandedByError
SYMMETRY Symmetry
CHECK_DEADLOCK FALSE
