\* One promotion, and a call of the endpoint that executes it.
SPECIFICATION PromotionSpec
CONSTANTS
    Deployments = {d1, d2}
    Running = {d1}
    None = none
    Makers = {c1, e1}
    Promotions = {p1}
    Creates = {c1}
    Approves = {}
    Rejects = {}
    Executes = {e1}
    Stoppable = {}
INVARIANT DeployedOnApproval
CHECK_DEADLOCK FALSE
