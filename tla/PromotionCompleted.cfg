\* One promotion without approval, which the target gateway refuses.
SPECIFICATION PromotionSpec
CONSTANTS
    Deployments = {d1, d2}
    Running = {d1}
    None = none
    Makers = {c1}
    Promotions = {p1}
    Creates = {c1}
    Approves = {}
    Rejects = {}
    Executes = {}
    Stoppable = {}
INVARIANT CompletedMeansPromoted
CHECK_DEADLOCK FALSE
