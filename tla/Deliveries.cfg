\* Two deliveries to a webhook, each tried twice, or two results of
\* invocations, each tried three times.
SPECIFICATION MCOrderedSpec
CONSTANTS
    Deliveries = {d1, d2}
    None = none
    MaxPosts = 2
    Invocations = {i1, i2}
    MaxAgentPosts = 3
INVARIANTS
    MCTypeOK
    OutcomeOnRecord
    DoubleDeliveryExplained
    ConsecutiveFailures
    AgentDeliveryOnRecord
PROPERTIES
    PromiseKept
CHECK_DEADLOCK FALSE
