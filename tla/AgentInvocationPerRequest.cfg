\* The wiring of api/external_agents.py: each request has its own service.
SPECIFICATION Spec
CONSTANTS
    Tasks = {t1, t2}
    Shared = shared
    None = none
    PerRequest = TRUE
    Limit = 1
    CallBound = 3
PROPERTY HardLimitBlocks
CHECK_DEADLOCK FALSE
