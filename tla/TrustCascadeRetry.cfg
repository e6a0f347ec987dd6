\* One revocation at a time, which may fail and be asked for again.
SPECIFICATION Spec
CONSTANTS
    Agents = {a1, a2}
    None = none
    Humans = {h1}
    Rows = {d1}
    Revokes = {j1, j2}
    Purges = {}
INVARIANT EveryDelegateRevoked
CHECK_DEADLOCK FALSE
