\* A cascade and a revocation by origin, over chains of two delegations.
SPECIFICATION Spec
CONSTANTS
    Agents = {a1, a2, a3}
    None = none
    Humans = {h1}
    Rows = {d1, d2}
    Revokes = {j1}
    Purges = {j2}
SYMMETRY Symmetry
INVARIANTS
    TypeOK
    ReportTrue
    CascadeReaches
PROPERTY OnlyDownstreamRevoked
CHECK_DEADLOCK FALSE
