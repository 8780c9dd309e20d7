SPECIFICATION MergeSpec
CONSTANTS
    group = group
    Occ = {o1, o2}
    Currency = {group}
    Group = group
    Key = {k1, k2, k3}
    MaxPoints = 2
    Horizon = 2
    Never = 4
    Policy <- MCPolicy
    Rate <- MCRate
SYMMETRY Symmetric
CHECK_DEADLOCK FALSE
INVARIANTS
    HoldsSurviveMerges
PROPERTIES
    CleanUnlessRaced
    LifeNeverExtended
