SPECIFICATION LiveSpec
CONSTANTS
    group = group
    brand = brand
    Occ = {o1, o2}
    Currency = {group}
    Group = group
    Key = {k1, k2, k3, k4}
    MaxPoints = 1
    Horizon = 2
    Never = 4
    Policy <- MCPolicy
    Rate <- MCRate
CHECK_DEADLOCK FALSE
INVARIANTS
    ReservedIsHeld
PROPERTIES
    OverdueLotsAreSwept
