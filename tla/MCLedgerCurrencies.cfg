SPECIFICATION Spec
CONSTANTS
    group = group
    brand = brand
    Occ = {o1, o2}
    Currency = {group, brand}
    Group = group
    Key = {k1, k2, k3}
    MaxPoints = 2
    Horizon = 2
    Never = 4
    Policy <- MCPolicy
    Rate <- MCRate
SYMMETRY Symmetric
CHECK_DEADLOCK FALSE
INVARIANTS
    TypeOK
    AvailableIsLots
    BooksBalance
    LogExplainsSystemAccounts
PROPERTIES
    ImplementsLiability
