SPECIFICATION OutreachSpec
CONSTANTS
    Person = {1, 2}
    Delivery = {}
    MaxRecords = 3
    MaxSends = 1
INVARIANTS
    WithdrawalHolds
CHECK_DEADLOCK FALSE
