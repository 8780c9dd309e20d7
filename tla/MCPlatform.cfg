SPECIFICATION Spec
CONSTANTS
    \* consent and deliveries
    Person = {1, 2}
    Delivery = {v1, v2}
    MaxRecords = 3
    MaxSends = 2
    \* token bucket
    Caller = {1, 2}
    Capacity = 2
    Refill = 1
    MaxIdle = 1
    SweepEvery = 2
    LastMoment = 4
    MaxAdmitted = 4
    \* intake
    Sending = {"s1", "s2", "s3", "s4", "s5"}
    Contact = {1, 2}
    What <- mcWhat
    MaxFailures = 2
    \* access
    Ask = {1, 2}
    User = {"u1", "u2"}
    Key = {"k1"}
    FirstRole <- mcFirstRole
    Tried <- mcTried
    Given = {"csr", "admin"}
    Lifetime = 1
    LastHour = 1
    MaxTokens = 2
    \* identity resolution
    MaxTx = 4
    Strong = {v1, v2}
    Weak = {z}
    MaxIds = 2
    \* journey canvas
    NodeId = {1, 2, 3}
    Palette = {"wait", "condition"}
    MaxEdges = 3
    \* editors
    Browser = {"b"}
    Draft = {blank, v1, v2}
    Fit = {v1, v2}
    Blank = blank
    MaxCalls = 3
    \* console
    MaxWrites = 3
    \* desks
    Subject = {v1, v2}
    MaxTurns = 3
SYMMETRY mcSymmetric
INVARIANTS
    ChainVerifies
    
    RateIsBounded
    OneSalePerMessage
    HandledWasEntitled
    CanvasAgrees
    
    
    ShownTogether
PROPERTIES
    ResolvesAgree
CHECK_DEADLOCK FALSE
