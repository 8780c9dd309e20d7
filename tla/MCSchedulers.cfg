SPECIFICATION Spec
CONSTANTS
    \* auto-earn
    Guest = {1}
    Bill = {1, 2}
    Amounts = {0, 1, 3}
    Dates = {0, 1}
    Rules <- mcRules
    MaxPoints = 4
    MaxBigint = 6
    Factors = {2}
    EarnBatch = 1
    \* tiers
    Shopper = {1, 2}
    Visit = {1, 2}
    Totals = {2, 4}
    Threshold <- mcThreshold
    Keep <- mcKeep
    Cycle = "ROLLING"
    Period = 2
    LastDate = 3
    \* pull
    Runner = {"r1", "r2"}
    Rows <- mcRows
    Poison <- mcPoison
    BatchSize = 2
    Precision = 1
    MaxBreaks = 2
INVARIANTS
    HistoryExplainsTier
PROPERTIES
    
    
    EveryRowIsPulled
CHECK_DEADLOCK FALSE
