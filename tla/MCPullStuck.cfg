SPECIFICATION PullSpec
CONSTANTS
    Runner = {"r1"}
    Rows <- mcRows
    Poison <- mcPoison
    BatchSize = 2
    Precision = 2
    MaxBreaks = 1
PROPERTY
    EveryRowIsPulled
CHECK_DEADLOCK FALSE
