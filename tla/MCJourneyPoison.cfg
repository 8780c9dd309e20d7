SPECIFICATION LiveSpec
CONSTANTS
    Occ = {o1, o2}
    Worker = {w1}
    MaxVersion = 2
    firstNode = "unfit"
    Nodes <- MCNodes
    Kind <- MCKind
    Succ <- MCSucc
    First <- MCFirst
CHECK_DEADLOCK FALSE
PROPERTIES
    HealthyParticipantsEnd
