SPECIFICATION LiveSpec
CONSTANTS
    Occ = {o1, o2}
    Worker = {w1, w2}
    MaxVersion = 2
    firstNode = "wait"
    Nodes <- MCNodes
    Kind <- MCKind
    Succ <- MCSucc
    First <- MCFirst
CHECK_DEADLOCK FALSE
PROPERTIES
    NoEffectSkipped
    NoEffectAfterExit
    FollowsItsVersion
    HealthyParticipantsEnd
