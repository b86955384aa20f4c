SPECIFICATION FairSpec
CHECK_DEADLOCK FALSE
CONSTANTS
    p1 = p1
    Requests = {p1}
    MaxTurns = 4
INVARIANTS
    ClarificationIsResumedOnce
PROPERTIES
    TurnEnds
