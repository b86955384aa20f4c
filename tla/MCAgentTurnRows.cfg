SPECIFICATION Spec
CHECK_DEADLOCK FALSE
CONSTANTS
    p1 = p1
    Requests = {p1}
    MaxTurns = 2
INVARIANT
    AnswersCarryLiveRows
