SPECIFICATION Spec
SYMMETRY Symmetry
CHECK_DEADLOCK FALSE
CONSTANTS
    p1 = p1
    p2 = p2
    Requests = {p1, p2}
    MaxTurns = 3
INVARIANTS
    ExecutesOnlyWhatItValidated
    AskingBackRunsNoQuery
    AnswersRestOnTheirQuery
    EvidenceIsEarned
