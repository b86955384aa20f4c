CONSTANTS
    Nil = Nil
    Tokenholders = {a1, a2}
    SigningKeys = {k1, k2}
    Checkers = {q1, q2}
SPECIFICATION Spec
SYMMETRY Symmetry
CHECK_DEADLOCK FALSE
INVARIANTS
    TranscriptIsWhole
    
    ReadsArePermitted
    NewestVerdictStands
    RunIsWhole
    EveryReplyIsAccounted
    PlannedIsOffered
    RanIsAskedFor
    HistoryIsTheSchema
    RotationIsFollowed
    VerdictIsAboutTheTurn
    PeriodsAreExact
    ValidIffSafe
    ResolvesToTheOne
    NothingInvented
