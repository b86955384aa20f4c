SPECIFICATION Spec
CHECK_DEADLOCK FALSE
SYMMETRY Symmetry
CONSTANTS
    t1 = t1
    t2 = t2
    a1 = a1
    a2 = a2
    Tables = {t1}
    Joins <- NoJoins
    DataTypes = {"int", "text"}
    Actors = {a1, a2}
    Routes = {"scan", "review", "temporal"}
    MaxCalls = 4
    MaxSchemaChanges = 1
    MaxFaults = 1
INVARIANTS
    ConfirmedWasApproved
    ReferencesResolve
PROPERTIES
    ScanMarksWhatBroke
