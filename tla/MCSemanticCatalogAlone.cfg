SPECIFICATION Spec
CHECK_DEADLOCK FALSE
CONSTANTS
    t1 = t1
    t2 = t2
    a1 = a1
    a2 = a2
    Tables = {t1, t2}
    Joins <- OneJoin
    DataTypes = {"int", "text"}
    Actors = {a1}
    Routes = {"scan", "review", "temporal", "example"}
    MaxCalls = 3
    MaxSchemaChanges = 2
    MaxFaults = 0
INVARIANTS
    UsableExamplesMatch
PROPERTIES
    ScanKeepsReview
