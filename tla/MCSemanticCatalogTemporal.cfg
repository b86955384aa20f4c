SPECIFICATION Spec
CHECK_DEADLOCK FALSE
CONSTANTS
    t1 = t1
    t2 = t2
    a1 = a1
    a2 = a2
    Tables = {t1}
    Joins <- NoJoins
    DataTypes = {"int"}
    Actors = {a1}
    Routes = {"scan", "review", "temporal"}
    MaxCalls = 4
    MaxSchemaChanges = 0
    MaxFaults = 0
PROPERTIES
    ScanKeepsTemporal
