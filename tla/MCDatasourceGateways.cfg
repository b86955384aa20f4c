CONSTANTS
    r1 = r1
    r2 = r2
    r3 = r3
    s1 = s1
    s3 = s3
    c1 = c1
    c2 = c2
    Requests = {r1, r2, r3}
    Sources = {s1, s3}
    Registered = {s1}
    Samplings = {c1, c2}
    Asks <- MCAsks
    MaxCached = 1
    MaxCalls = 1
    None = None
SPECIFICATION Spec
CHECK_DEADLOCK FALSE
INVARIANTS
    CachedIsServing
    UnevictedIsExact
PROPERTY
    RequestEnds
