SPECIFICATION Spec
CONSTANTS
    c1 = c1
    Clusters = {c1}
    AdhocClusters = {}
    r1 = r1
    Requests = {r1}
    w1 = w1
    Workers = {w1}
    MinOccurrences = 1
    MinSuccessful = 1
    MaxGenerationAttempts = 2
    MaxJobsPerTick = 2
    ProposedTypes = {"FILTER"}
    MaxQuestions = 2
    MaxJobs = 2
    MaxFaults = 0
INVARIANTS
    GeneratesOverNothing
