SPECIFICATION FairSpec
CONSTANTS
    c1 = c1
    c2 = c2
    Clusters = {c1, c2}
    AdhocClusters = {}
    r1 = r1
    Requests = {r1}
    w1 = w1
    w2 = w2
    Workers = {w1, w2}
    MinOccurrences = 1
    MinSuccessful = 1
    MaxGenerationAttempts = 2
    MaxJobsPerTick = 2
    ProposedTypes = {"METRIC"}
    MaxQuestions = 1
    MaxJobs = 2
    MaxFaults = 1
PROPERTIES
    QueuedIsServed
