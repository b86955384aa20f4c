SPECIFICATION Spec
SYMMETRY Symmetry
CONSTANTS
    c1 = c1
    Clusters = {c1}
    AdhocClusters = {c1}
    r1 = r1
    r2 = r2
    Requests = {r1, r2}
    w1 = w1
    w2 = w2
    Workers = {w1, w2}
    MinOccurrences = 2
    MinSuccessful = 1
    MaxGenerationAttempts = 2
    MaxJobsPerTick = 2
    ProposedTypes = {"METRIC", "QUERY_EXAMPLE", "FILTER"}
    MaxQuestions = 4
    MaxJobs = 2
    MaxFaults = 1
INVARIANTS
    ExclusiveGeneration
    PendingIsClaimable
    OneCandidatePerCluster
    CandidatesRestOnEvidence
    OrphansComeFromFaults
PROPERTIES
    ReviewOutlivesGeneration
    ImplementsLifecycle
