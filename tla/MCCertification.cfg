SPECIFICATION MCSpec
CONSTANTS
    None = None
    Null = Null
    k1 = k1
    p1 = p1
    p2 = p2
    Nonces <- MCNonces
    Keys = {k1}
    Payloads = {p1, p2}
    Scenarios <- MCScenarios
    Plans <- MCPlans
    Skew = 1
    Window = 2
    Ttl = 1
    Drifts <- MCDrifts
    MaxRequests = 3
    MaxTime = 3
    MaxAttempts = 5
    Names = {"a", "b"}
    Manifest <- MCManifest
    Trees <- MCTrees
    SuitesOf <- MCSuites
    MatrixRuns <- MCMatrixRuns
INVARIANTS
    ProcessedOnce
    NoSecondExecution
    BreakerHolds
    CatalogPasses
    SpanTrue
    PassMeansTested
    FailuresVisible
    ReportVerifies
