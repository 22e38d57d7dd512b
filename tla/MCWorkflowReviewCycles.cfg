SPECIFICATION Spec
CONSTANTS
    MaxModelCalls = 2
    MaxToolCalls = 7
    Workers = 1
    MaxRecovery = 3
    MaxReviewCycles = 2
    RecursionLimits = {21}
    MaxMajors = 1
    RepoProbes <- ProbeCounts
    ChangeWeights <- Weights
INVARIANT
    ReviewCyclesBounded
