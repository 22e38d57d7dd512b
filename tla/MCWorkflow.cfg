SPECIFICATION FairSpec
CONSTANTS
    MaxModelCalls = 2
    MaxToolCalls = 7
    Workers = 1
    MaxRecovery = 2
    MaxReviewCycles = 2
    RecursionLimits = {14, 18}
    MaxMajors = 1
    RepoProbes <- ProbeCounts
    ChangeWeights <- Weights
INVARIANTS
    TypeOK
    ShippedIsVerified
    ShippedIsGated
    ShippedIsApproved
    EndsForCause
    ExperienceIsOutcome
PROPERTIES
    Terminates
    ImplementsChangeControl
