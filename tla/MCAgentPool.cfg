SPECIFICATION FairSpec
CONSTANTS
    MaxModelCalls = 4
    MaxToolCalls = 1
    Workers = 2
    MaxIterations = 2
    MaxRetries = 1
    MaxRequested = 2
    Subtasks <- ThreeSubtasks
    Plans <- FanInAndChain
INVARIANTS
    TypeOK
    ChargesCovered
PROPERTIES
    DependenciesFirst
    NodeReturns
    ImplementsNode
