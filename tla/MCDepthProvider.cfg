SPECIFICATION Spec
CONSTANTS
    Roots <- MCRoots
    AnalysesOf <- MCAnalysesOf
    Answers <- MCAnswers
    MaxEdges = 3
    CacheEntries = 1
    Threshold = 2
    Cooldown = 2
    Timeout = 1
    MaxRequests = 4
    MaxTime = 3
CONSTRAINT Explored
INVARIANTS
    CircuitBreaks
    FlowsEnrichedWholly
    UnrelatedSymbolsIgnored
CHECK_DEADLOCK FALSE
