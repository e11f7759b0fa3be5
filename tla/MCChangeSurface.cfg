CONSTANTS
    None = None
    NoRepo = NoRepo
    Unreadable = Unreadable
    mono = mono
    fork = fork
    updates = updates
    Names = {1, 2, 3, 4, 5}
    Roots <- MCRoots
    Repos = {mono, fork}
    Ids = {1, 2, 3, 4, 5}
    CallsOf <- MCCallsOf
    StaticCallsOf <- MCStaticCallsOf
    PublishesTo <- MCPublishesTo
    ConsumesFrom <- MCConsumesFrom
    Hops = 2
    Cap = 3
    StartTables <- MCStartTables
    Indexings <- MCIndexings
    Found <- MCFound
    HintLists <- MCHintLists
    Rankings <- MCRankings
    Answers <- MCAnswers
    MaxDependencies = 1
    MaxServices = 2
    Diffs <- MCDiffs
    MaxChanges = 1
    MaxRuns = 1
    MaxVerdicts = 1
SPECIFICATION Spec
INVARIANTS
    CandidatesKeepBoth
    VerdictsFollowFiles
CHECK_DEADLOCK FALSE
