SPECIFICATION MCSpec
CONSTANTS
    ServiceIds <- MCServiceIds
    NameOf <- MCNameOf
    RepositoryOf <- MCRepositoryOf
    AnalysesOf <- MCAnalysesOf
    RelationsOf <- MCRelationsOf
    OwnerOf <- MCOwnerOf
    MaxEdges = 3
    MaxVisible = 3
    FanThreshold = 1
    ComponentFanThreshold = 1
    RootOf <- MCRootOf
    TreesOf <- MCTreesOf
INVARIANTS
    EndpointErrorsAccounted
    RetryBlamesOneCheckout
    DownstreamUnitsRestOnFlow
    UnitIdsUnique
    CloudNamesReconciled
    ConfigurationReviewed
    OwnershipReviewedOnce
    NonAtomicPublishReportedOnce
    ChannelsReviewed
    CyclesAreMutual
