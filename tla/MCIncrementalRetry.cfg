CONSTANTS
    route1 = route1
    route2 = route2
    main = main
    controller = controller
    Files = {route1, main}
    Endpoints = {1}
    Components = {controller}
    RouteFile <- SmallRouteFile
    ExtraFiles <- SmallExtraFiles
    ComponentOf <- SmallComponentOf
    HintFiles <- SmallHintFiles
    EntryFile = main
    Deletable = {}
    Nothing = Nothing
    MaxClock = 2
    Reverts = FALSE
    EditsBeforeHash = FALSE
SPECIFICATION Spec
INVARIANT OverviewIsRetried
