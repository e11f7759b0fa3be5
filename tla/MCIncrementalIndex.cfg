CONSTANTS
    route1 = route1
    route2 = route2
    main = main
    controller = controller
    Files = {route1, route2, main}
    Endpoints = {1, 2}
    Components = {controller}
    RouteFile <- MCRouteFile
    ExtraFiles <- MCExtraFiles
    ComponentOf <- MCComponentOf
    HintFiles <- MCHintFiles
    EntryFile = main
    Deletable = {route1, route2}
    Nothing = Nothing
    MaxClock = 3
    Reverts = FALSE
    EditsBeforeHash = FALSE
SPECIFICATION Spec
VIEW ExistingOverview
INVARIANTS
    RowsTrusted
    QuietRunCallsNothing
    SettledRowsCurrent
