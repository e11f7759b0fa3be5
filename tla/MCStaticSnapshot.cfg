CONSTANTS
    handlers = handlers
    schema = schema
    Inputs = {handlers, schema}
    Nothing = Nothing
    MaxClock = 4
    MaxAnalyzer = 2
    Reverts = FALSE
    Interrupts = FALSE
SPECIFICATION Spec
INVARIANTS
    TypeOK
    SnapshotTrusted
PROPERTIES
    NewSnapshotIsTrue
    StillRunIsReusable
