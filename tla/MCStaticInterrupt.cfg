CONSTANTS
    handlers = handlers
    schema = schema
    Inputs = {handlers, schema}
    Nothing = Nothing
    MaxClock = 1
    MaxAnalyzer = 1
    Reverts = FALSE
    Interrupts = TRUE
SPECIFICATION Spec
INVARIANT FactsAreWhole
