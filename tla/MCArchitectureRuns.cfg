SPECIFICATION FairSpec
CONSTANTS
    a = a
    b = b
    Services <- MCServices
    CheckoutOf <- OneCheckout
    CodeFacts = {1}
    IacFacts <- MCIacFacts
    IacTables = 2
    NoCode = NoCode
    NoInfrastructure = NoInfrastructure
    Commands = {c1, c2}
    Detectors = 2
    FindingsOf <- MCFindingsOf
CHECK_DEADLOCK FALSE
INVARIANTS
    QuietViewCurrent
PROPERTIES
    ViewSettles
