CONSTANTS
    c1 = c1
    c2 = c2
    NoPlan = NoPlan
    Clients <- MCClients
    Plans = {1}
    Surfaces <- OneDecision
    Tables <- StableTables
    KindOf <- MCKindOf
    Tree <- MCTree
    Owner <- MCOwner
    MaxHints = 1
    MaxDecisions = 1
SPECIFICATION Spec
SYMMETRY Symmetry
INVARIANTS
    TypeOK
    PlansAgree
    ResultsNameChecks
PROPERTIES
    ClosureSeesChecks
    PassedWasRun
