CONSTANTS
    c1 = c1
    c2 = c2
    NoPlan = NoPlan
    Clients <- MCClients
    Plans = {1}
    Surfaces <- TwoDecisions
    Tables <- OneTable
    KindOf <- MCKindOf
    Tree <- MCTree
    Owner <- MCOwner
    MaxHints = 1
    MaxDecisions = 2
SPECIFICATION Spec
PROPERTIES
    RetryIsSafe
