CONSTANTS
    None = None
    p1 = p1
    p2 = p2
    mono = mono
    fork = fork
    noRepo = noRepo
    orders = orders
    billing = billing
    ghost = ghost
    stripe = stripe
    ordersRoot = ordersRoot
    billingRoot = billingRoot
    forkRoot = forkRoot
    service = service
    Names = {orders, billing}
    Roots = {ordersRoot, billingRoot, forkRoot}
    Repos = {mono, fork}
    NoRepo = noRepo
    Ids = {1, 2, 3}
    Procs = {p1, p2}
    Commands <- Steady
    MaxLaunches = 3
    Targets = {orders, billing, ghost, stripe}
    Answers <- MCAnswers
    Folded <- MCFolded
    Suffix <- MCSuffix
    Vendors = {stripe}
SPECIFICATION Spec
INVARIANTS
    TypeOK
    CallsReconciled
    LinksAreNamed
