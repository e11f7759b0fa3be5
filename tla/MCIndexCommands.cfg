CONSTANTS
    None = None
    p1 = p1
    p2 = p2
    p3 = p3
    mono = mono
    fork = fork
    noRepo = noRepo
    orders = orders
    billing = billing
    ordersRoot = ordersRoot
    billingRoot = billingRoot
    forkRoot = forkRoot
    Names = {orders, billing}
    NoRepo = noRepo
    Roots = {ordersRoot, forkRoot}
    Repos = {mono, fork}
    Ids = {1, 2, 3}
    Procs = {p1, p2}
    Commands <- Everything
    MaxLaunches = 3
SPECIFICATION FairSpec
INVARIANTS
    TypeOK
    LockRowIsMine
PROPERTIES
    ImplementsMutex
    EveryCommandEnds
