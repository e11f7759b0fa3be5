CONSTANTS
    None = None
    p1 = p1
    p2 = p2
    p3 = p3
    mono = mono
    fork = fork
    noRepo = noRepo
    orders = orders
    billing = billing
    ordersRoot = ordersRoot
    billingRoot = billingRoot
    forkRoot = forkRoot
    Names = {orders, billing}
    NoRepo = noRepo
    Roots = {ordersRoot, billingRoot}
    Repos = {mono}
    Ids = {1, 2}
    Procs = {p1, p2}
    Commands <- WithUpdate
    MaxLaunches = 3
SPECIFICATION Spec
INVARIANT ServiceExclusion
