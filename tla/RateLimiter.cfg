SPECIFICATION Spec
CONSTANTS
    a1 = a1  a2 = a2  q1 = q1  q2 = q2  r1 = r1  r2 = r2
    l1 = l1  l2 = l2  l3 = l3
    NoPool = NoPool  None = None
    Account <- Accounts
    Pool <- Pools
    Req <- Reqs
    Limiter <- Limiters
    PoolOf <- Pooling
    RPMs <- Settings
    GlobalRPM = 3
SYMMETRY Symmetry
INVARIANTS TypeOK BurstWithinLimit
CHECK_DEADLOCK FALSE
