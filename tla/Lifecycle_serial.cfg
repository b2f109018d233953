SPECIFICATION FairSpec
CONSTANTS
    a1 = a1  a2 = a2  p1 = p1
    i1 = i1  i2 = i2  c1 = c1  c2 = c2
    Direct = Direct  Deleted = Deleted  None = None
    Account <- OneAccount
    Proxy <- OneProxy
    Inst <- TwoInsts
    Caller <- OneCaller
    MaxRetries = 1
CHECK_DEADLOCK FALSE
INVARIANTS TypeOK
PROPERTIES ClosedEndsLoop ExpiredIsRefreshed
