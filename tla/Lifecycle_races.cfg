SPECIFICATION Spec
CONSTANTS
    a1 = a1  a2 = a2  p1 = p1
    i1 = i1  i2 = i2  c1 = c1  c2 = c2
    Direct = Direct  Deleted = Deleted  None = None
    Account <- TwoAccounts
    Proxy <- OneProxy
    Inst <- TwoInsts
    Caller <- TwoCallers
    MaxRetries = 0
CHECK_DEADLOCK FALSE
SYMMETRY Symmetry
CONSTRAINT Bound
INVARIANTS NoClosePanic RunningIsTended RunningUsesAccountProxy DeletedIsNotRunning OneRunningPerAccount
