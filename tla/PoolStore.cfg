SPECIFICATION Spec
CONSTANTS
    a1 = a1  a2 = a2  q1 = q1  q2 = q2  c1 = c1  c2 = c2  None = None
    Account <- Accounts
    Pool <- Pools
    Caller <- TwoCallers
    Crashes = 1
SYMMETRY Symmetry
INVARIANTS TypeOK Exclusive
PROPERTIES StoreIsRegistry
