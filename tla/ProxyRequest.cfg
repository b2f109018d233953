SPECIFICATION FairSpec
CONSTANTS
    a1 = a1  a2 = a2  a3 = a3  r1 = r1  r2 = r2  None = None
    Account <- ThreeAccounts
    Req <- OneRequest
    MaxAttempts = 3
    Edits = 2
INVARIANTS TypeOK OneAnswer NoAccountTwice BodiesClosed ExchangesAreRecorded
PROPERTIES PoolKeepsToItsAccounts Answered
CHECK_DEADLOCK FALSE
