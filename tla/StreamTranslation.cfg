SPECIFICATION Spec
CONSTANTS
    t1 = t1  t2 = t2
    First = t1
    Tool <- TwoTools
    MaxChunks = 4
INVARIANTS TypeOK ContentArrives
PROPERTIES StreamIsAnthropic
CHECK_DEADLOCK FALSE
