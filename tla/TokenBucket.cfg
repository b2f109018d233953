SPECIFICATION BucketSpec
CONSTANTS
    Rates <- SlowAndFast
    TicksPerSecond = 2
    MaxTime = 9
INVARIANTS BucketTypeOK WindowBound RetryAfterSuffices RetryAfterTight
CHECK_DEADLOCK FALSE
