\* The same policy: a response whose body hangs until the attempt's own timeout.
CONSTANTS
    MaxRetries = 2
    BaseDelay = 2
    MaxDelay = 8
    MaxRetryAfter = 172800
    DurationRange = 1048576
    AttemptTimeout = 6
    Deadlines = {30}
    Latencies = {0, 5}
    Headers <- SlowDownHeaders
    CloseMayFail = FALSE
SPECIFICATION Spec
INVARIANT DrainAbortsOnlyWhenContextEnded
