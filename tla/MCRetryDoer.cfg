\* Two retries, with durations of three bits so that the second doubling
\* overflows, and headers on both sides of MaxDelay and of maxRetryAfterSeconds.
CONSTANTS
    MaxRetries = 2
    BaseDelay = 2
    MaxDelay = 3
    MaxRetryAfter = 5
    DurationRange = 8
    AttemptTimeout = 2
    Deadlines = {0, 3, 5, 7, 20}
    Latencies = {0, 1}
    Headers <- MCHeaders
    CloseMayFail = TRUE
SPECIFICATION Spec
INVARIANTS
    TypeOK
    RetriesJustified
    BodiesSettled
    PacingHonoured
    DeadlineHonoured
    BudgetHonoured
