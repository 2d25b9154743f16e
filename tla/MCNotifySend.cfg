\* Two retries under a context that ends early or late, values of at most twelve
\* bytes, and one webhook or both.
CONSTANTS
    MaxRetries = 2
    BaseDelay = 1
    MaxDelay = 2
    MaxRetryAfter = 5
    DurationRange = 64
    AttemptTimeout = 1
    Deadlines = {2, 5}
    Latencies = {0}
    Headers <- MCHeaders
    CloseMayFail = TRUE
    Control = {"LF", "esc"}
    Wide = {"kana"}
    MaxPayloadLength = 12
    MarkerLength = 3
    Outcomes <- MCOutcomes
    Webhooks = {{"success"}, {"success", "failure"}}
SPECIFICATION SendSpec
INVARIANTS
    SendTruthful
    ContextsReleased
    PayloadFits
