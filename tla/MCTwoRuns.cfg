\* Two overlapping runs with different retention periods, each call one attempt.
CONSTANTS
    r1 = r1
    r2 = r2
    Runs <- TwoRuns
    Threshold <- TwoThresholds
    Records <- FewRecords
    Initial <- FewRecords
    Modes = {TRUE}
    Interrupted = {}
    MaxRetries = 0
    OwnDID = "did:own"
    OtherDID = "did:other"
SPECIFICATION Spec
PROPERTY Promise
