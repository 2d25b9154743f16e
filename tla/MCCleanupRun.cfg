\* One run with its retries, over a post, a repost and a record that does not decode.
CONSTANTS
    r1 = r1
    r2 = r2
    Runs <- OneRun
    Threshold <- OneThreshold
    Records <- ManyRecords
    Initial <- ManyInitially
    Modes = {TRUE, FALSE}
    Interrupted <- OneRun
    MaxRetries = 1
    OwnDID = "did:own"
    OtherDID = "did:other"
SPECIFICATION FairSpec
INVARIANTS
    TypeOK
    ErasedWasEligible
    FailsClosed
    OwnAccountOnly
    ReportTruthful
    CleanExitMeansClean
    SignalsAgree
PROPERTIES
    EveryRunEnds
    Promise
