\* Two hosts of which DNS answers none, one or two addresses, and one retry.
CONSTANTS
    DIDs <- MCDIDs
    Supported <- MCSupported
    DocumentHost <- MCDocumentHost
    HandleHost = "web"
    Hosts <- MCHosts
    Addresses = {"public1", "public2", "private"}
    Safe = {"public1", "public2"}
    Answers <- MCAnswers
    Documents <- MCDocuments
    MaxRetries = 1
SPECIFICATION Spec
INVARIANTS
    TypeOK
    RequestsStayPinned
    EveryAttemptChecked
    AccountOfHandle
    RefusalIsFinal
