\* The same world against the comment on ErrDNSHandleResolutionFailed.
CONSTANTS
    DIDs <- MCDIDs
    Supported <- MCSupported
    DocumentHost <- MCDocumentHost
    HandleHost = "web"
    Hosts <- MCHosts
    Addresses = {"public1", "public2", "private"}
    Safe = {"public1", "public2"}
    Answers <- MCAnswers
    Documents <- MCDocuments
    MaxRetries = 1
SPECIFICATION Spec
PROPERTY AllDNSFailuresFallBack
