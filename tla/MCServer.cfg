CONSTANTS
    Methods <- Get
    Texts <- Requests
    Follow <- Answered
    BufferSize = 50
    Uris <- OneUri
    Globs <- Patterns
    Servlets = {"s1", "s2"}
    Matches <- Fnmatch
    MaxRequests = 2
    MaxReads = 2
    MaxTimeouts = 1
    MaxAdmin = 2
SPECIFICATION Spec
INVARIANTS HeadExact VerdictExact InOrder DispatchExact
PROPERTY SessionEnds
CHECK_DEADLOCK FALSE
