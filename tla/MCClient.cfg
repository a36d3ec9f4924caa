CONSTANTS
    Callers = {c1, c2}
    MaxAlive = 1
    MaxRequest = 2
    BufferSize = 120
    Methods <- Get
    Urls <- AllUrls
    PoolUri <- Wanted
    PoolHost <- Vhost
    HeaderSets <- Hdrs
    Kinds = {"plain", "chunked"}
    Usual = "plain"
    Tags <- TagBytes
    Answer <- AnswerOf
    MaxCalls = 3
    MaxTime = 1
    MaxReads = 2
    MaxTimeouts = 1
    MaxCloses = 1
SYMMETRY Alike
SPECIFICATION Spec
INVARIANTS UriExact RequestArrives PoolExact OwnAnswer
CHECK_DEADLOCK FALSE
