CONSTANTS
    Byte = {"cr", "nl", "len", "x", "key", "req", "get", "err"}
    RIO_BUFSIZE = 3
    MAXLINE = 5
    Responses <- MCResponses
    Length = 6
    MaxObjectSize = 16
    SizeMod = 64
    MaxSent = 24
SPECIFICATION FairSpec
INVARIANTS InOrder CachedAsSent WholeResponse
PROPERTIES RelayEnds
