\* Two at-most-once clients share the server: their request ids coincide
\* and each may get callbacks for the other's operations.
CONSTANTS
    Clients = {c1, c2}
    AMOClients = {c1, c2}
    Requests <- MC_Requests
    MaxCalls = 1
    RetryCount = 2
    DedupTTL = 2
    CallSpan = 1
    MaxTime = 2
    ServerArgv <- MC_Lossy
    LateReplies = FALSE
    FirstAccNo = 10001
    NaN = NaN
    Servers = {"z_server_cpp"}
    TimeoutMs = 500
SPECIFICATION Spec
INVARIANT ReplayIsOriginal
PROPERTY AmoRefinement
