\* One at-most-once client, lossy server (either binary), calls that fit
\* inside the dedup TTL.
CONSTANTS
    Clients = {c1}
    AMOClients = {c1}
    Requests <- MC_Requests
    MaxCalls = 2
    RetryCount = 2
    DedupTTL = 2
    CallSpan = 1
    MaxTime = 3
    ServerArgv <- MC_Lossy
    LateReplies = TRUE
    FirstAccNo = 10001
    NaN = NaN
    Servers = {"z_server_cpp", "server_cpp"}
    TimeoutMs = 500
SPECIFICATION Spec
INVARIANT TypeOK
INVARIANT AtMostOnce
INVARIANT ReplayIsOriginal
PROPERTY ReturnsToMenu
PROPERTY AmoRefinement
