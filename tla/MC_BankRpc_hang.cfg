\* The client started with --timeout 0.5 --retry 2: main's atoi reads the
\* timeout as 0, and the server drops the first request.  The client hangs,
\* so the system may stop.
CONSTANTS
    Clients = {c1}
    AMOClients <- MC_HangAMO
    Requests <- MC_Requests
    MaxCalls = 1
    RetryCount <- MC_HangRetry
    DedupTTL = 2
    CallSpan = 1
    MaxTime = 2
    ServerArgv <- MC_ReqLoss
    LateReplies = FALSE
    FirstAccNo = 10001
    NaN = NaN
    Servers = {"z_server_cpp"}
    TimeoutMs <- MC_HangTimeoutMs
SPECIFICATION Spec
PROPERTY ReturnsToMenu
CHECK_DEADLOCK FALSE
