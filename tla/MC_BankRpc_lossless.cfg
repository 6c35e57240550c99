\* One at-least-once client, no loss, no late datagrams: can a request
\* still be dispatched twice?
CONSTANTS
    Clients = {c1}
    AMOClients = {}
    Requests <- MC_Requests
    MaxCalls = 2
    RetryCount = 2
    DedupTTL = 2
    CallSpan = 1
    MaxTime = 4
    ServerArgv <- MC_NoLoss
    LateReplies = FALSE
    FirstAccNo = 10001
    NaN = NaN
    Servers = {"z_server_cpp"}
    TimeoutMs = 500
SPECIFICATION Spec
INVARIANT NoDuplicateWithoutLoss
