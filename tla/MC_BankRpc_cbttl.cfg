\* One at-least-once client that registers a monitor and then opens an
\* account after its window: is a callback sent to the expired entry?
CONSTANTS
    Clients = {c1}
    AMOClients = {}
    Requests <- MC_Requests
    MaxCalls = 2
    RetryCount = 2
    DedupTTL = 2
    CallSpan = 1
    MaxTime = 4
    ServerArgv <- MC_NoLoss
    LateReplies = FALSE
    FirstAccNo = 10001
    NaN = NaN
    Servers = {"z_server_cpp"}
    TimeoutMs = 500
SPECIFICATION Spec
PROPERTY CallbacksOnlyToLive
