\* A call that outlives the dedup entry (retryCount * timeoutMs longer than
\* the 60 s TTL, e.g. --timeout 20000 --retry 5).  The reply is lost; a
\* resend after the TTL is dropped, and the sweep that follows it removes
\* the entry; the next resend is dispatched again.
CONSTANTS
    Clients = {c1}
    AMOClients = {c1}
    Requests <- MC_Requests
    MaxCalls = 1
    RetryCount = 3
    DedupTTL = 1
    CallSpan = 2
    MaxTime = 2
    ServerArgv <- MC_Lossy
    LateReplies = FALSE
    FirstAccNo = 10001
    NaN = NaN
    Servers = {"z_server_cpp"}
    TimeoutMs = 500
SPECIFICATION Spec
INVARIANT AtMostOnce
