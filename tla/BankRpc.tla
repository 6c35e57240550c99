------------------------------ MODULE BankRpc ------------------------------
(***************************************************************************)
(* The RPC runtime of the bank: the client invoker (Client::call and the   *)
(* monitor loop of Client::handleMonitor, src/client_cpp/src/client.cpp)   *)
(* talking over UDP to the single-threaded server dispatcher (the loop of  *)
(* main in src/z_server_cpp/src/main.cpp) with its dedup cache, its        *)
(* monitor registry and the ledger (module Ledger).                        *)
(* The legacy server of src/server_cpp runs the same loop with fewer      *)
(* opCodes; which binary was started is the variable server.              *)
(*                                                                         *)
(* The network is a bag of datagrams in flight: any of them can arrive     *)
(* next (UDP reorders), two copies of one datagram stay two datagrams.  A  *)
(* datagram for a client lands in that client's socket receive queue       *)
(* (rcvq), which recvfrom reads in arrival order.  The server reads its    *)
(* datagrams straight from the bag.  Loss is what the code injects: the    *)
(* server drops a request (lossReq) or a reply (lossRep).                  *)
(*                                                                         *)
(* Time is a clock of ticks (seconds of steady_clock).  A datagram is      *)
(* delivered within the tick it is sent in; a call lasts at most CallSpan  *)
(* ticks (retryCount * timeoutMs); a client's receive timeout may fire     *)
(* whenever its queue is empty, which covers a reply that is still on the  *)
(* way (a timeout racing a late answer).                                   *)
(***************************************************************************)
EXTENDS Integers, Sequences, FiniteSets, Bags, BagsExt, TLC

CONSTANTS
    Clients,      \* client processes, one UDP socket each
    AMOClients,   \* the clients started with --sem atmost (flags bit 0)
    Requests,     \* request bodies the clients' menu handlers build
    MaxCalls,     \* bound: calls one client makes
    RetryCount,   \* --retry: attempts of one call
    DedupTTL,     \* ticks a dedup entry lives (60 s in main.cpp)
    CallSpan,     \* ticks one call may last (retryCount * timeoutMs)
    MaxTime,      \* bound: ticks of idle time
    ServerArgv,   \* the server's command line (argv[1 ..], byte strings)
    LateReplies,  \* a datagram may take longer than timeoutMs to arrive
    FirstAccNo,   \* first account number of the ledger
    NaN,          \* the double NaN (a model value; request bodies carry none)
    Servers,      \* server binaries the clients may be talking to:
                  \*   "z_server_cpp" and the legacy "server_cpp"
    TimeoutMs     \* --timeout of the clients, in ms

ASSUME AMOClients \subseteq Clients
ASSUME MaxCalls \in Nat \ {0} /\ RetryCount \in Nat \ {0}
ASSUME {DedupTTL, CallSpan, MaxTime} \subseteq Nat
ASSUME LateReplies \in BOOLEAN
ASSUME Servers \subseteq {"z_server_cpp", "server_cpp"} /\ TimeoutMs \in Int

L == INSTANCE Ledger
SV == INSTANCE ServerCli

\* The options the server was started with.  A command line it rejects
\* prints the usage and exits before the socket is bound: no such run.
SrvConfig == SV!ServerConfig(ServerArgv)
ASSUME SrvConfig.runs

VARIABLES
    server,     \* the server binary that was started (fixed)
    store,      \* Bank bank: accounts and the account-number allocator
    monitors,   \* std::vector<MonitorEntry>: Seq([addr, expireAt])
    dedup,      \* unordered_map dedup: key -> [reply, expireAt]
    srvPhase,   \* "sweep": top of the loop; "recv": blocked in recvfrom
    net,        \* bag of datagrams in flight
    rcvq,       \* [Clients -> Seq(datagram)]: client socket receive queues
    pc,         \* [Clients -> {"idle", "call", "monitor", "exited"}]
    calls,      \* [Clients -> Nat]: calls begun; the current request id
    req,        \* [Clients -> request body] of the current call
    attempt,    \* [Clients -> Nat]: attempt of the current call
    callStart,  \* [Clients -> Nat]: tick the current call began
    winEnd,     \* [Clients -> Nat]: endTime of the monitor loop
    now,        \* steady_clock::now(), in ticks
    executed,   \* history: [c][k] -> times the server dispatched request k of c
    replied,    \* history: [c][k] -> the reply the first dispatch built
    sent,       \* history: [c][k] -> the request body of call k
    ret         \* [Clients -> {"none", "reply", "failed"}]: what the last call returned

vars == <<server, store, monitors, dedup, srvPhase, net, rcvq, pc, calls, req, attempt,
          callStart, winEnd, now, executed, replied, sent, ret>>

NoReply == [type |-> "none"]

-----------------------------------------------------------------------------
(* Datagrams.  The request id is a fresh random 64-bit number per call;    *)
(* the model uses the call number k, unique per client.                    *)

ReqMsg(c, k, b) ==
    [type |-> "Req", src |-> c, rid |-> k, amo |-> c \in AMOClients, body |-> b]

RepMsg(c, k, st, out) ==
    [type |-> "Rep", dst |-> c, rid |-> k, status |-> st, out |-> out]

\* The body of a CALLBACK_UPDATE: updateType, accountNo, currency, newBalance.
Event(op, acc, cur, bal) == [upd |-> op, acc |-> acc, cur |-> cur, bal |-> bal]

CbMsg(c, ev) == [type |-> "Cb", dst |-> c, ev |-> ev]

\* Mutant of Key: the dedup key leaves out clientKey (ip:port).
KeyNoSource(m) == m.rid

\* addrToKey(clientAddr): "ip:port" of the sender.
ClientKey(m) == m.src

\* dedupKey = clientKey + "#" + requestId
Key(m) == <<ClientKey(m), m.rid>>

\* sendUpdateCallback, once per event: one datagram per registry entry, in
\* registry order (a client registered twice gets two copies).
CallbackBag(events) ==
    LET pairs  == (1 .. Len(events)) \X (1 .. Len(monitors))
        msg(p) == CbMsg(monitors[p[2]].addr, events[p[1]])
    IN  [x \in {msg(p) : p \in pairs} |-> Cardinality({p \in pairs : msg(p) = x})]

\* The outcomes of the lossReq and lossRep draws.
RequestDrops == SV!Draws(SrvConfig.lossReq)
ReplyDrops   == SV!Draws(SrvConfig.lossRep)

-----------------------------------------------------------------------------
(* The dispatch on opCode: the reply status and body, the new ledger, the  *)
(* callback events and the registry entries added.                         *)

Outcome(r, out, events, mon) ==
    [status |-> r.status, store |-> r.store, out |-> out, events |-> events, monitor |-> mon]

IfOk(r, x) == IF r.status = "OK" THEN x ELSE <<>>

HandleOpen(b) ==
    LET r == L!OpenAccount(store, b.name, b.pw, b.cur, b.amount)
    IN  Outcome(r, r.out, IfOk(r, <<Event("OPEN", r.out.accountNo, b.cur, r.out.balance)>>), <<>>)

HandleClose(b) ==
    LET r == L!CloseAccount(store, b.name, b.acc, b.pw)
        a == r.store.accounts[b.acc]
    IN  Outcome(r, IF r.status = "OK" THEN [msg |-> "account closed"] ELSE r.out,
                IfOk(r, <<Event("CLOSE", b.acc, a.currency, a.balance)>>), <<>>)

HandleDeposit(b) ==
    LET r == L!Deposit(store, b.name, b.acc, b.pw, b.cur, b.amount)
    IN  Outcome(r, r.out, IfOk(r, <<Event("DEPOSIT", b.acc, b.cur, r.out.newBal)>>), <<>>)

HandleWithdraw(b) ==
    LET r == L!Withdraw(store, b.name, b.acc, b.pw, b.cur, b.amount)
    IN  Outcome(r, r.out, IfOk(r, <<Event("WITHDRAW", b.acc, b.cur, r.out.newBal)>>), <<>>)

HandleTransfer(b) ==
    LET r == L!Transfer(store, b.name, b.acc, b.pw, b.to, b.cur, b.amount)
    IN  Outcome(r, r.out, IfOk(r, <<Event("TRANSFER", b.acc, b.cur, r.out.fromBal),
                                    Event("TRANSFER", b.to, b.cur, r.out.toBal)>>), <<>>)

HandleQuery(b) ==
    LET r == L!QueryBalance(store, b.name, b.acc, b.pw)
    IN  Outcome(r, r.out, <<>>, <<>>)

\* MONITOR_REGISTER: expireAt = now() + seconds; always OK.
HandleMonitor(b, src) ==
    Outcome(L!Ok(store, L!NoOut), [msg |-> "monitor registered"], <<>>,
            <<[addr |-> src, expireAt |-> now + b.secs]>>)

Handle(b, src) ==
    CASE b.op = "OPEN"             -> HandleOpen(b)
      [] b.op = "CLOSE"            -> HandleClose(b)
      [] b.op = "DEPOSIT"          -> HandleDeposit(b)
      [] b.op = "WITHDRAW"         -> HandleWithdraw(b)
      [] b.op = "TRANSFER"         -> HandleTransfer(b)
      [] b.op = "QUERY_BALANCE"    -> HandleQuery(b)
      [] b.op = "MONITOR_REGISTER" -> HandleMonitor(b, src)

\* The opCodes z_server_cpp dispatches (protocol.hpp).
ZServerOps == {"OPEN", "CLOSE", "DEPOSIT", "WITHDRAW", "MONITOR_REGISTER",
               "QUERY_BALANCE", "TRANSFER"}

\* The opCodes of the legacy server (src/server_cpp/src/protocol.hpp).
LegacyOps == {"OPEN", "QUERY_BALANCE", "MONITOR_REGISTER"}

\* The dispatch of the legacy server: its OPEN (with the callback loop
\* written out in place), QUERY_BALANCE and MONITOR_REGISTER branches are
\* those of z_server_cpp; any other opCode is ERR_BAD_REQUEST and changes
\* nothing.
LegacyHandle(b, src) ==
    IF b.op \in LegacyOps THEN Handle(b, src)
    ELSE Outcome(L!Fail(store, "ERR_BAD_REQUEST"), L!NoOut, <<>>, <<>>)

\* Mutant of CacheEntry: the reply skeleton (status OK, empty body) is
\* cached before dispatch fills it in.
CacheEntrySkeleton(rep) ==
    [reply |-> [rep EXCEPT !.status = "OK", !.out = L!NoOut], expireAt |-> now + DedupTTL]

\* The dedup entry stored for a reply: the encoded reply bytes.
CacheEntry(rep) == [reply |-> rep, expireAt |-> now + DedupTTL]

\* Mutant of DedupHit: the lookup is left out.
DedupHitMissing(m) == FALSE

\* dedup.find(dedupKey) != dedup.end(), consulted only for at-most-once.
DedupHit(m) == m.amo /\ Key(m) \in DOMAIN dedup

-----------------------------------------------------------------------------
(* The server loop.                                                        *)

\* Top of the loop: drop the registry entries and dedup entries with
\* expireAt <= t, then block in recvfrom.
ServerSweep ==
    /\ srvPhase = "sweep"
    /\ monitors' = SelectSeq(monitors, LAMBDA e : e.expireAt > now)
    /\ dedup' = [k \in {k \in DOMAIN dedup : dedup[k].expireAt > now} |-> dedup[k]]
    /\ srvPhase' = "recv"
    /\ UNCHANGED <<server, store, net, rcvq, pc, calls, req, attempt, callStart, winEnd, ret,
                   now, executed, replied, sent>>

\* uni(rng) < lossReq: the datagram is read and dropped.
ServerDropRequest(m) ==
    /\ net' = BagRemove(net, m)
    /\ UNCHANGED <<store, monitors, dedup, executed, replied>>

\* An at-most-once request whose key is cached: re-send the cached reply
\* to the address it came from (subject to lossRep) without dispatching.
ServerReplay(m) ==
    /\ DedupHit(m)
    /\ \E drop \in ReplyDrops :
          net' = IF drop THEN BagRemove(net, m)
                 ELSE BagAdd(BagRemove(net, m), [dedup[Key(m)].reply EXCEPT !.dst = m.src])
    /\ UNCHANGED <<store, monitors, dedup, executed, replied>>

\* Dispatch: callbacks go out during dispatch, the reply is cached if the
\* request is at-most-once, then it is sent unless lossRep drops it.
ServerExecute(m) ==
    /\ ~DedupHit(m)
    /\ LET o    == IF server = "server_cpp" THEN LegacyHandle(m.body, m.src)
                   ELSE Handle(m.body, m.src)
           rep  == RepMsg(m.src, m.rid, o.status, o.out)
           rest == BagRemove(net, m) (+) CallbackBag(o.events)
       IN  /\ store' = o.store
           /\ monitors' = monitors \o o.monitor
           /\ dedup' = IF m.amo THEN dedup @@ (Key(m) :> CacheEntry(rep)) ELSE dedup
           /\ \E drop \in ReplyDrops :
                 net' = IF drop THEN rest ELSE BagAdd(rest, rep)
           /\ executed' = [executed EXCEPT ![m.src][m.rid] = @ + 1]
           /\ replied' = IF replied[m.src][m.rid] = NoReply
                         THEN [replied EXCEPT ![m.src][m.rid] = rep]
                         ELSE replied

ServerRecv ==
    /\ srvPhase = "recv"
    /\ \E m \in BagToSet(net) :
          /\ m.type = "Req"
          /\ \E drop \in RequestDrops :
                IF drop THEN ServerDropRequest(m)
                ELSE ServerReplay(m) \/ ServerExecute(m)
    /\ srvPhase' = "sweep"
    /\ UNCHANGED <<server, rcvq, pc, calls, req, attempt, callStart, winEnd, now, sent, ret>>

-----------------------------------------------------------------------------
(* The client.                                                             *)

\* The user picks a menu entry; call() draws a request id and sends
\* attempt 1.
StartCall(c) ==
    /\ pc[c] = "idle"
    /\ calls[c] < MaxCalls
    /\ \E b \in Requests :
          /\ req' = [req EXCEPT ![c] = b]
          /\ net' = BagAdd(net, ReqMsg(c, calls[c] + 1, b))
          /\ sent' = [sent EXCEPT ![c][calls[c] + 1] = b]
    /\ calls' = [calls EXCEPT ![c] = @ + 1]
    /\ attempt' = [attempt EXCEPT ![c] = 1]
    /\ callStart' = [callStart EXCEPT ![c] = now]
    /\ pc' = [pc EXCEPT ![c] = "call"]
    /\ UNCHANGED <<server, store, monitors, dedup, srvPhase, rcvq, winEnd, now, executed,
                   replied, ret>>

\* Mutant of NextAttempt: the loop runs while attempt <= retryCount.
NextAttemptOffByOne(c) ==
    IF attempt[c] <= RetryCount
    THEN /\ attempt' = [attempt EXCEPT ![c] = @ + 1]
         /\ net' = BagAdd(net, ReqMsg(c, calls[c], req[c]))
         /\ UNCHANGED <<pc, ret>>
    ELSE /\ pc' = [pc EXCEPT ![c] = "idle"]
         /\ ret' = [ret EXCEPT ![c] = "failed"]
         /\ UNCHANGED <<attempt, net>>

\* Mutant of NextAttempt: the attempt counter is not advanced, so the loop
\* resends for as long as nothing accepted arrives.
NextAttemptNoCount(c) ==
    /\ net' = BagAdd(net, ReqMsg(c, calls[c], req[c]))
    /\ UNCHANGED <<attempt, pc, ret>>

\* `continue` in the attempt loop: send the next attempt, or give up after
\* retryCount attempts (call returns false).
NextAttempt(c) ==
    IF attempt[c] < RetryCount
    THEN /\ attempt' = [attempt EXCEPT ![c] = @ + 1]
         /\ net' = BagAdd(net, ReqMsg(c, calls[c], req[c]))
         /\ UNCHANGED <<pc, ret>>
    ELSE /\ pc' = [pc EXCEPT ![c] = "idle"]
         /\ ret' = [ret EXCEPT ![c] = "failed"]
         /\ UNCHANGED <<attempt, net>>

\* SO_RCVTIMEO as Client::call sets it (DWORD tv = timeoutMs): 0 means
\* recvfrom waits for a datagram forever; a negative value becomes at
\* least 2^31 ms, far beyond any call the model follows.
RecvTimesOut == TimeoutMs > 0

\* A request of c, or a datagram for c, is still in flight.
InFlightFor(c) ==
    \E m \in BagToSet(net) : IF m.type = "Req" THEN m.src = c ELSE m.dst = c

\* recvfrom timed out (SO_RCVTIMEO = timeoutMs) with nothing queued; unless
\* datagrams can be late, only when nothing for c is on the way.
ClientTimeout(c) ==
    /\ pc[c] = "call"
    /\ RecvTimesOut
    /\ rcvq[c] = <<>>
    /\ LateReplies \/ ~InFlightFor(c)
    /\ NextAttempt(c)
    /\ UNCHANGED <<rcvq, winEnd>>

\* Mutant of IsOwnReply: the request id is not compared.
IsOwnReplyAnyRid(c, m) == m.type = "Rep"

\* msgType is Reply and requestId is the one this call drew.
IsOwnReply(c, m) == m.type = "Rep" /\ m.rid = calls[c]

\* The datagram read is a callback or a reply to another request: the code
\* `continue`s, which ends the attempt.
ClientDiscard(c) ==
    /\ pc[c] = "call"
    /\ rcvq[c] # <<>>
    /\ ~IsOwnReply(c, Head(rcvq[c]))
    /\ rcvq' = [rcvq EXCEPT ![c] = Tail(@)]
    /\ NextAttempt(c)
    /\ UNCHANGED winEnd

\* The reply of this call: call returns it.  After an OK MONITOR_REGISTER,
\* handleMonitor waits for callbacks until now + seconds.
ClientAccept(c) ==
    /\ pc[c] = "call"
    /\ rcvq[c] # <<>>
    /\ IsOwnReply(c, Head(rcvq[c]))
    /\ rcvq' = [rcvq EXCEPT ![c] = Tail(@)]
    /\ ret' = [ret EXCEPT ![c] = "reply"]
    /\ IF req[c].op = "MONITOR_REGISTER" /\ Head(rcvq[c]).status = "OK"
       THEN /\ pc' = [pc EXCEPT ![c] = "monitor"]
            /\ winEnd' = [winEnd EXCEPT ![c] = now + req[c].secs]
       ELSE /\ pc' = [pc EXCEPT ![c] = "idle"]
            /\ UNCHANGED winEnd
    /\ UNCHANGED <<attempt, net>>

\* One pass of the monitor loop that reads a datagram: callbacks are shown,
\* anything else is ignored.
MonitorRecv(c) ==
    /\ pc[c] = "monitor"
    /\ now < winEnd[c]
    /\ rcvq[c] # <<>>
    /\ rcvq' = [rcvq EXCEPT ![c] = Tail(@)]
    /\ UNCHANGED <<pc, attempt, winEnd, net, ret>>

\* The loop condition now < endTime fails: back to the menu.  Datagrams
\* still queued stay in the socket.
MonitorEnd(c) ==
    /\ pc[c] = "monitor"
    /\ now >= winEnd[c]
    /\ pc' = [pc EXCEPT ![c] = "idle"]
    /\ UNCHANGED <<rcvq, attempt, winEnd, net, ret>>

ClientStep(c) ==
    /\ \/ ClientTimeout(c)
       \/ ClientDiscard(c)
       \/ ClientAccept(c)
       \/ MonitorRecv(c)
       \/ MonitorEnd(c)
    /\ UNCHANGED <<server, store, monitors, dedup, srvPhase, calls, req, callStart,
                   now, executed, replied, sent>>

\* Menu entry 0: the client process ends and its socket is closed.
Exit(c) ==
    /\ pc[c] = "idle"
    /\ pc' = [pc EXCEPT ![c] = "exited"]
    /\ UNCHANGED <<server, store, monitors, dedup, srvPhase, net, rcvq, calls, req, attempt,
                   callStart, winEnd, now, executed, replied, sent, ret>>

-----------------------------------------------------------------------------
(* Network and time.                                                       *)

\* A datagram for a client arrives in its socket queue (dropped if the
\* socket is closed).
Deliver ==
    \E m \in BagToSet(net) :
       /\ m.type # "Req"
       /\ net' = BagRemove(net, m)
       /\ rcvq' = IF pc[m.dst] = "exited" THEN rcvq
                  ELSE [rcvq EXCEPT ![m.dst] = Append(@, m)]
       /\ UNCHANGED <<server, store, monitors, dedup, srvPhase, pc, calls, req, attempt,
                      callStart, winEnd, now, executed, replied, sent, ret>>

\* One second passes while the server is blocked in recvfrom: the sweep at
\* the top of the loop runs at once after a datagram is handled, so no
\* time passes between the two.  Nothing is in flight across a tick, no call whose
\* receive can time out outlasts CallSpan, and idle time is bounded by MaxTime (a monitor window always
\* runs to its end).
Tick ==
    /\ srvPhase = "recv"
    /\ net = EmptyBag
    /\ \A c \in Clients : pc[c] = "call" /\ RecvTimesOut => now + 1 - callStart[c] <= CallSpan
    /\ \/ now < MaxTime
       \/ \E c \in Clients : pc[c] = "monitor" /\ now < winEnd[c]
    /\ now' = now + 1
    /\ UNCHANGED <<server, store, monitors, dedup, srvPhase, net, rcvq, pc, calls, req,
                   attempt, callStart, winEnd, executed, replied, sent, ret>>

\* Every client has exited and nothing is in flight: the server waits in
\* recvfrom forever.
Quiescent ==
    /\ \A c \in Clients : pc[c] = "exited"
    /\ net = EmptyBag
    /\ UNCHANGED vars

-----------------------------------------------------------------------------

Init ==
    /\ server \in Servers
    /\ store = L!EmptyStore
    /\ monitors = <<>>
    /\ dedup = [k \in {} |-> NoReply]
    /\ srvPhase = "sweep"
    /\ net = EmptyBag
    /\ rcvq = [c \in Clients |-> <<>>]
    /\ pc = [c \in Clients |-> "idle"]
    /\ calls = [c \in Clients |-> 0]
    /\ req = [c \in Clients |-> CHOOSE b \in Requests : TRUE]
    /\ attempt = [c \in Clients |-> 0]
    /\ callStart = [c \in Clients |-> 0]
    /\ winEnd = [c \in Clients |-> 0]
    /\ now = 0
    /\ executed = [c \in Clients |-> [k \in 1 .. MaxCalls |-> 0]]
    /\ replied = [c \in Clients |-> [k \in 1 .. MaxCalls |-> NoReply]]
    /\ sent = [c \in Clients |-> [k \in 1 .. MaxCalls |-> CHOOSE b \in Requests : TRUE]]
    /\ ret = [c \in Clients |-> "none"]

Next ==
    \/ ServerSweep
    \/ ServerRecv
    \/ \E c \in Clients : StartCall(c) \/ ClientStep(c) \/ Exit(c)
    \/ Deliver
    \/ Tick
    \/ Quiescent

\* The server loop, the kernel (delivery, receive timeouts) and the clock
\* always make progress; the user (StartCall, Exit) need not.
Fairness ==
    /\ WF_vars(ServerSweep)
    /\ WF_vars(ServerRecv)
    /\ WF_vars(Deliver)
    /\ WF_vars(Tick)
    /\ \A c \in Clients : WF_vars(ClientStep(c))

Spec == Init /\ [][Next]_vars /\ Fairness

-----------------------------------------------------------------------------
(* Properties.                                                             *)

TypeOK ==
    /\ server \in Servers
    /\ srvPhase \in {"sweep", "recv"}
    /\ pc \in [Clients -> {"idle", "call", "monitor", "exited"}]
    /\ calls \in [Clients -> 0 .. MaxCalls]
    /\ attempt \in [Clients -> 0 .. RetryCount]
    /\ req \in [Clients -> Requests]
    /\ now \in Nat /\ callStart \in [Clients -> Nat] /\ winEnd \in [Clients -> Nat]
    /\ IsABag(net)
    /\ \A c \in Clients : \A i \in 1 .. Len(rcvq[c]) :
          rcvq[c][i].type \in {"Rep", "Cb"} /\ rcvq[c][i].dst = c
    /\ monitors \in Seq([addr : Clients, expireAt : Nat])
    /\ DOMAIN dedup \subseteq Clients \X (1 .. MaxCalls)
    /\ executed \in [Clients -> [1 .. MaxCalls -> Nat]]

\* The datagrams that are in flight or queued at a client.
Datagrams == BagToSet(net) \cup UNION {{rcvq[c][i] : i \in 1 .. Len(rcvq[c])} : c \in Clients}

\* At-most-once (dedup lookup, main.cpp): however often the invoker resends
\* an at-most-once request, and whatever requests and replies the server
\* drops, the server dispatches it to the Bank at most once.
AtMostOnce ==
    \A c \in AMOClients : \A k \in 1 .. MaxCalls : executed[c][k] <= 1

\* Reply replay (the cached replyBytes): every reply to an at-most-once
\* request that is in flight or waiting in a client's socket is the reply
\* its first dispatch built, so a replayed reply carries the original status
\* and result, not the ledger's current state.
ReplayIsOriginal ==
    \A m \in Datagrams :
        m.type = "Rep" /\ m.dst \in AMOClients => m = replied[m.dst][m.rid]

\* Subscription TTL (spec section 8): the server sends a callback only to
\* a registry entry that expired less than one tick (the spec's epsilon)
\* before: sendUpdateCallback walks the registry as the last sweep left it.
CallbacksOnlyToLive ==
    [][\A m \in BagToSet(net') :
          m.type = "Cb" /\ CopiesIn(m, net') > CopiesIn(m, net) =>
             \E i \in 1 .. Len(monitors) :
                monitors[i].addr = m.dst /\ now < monitors[i].expireAt + 1]_vars

\* At-least-once without loss (spec sections 4.6 and 8): when the server
\* drops nothing and no datagram outlasts the receive timeout, the invoker
\* never resends, so every request is dispatched at most once.  A packet
\* that is not the awaited reply must not cause a resend.
NoDuplicateWithoutLoss ==
    RequestDrops = {FALSE} /\ ReplyDrops = {FALSE} /\ ~LateReplies =>
        \A c \in Clients : \A k \in 1 .. MaxCalls : executed[c][k] <= 1

\* Client::call gives up after retryCount attempts and the monitor loop ends
\* at its deadline: a client busy in a call or a monitor window gets back
\* to the menu.
ReturnsToMenu ==
    \A c \in Clients : pc[c] \in {"call", "monitor"} ~> pc[c] = "idle"

\* The at-most-once clients as AmoRpc sees them: a monitor window is time
\* at the menu, and a request is applied once the server has dispatched it.
Amo == INSTANCE AmoRpc
         WITH Clients   <- AMOClients,
              pc        <- [c \in AMOClients |-> IF pc[c] = "monitor" THEN "idle" ELSE pc[c]],
              calls     <- [c \in AMOClients |-> calls[c]],
              sent      <- [c \in AMOClients |-> sent[c]],
              applied   <- [c \in AMOClients |-> [k \in 1 .. MaxCalls |-> executed[c][k] > 0]],
              ret       <- [c \in AMOClients |-> ret[c]],
              ops       <- IF server = "server_cpp" THEN LegacyOps ELSE ZServerOps

\* Refinement (spec sections 4.4 and 8, at-most-once and request-id
\* correlation): with every client at-most-once, the invoker, the network,
\* the dedup cache and the dispatcher together behave as AmoRpc: the ledger
\* changes only by one application of a request some call issued, no
\* request is applied twice, and Client::call returns a reply only when
\* its own request has been applied.
AmoRefinement == Amo!Spec

=============================================================================
