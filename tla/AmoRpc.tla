------------------------------- MODULE AmoRpc -------------------------------
(***************************************************************************)
(* What a client started with --sem atmost is promised (spec sections 4.4 *)
(* and 8), seen from the ledger and the menu, with no network:            *)
(*   - each call issues one request;                                       *)
(*   - the ledger changes only by applying an issued request, in one step, *)
(*     and each request is applied at most once; a request may still be   *)
(*     applied after its caller gave up on it;                             *)
(*   - a call returns with a reply only if its own request was applied;    *)
(*     otherwise it gives up.                                              *)
(* BankRpc with at-most-once clients implements this specification (see   *)
(* MC_BankRpc).                                                            *)
(***************************************************************************)
EXTENDS Naturals

CONSTANTS
    Clients,      \* the at-most-once clients
    Requests,     \* request bodies
    MaxCalls,     \* bound: calls one client makes
    FirstAccNo,   \* the ledger's first account number
    NaN           \* the double NaN (a model value)

L == INSTANCE Ledger

VARIABLES
    store,    \* the ledger
    pc,       \* [Clients -> {"idle", "call", "exited"}]
    calls,    \* [Clients -> Nat]: calls issued
    sent,     \* [c][k] -> the body of call k
    applied,  \* [c][k] -> whether call k has been applied
    ret,      \* [Clients -> {"none", "reply", "failed"}]: how the last call ended
    ops       \* the opCodes the server implements (fixed)

avars == <<store, pc, calls, sent, applied, ret, ops>>

\* The opCodes of the protocol that act on the ledger or the registry.
OpNames == {"OPEN", "CLOSE", "DEPOSIT", "WITHDRAW", "MONITOR_REGISTER",
            "QUERY_BALANCE", "TRANSFER"}

\* Applying a request is the Bank method its opCode names; QUERY_BALANCE
\* and MONITOR_REGISTER, and an opCode the server does not implement,
\* leave the ledger as it is.
Effect(b) ==
    IF b.op \notin ops THEN store
    ELSE CASE b.op = "OPEN"     -> L!OpenAccount(store, b.name, b.pw, b.cur, b.amount).store
           [] b.op = "CLOSE"    -> L!CloseAccount(store, b.name, b.acc, b.pw).store
           [] b.op = "DEPOSIT"  -> L!Deposit(store, b.name, b.acc, b.pw, b.cur, b.amount).store
           [] b.op = "WITHDRAW" -> L!Withdraw(store, b.name, b.acc, b.pw, b.cur, b.amount).store
           [] b.op = "TRANSFER" -> L!Transfer(store, b.name, b.acc, b.pw, b.to, b.cur, b.amount).store
           [] OTHER             -> store

\* The user issues a request.
Issue(c) ==
    /\ pc[c] = "idle"
    /\ calls[c] < MaxCalls
    /\ \E b \in Requests : sent' = [sent EXCEPT ![c][calls[c] + 1] = b]
    /\ calls' = [calls EXCEPT ![c] = @ + 1]
    /\ pc' = [pc EXCEPT ![c] = "call"]
    /\ UNCHANGED <<store, applied, ret, ops>>

\* The server applies an issued request that it has not applied before.
Apply(c, k) ==
    /\ k \in 1 .. calls[c]
    /\ ~applied[c][k]
    /\ store' = Effect(sent[c][k])
    /\ applied' = [applied EXCEPT ![c][k] = TRUE]
    /\ UNCHANGED <<pc, calls, sent, ret, ops>>

\* The call returns the reply of its own, applied, request.
Return(c) ==
    /\ pc[c] = "call"
    /\ applied[c][calls[c]]
    /\ pc' = [pc EXCEPT ![c] = "idle"]
    /\ ret' = [ret EXCEPT ![c] = "reply"]
    /\ UNCHANGED <<store, calls, sent, applied, ops>>

\* The call gives up, whether or not the request was applied.
GiveUp(c) ==
    /\ pc[c] = "call"
    /\ pc' = [pc EXCEPT ![c] = "idle"]
    /\ ret' = [ret EXCEPT ![c] = "failed"]
    /\ UNCHANGED <<store, calls, sent, applied, ops>>

Leave(c) ==
    /\ pc[c] = "idle"
    /\ pc' = [pc EXCEPT ![c] = "exited"]
    /\ UNCHANGED <<store, calls, sent, applied, ret, ops>>

Init ==
    /\ store = L!EmptyStore
    /\ pc = [c \in Clients |-> "idle"]
    /\ calls = [c \in Clients |-> 0]
    /\ sent \in [Clients -> [1 .. MaxCalls -> Requests]]
    /\ applied = [c \in Clients |-> [k \in 1 .. MaxCalls |-> FALSE]]
    /\ ret = [c \in Clients |-> "none"]
    /\ ops \subseteq OpNames

Next ==
    \E c \in Clients :
        \/ Issue(c) \/ Return(c) \/ GiveUp(c) \/ Leave(c)
        \/ \E k \in 1 .. MaxCalls : Apply(c, k)

Spec == Init /\ [][Next]_avars

=============================================================================
