------------------------------ MODULE WireSpec ------------------------------
(***************************************************************************)
(* One datagram from the code that builds it to the code that reads it:    *)
(*   - a request: a menu handler of client.cpp fills the body, Client::call*)
(*     the header; the server loop decodes, checks version and type, and   *)
(*     its opCode branch parses the body (z_server_cpp/src/main.cpp);      *)
(*   - a reply: the server's reply skeleton and opCode branch; the client's *)
(*     call checks type and request id, the handler parses the body;       *)
(*   - a callback: sendUpdateCallback; the monitor loop of handleMonitor.  *)
(* The values the user types, or the ledger returns, are drawn from small  *)
(* sets of edge values.                                                    *)
(***************************************************************************)
EXTENDS Integers, Sequences, SequencesExt, Codec

CONSTANTS
    Names, Passwords, Texts,  \* byte strings: names, typed passwords, reply strings
    AccNos,                   \* int values readInt returns for account numbers
    Currencies,               \* currency codes
    Doubles,                  \* bit patterns of doubles (four 16-bit limbs)
    Seconds,                  \* int values readInt returns for monitor seconds
    RequestIds,               \* 64-bit request ids (four limbs)
    UpdateTypes               \* opCodes a callback reports

OPEN             == 1
CLOSE            == 2
DEPOSIT          == 3
WITHDRAW         == 4
MONITOR_REGISTER == 5
QUERY_BALANCE    == 6
TRANSFER         == 7
CALLBACK_UPDATE  == 100
ClientOps == {OPEN, CLOSE, DEPOSIT, WITHDRAW, MONITOR_REGISTER, QUERY_BALANCE, TRANSFER}

VARIABLES
    phase,   \* "idle", "sent" (datagram on the wire) or "received"
    dir,     \* "req", "rep" or "cb"
    fields,  \* the field values the sender wrote
    msg,     \* the message the sender encoded
    raw,     \* the datagram
    recv     \* what the receiver made of it: [accepted, fields]

vars == <<phase, dir, fields, msg, raw, recv>>

\* Field kinds, named after the code's variables.
FName == <<"name", "str">>
FPw   == <<"pw", "pw16">>
FAcc  == <<"acc", "i32">>
FTo   == <<"to", "i32">>
FCur  == <<"cur", "u16">>
FAmt  == <<"amount", "f64">>

\* A double's bits as four limbs: sign, exponent and mantissa classes.
DSign(d)   == d[1] >= 32768
DNaN(d)    == (d[1] % 32768) \div 16 = 2047 /\ (d[1] % 16) + d[2] + d[3] + d[4] > 0
DZero(d)   == (d[1] % 32768) + d[2] + d[3] + d[4] = 0

\* The double comparisons of the prompts: false whenever d is a NaN.
DLess0(d)  == ~DNaN(d) /\ DSign(d) /\ ~DZero(d)
DLeq0(d)   == ~DNaN(d) /\ (DSign(d) \/ DZero(d))

\* A prompt answered with "q" or "Q" cancels the handler.
Quit(s) == s \in {<<113>>, <<81>>}

\* The prompts of each handler (client.cpp): a handler returns to the menu
\* without sending when a check fails.  readInt and readDouble return
\* what stoi and stod parse, so any int and any double (NaN included) is a
\* possible answer.
OpenInputOk(f) ==
    /\ f.name # <<>> /\ ~Quit(f.name)
    /\ ~Quit(f.pw) /\ Len(f.pw) \in 1 .. 16
    /\ ~DLess0(f.amount)

AccountInputOk(f) ==
    /\ f.name # <<>> /\ ~Quit(f.name)
    /\ f.acc > 0
    /\ ~Quit(f.pw)

AmountInputOk(f) ==
    /\ AccountInputOk(f)
    /\ ~DLeq0(f.amount)

TransferInputOk(f) ==
    /\ AccountInputOk(f)
    /\ f.to > 0 /\ f.acc # f.to
    /\ ~DLeq0(f.amount)

MonitorInputOk(f) == f.secs > 0

\* Each handler's put calls (the request body) and get chain after an OK
\* reply.
FBal   == <<"bal", "f64">>
FMsg   == <<"msg", "str">>
HandleOpenIO     == [req |-> <<FName, FPw, FCur, FAmt>>, rep |-> <<FAcc, FBal>>]
HandleCloseIO    == [req |-> <<FName, FAcc, FPw>>, rep |-> <<FMsg>>]
HandleDepositIO  == [req |-> <<FName, FAcc, FPw, FCur, FAmt>>, rep |-> <<FBal>>]
HandleWithdrawIO == [req |-> <<FName, FAcc, FPw, FCur, FAmt>>, rep |-> <<FBal>>]
HandleQueryIO    == [req |-> <<FName, FAcc, FPw>>, rep |-> <<FCur, FBal>>]
HandleTransferIO == [req |-> <<FName, FAcc, FPw, FTo, FCur, FAmt>>,
                     rep |-> <<FBal, <<"toBal", "f64">>>>]
HandleMonitorIO  == [req |-> <<<<"secs", "u16">>>>, rep |-> <<FMsg>>]

\* The handler that the menu runs for an opCode, its layouts and checks.
ClientIO(op) ==
    CASE op = OPEN             -> HandleOpenIO
      [] op = CLOSE            -> HandleCloseIO
      [] op = DEPOSIT          -> HandleDepositIO
      [] op = WITHDRAW         -> HandleWithdrawIO
      [] op = QUERY_BALANCE    -> HandleQueryIO
      [] op = TRANSFER         -> HandleTransferIO
      [] op = MONITOR_REGISTER -> HandleMonitorIO

InputOk(op, f) ==
    CASE op = OPEN                     -> OpenInputOk(f)
      [] op \in {CLOSE, QUERY_BALANCE} -> AccountInputOk(f)
      [] op \in {DEPOSIT, WITHDRAW}     -> AmountInputOk(f)
      [] op = TRANSFER                 -> TransferInputOk(f)
      [] op = MONITOR_REGISTER         -> MonitorInputOk(f)

ClientReqLayout(op) == ClientIO(op).req
ClientRepLayout(op) == ClientIO(op).rep

\* Mutant of ServerReqLayout: TRANSFER reads toAccNo before the password.
ServerReqLayoutSwapped(op) ==
    IF op = TRANSFER THEN <<FName, FAcc, FTo, FPw, FCur, FAmt>>
    ELSE CASE op = OPEN                     -> <<FName, FPw, FCur, FAmt>>
           [] op \in {CLOSE, QUERY_BALANCE} -> <<FName, FAcc, FPw>>
           [] op \in {DEPOSIT, WITHDRAW}    -> <<FName, FAcc, FPw, FCur, FAmt>>
           [] op = MONITOR_REGISTER         -> <<<<"secs", "u16">>>>

\* The get chains of the server's opCode branches (main.cpp).
ServerReqLayout(op) ==
    CASE op = OPEN                         -> <<FName, FPw, FCur, FAmt>>
      [] op \in {CLOSE, QUERY_BALANCE}     -> <<FName, FAcc, FPw>>
      [] op \in {DEPOSIT, WITHDRAW}        -> <<FName, FAcc, FPw, FCur, FAmt>>
      [] op = TRANSFER                     -> <<FName, FAcc, FPw, FTo, FCur, FAmt>>
      [] op = MONITOR_REGISTER             -> <<<<"secs", "u16">>>>

\* The put calls of a successful reply (main.cpp).
ServerRepLayout(op) ==
    CASE op = OPEN                          -> <<FAcc, <<"bal", "f64">>>>
      [] op \in {CLOSE, MONITOR_REGISTER}   -> <<FMsg>>
      [] op \in {DEPOSIT, WITHDRAW}         -> <<FBal>>
      [] op = QUERY_BALANCE                 -> <<FCur, FBal>>
      [] op = TRANSFER                      -> <<FBal, <<"toBal", "f64">>>>

\* sendUpdateCallback writes, and the monitor loop reads, one layout.
ServerCbLayout == <<<<"upd", "u16">>, FAcc, FCur, <<"bal", "f64">>, <<"info", "str">>>>
ClientCbLayout == <<<<"upd", "u16">>, FAcc, FCur, <<"bal", "f64">>, <<"info", "str">>>>

\* The values a field can take.
Dom(n) ==
    CASE n = "name"                        -> Names
      [] n = "pw"                          -> Passwords
      [] n \in {"acc", "to"}               -> AccNos
      [] n = "cur"                         -> Currencies
      [] n \in {"amount", "bal", "toBal"}  -> Doubles
      [] n = "secs"                        -> Seconds
      [] n \in {"msg", "info"}             -> Texts
      [] n = "upd"                         -> UpdateTypes

\* Every assignment of values to the fields of a layout.
RECURSIVE Assignments(_)
Assignments(layout) ==
    IF layout = <<>> THEN {<<>>}
    ELSE {g @@ (Head(layout)[1] :> v) : g \in Assignments(Tail(layout)), v \in Dom(Head(layout)[1])}

\* Mutant of Len32: bodyLen counts the header too.
Len32WithHeader(b) == <<0, Len(b) + HEADER_SIZE>>

\* (uint32_t)body.size() as two limbs.
Len32(b) == <<Len(b) \div 65536, Len(b) % 65536>>

Message(type, op, flags, status, rid, body) ==
    [magic |-> MAGIC, version |-> VERSION, msgType |-> type, opCode |-> op, flags |-> flags,
     status |-> status, requestId |-> rid, bodyLen |-> Len32(body), body |-> body]

Send(d, f, m) ==
    /\ phase = "idle"
    /\ phase' = "sent"
    /\ dir' = d
    /\ fields' = f
    /\ msg' = m
    /\ raw' = Encode(m)
    /\ UNCHANGED recv

\* A menu handler builds the body and Client::call the request header.
ClientRequest ==
    \E op \in ClientOps, amo \in {0, 1}, rid \in RequestIds :
      \E f \in {g \in Assignments(ClientReqLayout(op)) : InputOk(op, g)} :
        Send("req", f, Message(MsgRequest, op, amo, 0, rid, BuildBody(ClientReqLayout(op), f)))

\* The reply skeleton copies opCode, flags and requestId; a failed
\* operation sends its status and an empty body.
ServerReply ==
    \E op \in ClientOps, amo \in {0, 1}, rid \in RequestIds :
        \/ \E f \in Assignments(ServerRepLayout(op)) :
              Send("rep", f, Message(MsgReply, op, amo, 0, rid, BuildBody(ServerRepLayout(op), f)))
        \/ \E err \in 1 .. 6 :
              Send("rep", <<>>, Message(MsgReply, op, amo, err, rid, <<>>))

\* sendUpdateCallback: header with requestId 0, the five callback fields.
ServerCallback ==
    \E f \in Assignments(ServerCbLayout) :
        Send("cb", f, Message(MsgCallback, CALLBACK_UPDATE, 0, 0, <<0, 0, 0, 0>>,
                              BuildBody(ServerCbLayout, f)))

\* The receiver's checks after decode, and the parse of the body.
Receive ==
    /\ phase = "sent"
    /\ LET d   == Decode(raw)
           m   == d.msg
           acc == CASE dir = "req" -> d.ok /\ m.version = VERSION /\ m.msgType = MsgRequest
                    [] dir = "rep" -> d.ok /\ m.msgType = MsgReply /\ m.requestId = msg.requestId
                    [] dir = "cb"  -> d.ok /\ m.msgType = MsgCallback /\ m.opCode = CALLBACK_UPDATE
           lay == CASE ~acc        -> <<>>
                    [] dir = "req" -> ServerReqLayout(m.opCode)
                    [] dir = "rep" -> IF m.status = 0 THEN ClientRepLayout(m.opCode) ELSE <<>>
                    [] dir = "cb"  -> ClientCbLayout
           p   == ParseBody(lay, m.body)
       IN  recv' = [accepted |-> acc /\ p.ok, fields |-> p.fields]
    /\ phase' = "received"
    /\ UNCHANGED <<dir, fields, msg, raw>>

\* The state between two datagrams.
NoMsg  == Message(MsgRequest, OPEN, 0, 0, <<0, 0, 0, 0>>, <<>>)
NoRecv == [accepted |-> FALSE, fields |-> <<>>]

Init ==
    /\ phase = "idle"
    /\ dir = "req"
    /\ fields = <<>>
    /\ msg = NoMsg
    /\ raw = <<>>
    /\ recv = NoRecv

\* The receiver goes back to its loop for the next datagram.
Reset ==
    /\ phase = "received"
    /\ phase' = "idle"
    /\ dir' = "req"
    /\ fields' = <<>>
    /\ msg' = NoMsg
    /\ raw' = <<>>
    /\ recv' = NoRecv

Next == ClientRequest \/ ServerReply \/ ServerCallback \/ Receive \/ Reset

Spec == Init /\ [][Next]_vars

-----------------------------------------------------------------------------
(* Properties.                                                             *)

TypeOK ==
    /\ phase \in {"idle", "sent", "received"}
    /\ dir \in {"req", "rep", "cb"}
    /\ raw \in Seq(0 .. 255)
    /\ recv.accepted \in BOOLEAN
    /\ phase # "idle" => Len(raw) = HEADER_SIZE + LimbsValue(msg.bodyLen)

\* Round trip and header width (spec section 8): every datagram is at least
\* 24 bytes and decode(encode(m)) gives back the message the sender built,
\* header and body.
RoundTrip ==
    phase # "idle" =>
        /\ Len(raw) >= HEADER_SIZE
        /\ Decode(raw).ok
        /\ Decode(raw).msg = msg

\* The receiver reads what the sender wrote: the datagram passes the
\* receiver's checks and its body parses to exactly the field values the
\* sender put (the password as typed, the seconds as entered, the account
\* numbers with their sign).
FieldsAgree ==
    phase = "received" => recv.accepted /\ recv.fields = fields

=============================================================================
