----------------------------- MODULE MC_BankRpc -----------------------------
(***************************************************************************)
(* Model values and bounds for checking BankRpc with TLC.                  *)
(***************************************************************************)
EXTENDS BankRpc

\* What the menu handlers of client.cpp send for one user "alice" who opens
\* account 10001 in CNY and then uses it.
MC_Open    == [op |-> "OPEN", name |-> "alice", pw |-> "pw", cur |-> "CNY", amount |-> 0]
MC_Deposit == [op |-> "DEPOSIT", name |-> "alice", acc |-> 10001, pw |-> "pw",
               cur |-> "CNY", amount |-> 1]
MC_Monitor == [op |-> "MONITOR_REGISTER", secs |-> 2]

MC_Requests == {MC_Open, MC_Deposit, MC_Monitor}

CL == INSTANCE Cli

\* The server's command lines: udp_server with no option (no loss), with
\* --lossReq 0.3, with --lossRep 0.3, and with both.
Point3 == <<48, 46, 51>>   \* "0.3"
MC_NoLoss  == <<>>
MC_ReqLoss == <<SV!OptLossReq, Point3>>
MC_RepLoss == <<SV!OptLossRep, Point3>>
MC_Lossy   == <<SV!OptLossReq, Point3, SV!OptLossRep, Point3>>

\* client --timeout 0.5 --retry 2: a user who means half a second.
MC_HangArgs == <<CL!OptTimeout, <<48, 46, 53>>, CL!OptRetry, <<50>>>>
MC_Hang     == CL!ClientConfig(MC_HangArgs)

MC_HangTimeoutMs == MC_Hang.timeoutMs
MC_HangRetry     == MC_Hang.retry
MC_HangAMO       == IF MC_Hang.atMostOnce THEN Clients ELSE {}

=============================================================================
