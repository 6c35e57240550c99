------------------------------- MODULE Ledger -------------------------------
(***************************************************************************)
(* The transaction processor of the bank server: class Bank of             *)
(* src/z_server_cpp/src/bank.cpp.  The store is a record                   *)
(*   [accounts : function account number -> Account, next : Int]           *)
(* (accounts_ and nextAccNo_).  Every Bank method is an operator from the  *)
(* store and its inputs to a result record                                 *)
(*   [status : Status, store : new store, out : record of output fields]   *)
(* so that the dispatcher (BankRpc) and the ledger spec (LedgerSpec) apply *)
(* exactly the same code.  Early returns become nested IFs in the order    *)
(* the code tests them.  Balances are doubles in the code; amounts in the  *)
(* models are small integers, for which double arithmetic is exact.        *)
(***************************************************************************)
EXTENDS Integers, TLC

CONSTANTS
    FirstAccNo,      \* nextAccNo_(10001) in Bank::Bank
    NaN              \* the double NaN (a model value)

\* The double operators the Bank methods use, on integers and NaN: every
\* comparison with NaN is false, every sum with NaN is NaN.
DGt(a, b)  == a # NaN /\ b # NaN /\ a > b
DLt(a, b)  == DGt(b, a)
DAdd(a, b) == IF a = NaN \/ b = NaN THEN NaN ELSE a + b
DSub(a, b) == IF a = NaN \/ b = NaN THEN NaN ELSE a - b
DEq(a, b)  == a # NaN /\ b # NaN /\ a = b

\* The password that getPassword16 decodes from sixteen zero bytes.
EmptyPassword == ""

\* struct Account, as OpenAccount fills it in.
NewAccount(name, pw, cur, bal) ==
    [name |-> name, password |-> pw, currency |-> cur, balance |-> bal, closed |-> FALSE]

\* Bank::Bank: no accounts, the allocator at 10001.
EmptyStore == [accounts |-> [n \in {} |-> NewAccount("", "", "", 0)], next |-> FirstAccNo]

\* The empty reply body of a failed operation.
NoOut == [empty |-> TRUE]

Fail(s, err) == [status |-> err, store |-> s, out |-> NoOut]
Ok(s, out)   == [status |-> "OK", store |-> s, out |-> out]

\* Mutant of Live: the closed flag is not consulted.
LiveIgnoringClosed(s, no) == no \in DOMAIN s.accounts

\* accounts_.find(no) != end() && !closed: closed accounts count as missing.
Live(s, no) == no \in DOMAIN s.accounts /\ ~s.accounts[no].closed

\* authMatch: both the stored name and the stored password must match.
AuthMatch(a, name, pw) == a.name = name /\ a.password = pw

\* Mutant of OpenAccount: nextAccNo_ is read but not advanced.
OpenAccountNoAdvance(s, name, pw, cur, initial) ==
    IF pw = EmptyPassword THEN Fail(s, "ERR_PASSWORD_FORMAT")
    ELSE Ok([accounts |-> s.accounts @@ (s.next :> NewAccount(name, pw, cur, initial)),
             next     |-> s.next],
            [accountNo |-> s.next, balance |-> initial])

\* Bank::openAccount.  Neither the currency nor the initial balance is
\* checked: only the password length (a decoded password is at most 16
\* bytes, so only the empty one is rejected).
OpenAccount(s, name, pw, cur, initial) ==
    IF pw = EmptyPassword THEN Fail(s, "ERR_PASSWORD_FORMAT")
    ELSE LET no == s.next
         IN  Ok([accounts |-> s.accounts @@ (no :> NewAccount(name, pw, cur, initial)),
                 next     |-> no + 1],
                [accountNo |-> no, balance |-> initial])

\* Bank::closeAccount.
CloseAccount(s, name, no, pw) ==
    IF ~Live(s, no) THEN Fail(s, "ERR_NOT_FOUND")
    ELSE IF ~AuthMatch(s.accounts[no], name, pw) THEN Fail(s, "ERR_AUTH")
    ELSE Ok([s EXCEPT !.accounts[no].closed = TRUE], NoOut)

\* Bank::deposit.
Deposit(s, name, no, pw, cur, amount) ==
    IF ~Live(s, no) THEN Fail(s, "ERR_NOT_FOUND")
    ELSE LET a == s.accounts[no] IN
         IF ~AuthMatch(a, name, pw) THEN Fail(s, "ERR_AUTH")
         ELSE IF a.currency # cur THEN Fail(s, "ERR_CURRENCY")
         ELSE IF ~DGt(amount, 0) THEN Fail(s, "ERR_BAD_REQUEST")
         ELSE Ok([s EXCEPT !.accounts[no].balance = DAdd(@, amount)], [newBal |-> DAdd(a.balance, amount)])

\* Mutant of Withdraw: the funds test is off by one unit.
WithdrawOverdraft(s, name, no, pw, cur, amount) ==
    IF ~Live(s, no) THEN Fail(s, "ERR_NOT_FOUND")
    ELSE LET a == s.accounts[no] IN
         IF ~AuthMatch(a, name, pw) THEN Fail(s, "ERR_AUTH")
         ELSE IF a.currency # cur THEN Fail(s, "ERR_CURRENCY")
         ELSE IF ~DGt(amount, 0) THEN Fail(s, "ERR_BAD_REQUEST")
         ELSE IF DLt(DAdd(a.balance, 1), amount) THEN Fail(s, "ERR_INSUFFICIENT_FUNDS")
         ELSE Ok([s EXCEPT !.accounts[no].balance = DSub(@, amount)], [newBal |-> DSub(a.balance, amount)])

\* Bank::withdraw.
Withdraw(s, name, no, pw, cur, amount) ==
    IF ~Live(s, no) THEN Fail(s, "ERR_NOT_FOUND")
    ELSE LET a == s.accounts[no] IN
         IF ~AuthMatch(a, name, pw) THEN Fail(s, "ERR_AUTH")
         ELSE IF a.currency # cur THEN Fail(s, "ERR_CURRENCY")
         ELSE IF ~DGt(amount, 0) THEN Fail(s, "ERR_BAD_REQUEST")
         ELSE IF DLt(a.balance, amount) THEN Fail(s, "ERR_INSUFFICIENT_FUNDS")
         ELSE Ok([s EXCEPT !.accounts[no].balance = DSub(@, amount)], [newBal |-> DSub(a.balance, amount)])

\* Mutant of Transfer: the credentials are checked against the destination
\* account instead of the source.
TransferAuthTo(s, name, from, pw, to, cur, amount) ==
    IF from = to THEN Fail(s, "ERR_BAD_REQUEST")
    ELSE IF ~Live(s, from) \/ ~Live(s, to) THEN Fail(s, "ERR_NOT_FOUND")
    ELSE LET f == s.accounts[from]
             t == s.accounts[to]
         IN  IF ~AuthMatch(t, name, pw) THEN Fail(s, "ERR_AUTH")
             ELSE IF f.currency # cur \/ t.currency # cur THEN Fail(s, "ERR_CURRENCY")
             ELSE IF ~DGt(amount, 0) THEN Fail(s, "ERR_BAD_REQUEST")
             ELSE IF DLt(f.balance, amount) THEN Fail(s, "ERR_INSUFFICIENT_FUNDS")
             ELSE Ok([s EXCEPT !.accounts[from].balance = DSub(@, amount),
                               !.accounts[to].balance   = DAdd(@, amount)],
                     [fromBal |-> DSub(f.balance, amount), toBal |-> DAdd(t.balance, amount)])

\* Mutant of Transfer: the source account is debited on a copy
\* (Account f = it->second), so only the credit reaches the ledger.
TransferDebitOnCopy(s, name, from, pw, to, cur, amount) ==
    IF from = to THEN Fail(s, "ERR_BAD_REQUEST")
    ELSE IF ~Live(s, from) \/ ~Live(s, to) THEN Fail(s, "ERR_NOT_FOUND")
    ELSE LET f == s.accounts[from]
             t == s.accounts[to]
         IN  IF ~AuthMatch(f, name, pw) THEN Fail(s, "ERR_AUTH")
             ELSE IF f.currency # cur \/ t.currency # cur THEN Fail(s, "ERR_CURRENCY")
             ELSE IF ~DGt(amount, 0) THEN Fail(s, "ERR_BAD_REQUEST")
             ELSE IF DLt(f.balance, amount) THEN Fail(s, "ERR_INSUFFICIENT_FUNDS")
             ELSE Ok([s EXCEPT !.accounts[to].balance = DAdd(@, amount)],
                     [fromBal |-> DSub(f.balance, amount), toBal |-> DAdd(t.balance, amount)])

\* Bank::transfer, authenticated by the owner of the source account.
Transfer(s, name, from, pw, to, cur, amount) ==
    IF from = to THEN Fail(s, "ERR_BAD_REQUEST")
    ELSE IF ~Live(s, from) THEN Fail(s, "ERR_NOT_FOUND")
    ELSE IF ~Live(s, to) THEN Fail(s, "ERR_NOT_FOUND")
    ELSE LET f == s.accounts[from]
             t == s.accounts[to]
         IN  IF ~AuthMatch(f, name, pw) THEN Fail(s, "ERR_AUTH")
             ELSE IF f.currency # cur \/ t.currency # cur THEN Fail(s, "ERR_CURRENCY")
             ELSE IF ~DGt(amount, 0) THEN Fail(s, "ERR_BAD_REQUEST")
             ELSE IF DLt(f.balance, amount) THEN Fail(s, "ERR_INSUFFICIENT_FUNDS")
             ELSE Ok([s EXCEPT !.accounts[from].balance = DSub(@, amount),
                               !.accounts[to].balance   = DAdd(@, amount)],
                     [fromBal |-> DSub(f.balance, amount), toBal |-> DAdd(t.balance, amount)])

\* Bank::queryBalance.
QueryBalance(s, name, no, pw) ==
    IF ~Live(s, no) THEN Fail(s, "ERR_NOT_FOUND")
    ELSE LET a == s.accounts[no] IN
         IF ~AuthMatch(a, name, pw) THEN Fail(s, "ERR_AUTH")
         ELSE Ok(s, [currency |-> a.currency, balance |-> a.balance])

=============================================================================
