----------------------------- MODULE LedgerSpec -----------------------------
(***************************************************************************)
(* The ledger on its own: the server's Bank object driven by any sequence  *)
(* of well-formed requests, one per dispatch (the server is single-        *)
(* threaded, so Bank methods never overlap).  Each action is one Bank      *)
(* method as the dispatcher of src/z_server_cpp/src/main.cpp calls it, with *)
(* its decoded inputs drawn from small sets.  `last` records the request   *)
(* just served and its status, so that properties can relate a change of   *)
(* the ledger to the request that made it.                                 *)
(***************************************************************************)
EXTENDS Integers, FiniteSets, FiniteSetsExt

CONSTANTS
    FirstAccNo,   \* nextAccNo_ in Bank::Bank (10001)
    Names,        \* account holder names a request may carry
    Passwords,    \* decoded password16 values ("" is sixteen zero bytes)
    Currencies,   \* Currency enum values
    Initials,     \* initial balances an OPEN may carry
    Amounts,      \* amounts a DEPOSIT / WITHDRAW / TRANSFER may carry
    MaxAccounts,  \* bound: accounts opened
    MaxBalance,   \* bound: largest balance explored
    NaN           \* the double NaN (a model value)

ASSUME MaxAccounts \in Nat /\ MaxBalance \in Nat

L == INSTANCE Ledger

VARIABLES
    store,  \* accounts_ and nextAccNo_
    last    \* the request just dispatched and the status it got

vars == <<store, last>>

\* Account numbers a request may name: the opened ones and one beyond.
AccNos == FirstAccNo .. FirstAccNo + MaxAccounts

\* The bounds of the exploration: no more than MaxAccounts accounts and no
\* balance above MaxBalance.
Bounded(s) ==
    /\ s.next <= FirstAccNo + MaxAccounts
    /\ \A n \in DOMAIN s.accounts : ~L!DGt(s.accounts[n].balance, MaxBalance)

\* One dispatch: apply the Bank method's result and remember the request
\* (its two account numbers only for a TRANSFER, 0 otherwise).
Serve(r, op, name, pw, acc, to, amount) ==
    /\ Bounded(r.store)
    /\ store' = r.store
    /\ last' = [op |-> op, name |-> name, pw |-> pw, acc |-> acc, to |-> to, amount |-> amount,
                status |-> r.status]

Open ==
    \E name \in Names, pw \in Passwords, cur \in Currencies, init \in Initials :
        Serve(L!OpenAccount(store, name, pw, cur, init), "OPEN", name, pw, 0, 0, init)

Close ==
    \E name \in Names, pw \in Passwords, no \in AccNos :
        Serve(L!CloseAccount(store, name, no, pw), "CLOSE", name, pw, 0, 0, 0)

Deposit ==
    \E name \in Names, pw \in Passwords, no \in AccNos, cur \in Currencies, amt \in Amounts :
        Serve(L!Deposit(store, name, no, pw, cur, amt), "DEPOSIT", name, pw, 0, 0, amt)

Withdraw ==
    \E name \in Names, pw \in Passwords, no \in AccNos, cur \in Currencies, amt \in Amounts :
        Serve(L!Withdraw(store, name, no, pw, cur, amt), "WITHDRAW", name, pw, 0, 0, amt)

Transfer ==
    \E name \in Names, pw \in Passwords, from, to \in AccNos, cur \in Currencies,
       amt \in Amounts :
        Serve(L!Transfer(store, name, from, pw, to, cur, amt), "TRANSFER", name, pw, from, to, amt)

Query ==
    \E name \in Names, pw \in Passwords, no \in AccNos :
        Serve(L!QueryBalance(store, name, no, pw), "QUERY_BALANCE", name, pw, 0, 0, 0)

Init ==
    /\ store = L!EmptyStore
    /\ last = [op |-> "NONE", name |-> "", pw |-> "", acc |-> 0, to |-> 0, amount |-> 0,
               status |-> "OK"]

Next == Open \/ Close \/ Deposit \/ Withdraw \/ Transfer \/ Query

Spec == Init /\ [][Next]_vars

-----------------------------------------------------------------------------
(* Properties.                                                             *)

Statuses == {"OK", "ERR_BAD_REQUEST", "ERR_AUTH", "ERR_NOT_FOUND", "ERR_CURRENCY",
             "ERR_INSUFFICIENT_FUNDS", "ERR_PASSWORD_FORMAT"}

\* The allocator is dense: the accounts are exactly FirstAccNo .. next-1.
TypeOK ==
    /\ store.next \in FirstAccNo .. FirstAccNo + MaxAccounts
    /\ DOMAIN store.accounts = FirstAccNo .. store.next - 1
    /\ \A n \in DOMAIN store.accounts :
          store.accounts[n] \in [name : Names, password : Passwords, currency : Currencies,
                                 balance : Int \cup {NaN}, closed : BOOLEAN]
    /\ last.status \in Statuses

\* The money held by the ledger, closed accounts included.
Total(s) == MapThenSumSet(LAMBDA n : s.accounts[n].balance, DOMAIN s.accounts)

\* The money a served request brings in (OPEN's initial balance, DEPOSIT)
\* or takes out (WITHDRAW).
Minted(q) ==
    IF q.status # "OK" THEN 0
    ELSE CASE q.op \in {"OPEN", "DEPOSIT"} -> q.amount
           [] q.op = "WITHDRAW"            -> -q.amount
           [] OTHER                        -> 0

\* No overdraft (Bank::withdraw and Bank::transfer test the funds before
\* they debit): no account balance is ever negative.
NoOverdraft == \A n \in DOMAIN store.accounts : store.accounts[n].balance >= 0

\* Only the holder debits (authMatch in withdraw and transfer): whenever a
\* balance goes down, the request that did it carried the stored name and
\* password of that account.
DebitsAuthorised ==
    [][\A n \in DOMAIN store.accounts :
          store'.accounts[n].balance < store.accounts[n].balance =>
             /\ last'.name = store.accounts[n].name
             /\ last'.pw = store.accounts[n].password]_vars

\* A closed account is frozen (the `closed` test in every lookup): once
\* closed, its record never changes again.
ClosedFrozen ==
    [][\A n \in DOMAIN store.accounts :
          store.accounts[n].closed => store'.accounts[n] = store.accounts[n]]_vars

\* Transfer conservation (spec section 8): when Bank::transfer succeeds, the
\* sum of the two balances after it equals the sum before it, compared as
\* the doubles they are (fromBal_after + toBal_after == fromBal_before +
\* toBal_before).
TransferConserves ==
    [][last'.op = "TRANSFER" /\ last'.status = "OK" =>
         LET Bal(st, n) == st.accounts[n].balance
         IN  L!DEq(L!DAdd(Bal(store', last'.acc), Bal(store', last'.to)),
                   L!DAdd(Bal(store, last'.acc), Bal(store, last'.to)))]_vars

\* Money is accounted for (spec section 8, transfer conservation and
\* monotone deposits): every dispatch changes the ledger's total by exactly
\* what the request brought in or took out; a TRANSFER moves money and
\* creates none.
MoneyAccounted ==
    [][Total(store') - Total(store) = Minted(last')]_vars

=============================================================================
