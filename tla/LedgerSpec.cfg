\* The ledger under every request a client can build: two holders, a good
\* and an empty password, two currencies, amounts including the rejected 0.
CONSTANTS
    FirstAccNo = 10001
    NaN = NaN
    Names = {"alice", "bob"}
    Passwords = {"pw", ""}
    Currencies = {"CNY", "SGD"}
    Initials = {0, 1}
    Amounts = {0, 1}
    MaxAccounts = 2
    MaxBalance = 2
SPECIFICATION Spec
INVARIANT TypeOK
INVARIANT NoOverdraft
PROPERTY DebitsAuthorised
PROPERTY ClosedFrozen
PROPERTY MoneyAccounted
