\* OPEN as the wire carries it: an initial balance of -1 reaches the server
\* when the request does not come from the menu of client.cpp.
CONSTANTS
    FirstAccNo = 10001
    NaN = NaN
    Names = {"alice", "bob"}
    Passwords = {"pw", ""}
    Currencies = {"CNY", "SGD"}
    Initials <- MC_WireInitials
    Amounts = {0, 1}
    MaxAccounts = 2
    MaxBalance = 2
SPECIFICATION Spec
INVARIANT NoOverdraft
