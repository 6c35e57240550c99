\* OPEN as the menu of client.cpp sends it when the user types "nan" for
\* the initial balance; then transfers out of that account.
CONSTANTS
    FirstAccNo = 10001
    NaN = NaN
    Names = {"alice"}
    Passwords = {"pw"}
    Currencies = {"CNY"}
    Initials <- MC_MenuInitials
    Amounts = {1}
    MaxAccounts = 2
    MaxBalance = 2
SPECIFICATION Spec
PROPERTY TransferConserves
