\* A 17-byte password typed at handleClose .. handleTransfer, which do not
\* check its length (only handleOpen does).
CONSTANTS
    Names <- MC_Names
    Texts <- MC_Texts
    Currencies <- MC_Currencies
    Seconds <- MC_Seconds
    UpdateTypes = {1, 7}
    Passwords <- MC_LongPasswords
    AccNos <- MC_AccNos
    Doubles <- MC_Doubles
    RequestIds <- MC_RequestIds
SPECIFICATION Spec
INVARIANT FieldsAgree
