\* Every request, reply and callback over edge values a user can type or
\* the ledger can return; seconds up to the u16 limit.
CONSTANTS
    Names <- MC_Names
    Texts <- MC_Texts
    Currencies <- MC_Currencies
    Seconds <- MC_Seconds
    UpdateTypes = {1, 7}
    Passwords <- MC_Passwords
    AccNos <- MC_AccNos
    Doubles <- MC_Doubles
    RequestIds <- MC_RequestIds
SPECIFICATION Spec
INVARIANT TypeOK
INVARIANT RoundTrip
INVARIANT FieldsAgree
