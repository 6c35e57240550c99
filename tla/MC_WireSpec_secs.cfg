\* A monitor period of 65536 s: handleMonitor accepts any positive int and
\* sends it as (uint16_t)seconds.
CONSTANTS
    Names <- MC_Names
    Texts <- MC_Texts
    Currencies <- MC_Currencies
    Seconds <- MC_LongSeconds
    UpdateTypes = {1, 7}
    Passwords <- MC_Passwords
    AccNos <- MC_AccNos
    Doubles <- MC_Doubles
    RequestIds <- MC_RequestIds
SPECIFICATION Spec
INVARIANT FieldsAgree
