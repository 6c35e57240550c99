---------------------------- MODULE MC_LedgerSpec ----------------------------
(* Values the configuration files of LedgerSpec cannot write literally.    *)
EXTENDS LedgerSpec

\* Initial balances of an OPEN request as the wire carries them: the menu
\* of client.cpp rejects a negative one, any other sender need not.
MC_WireInitials == {-1, 0}

CL == INSTANCE Cli

\* A double readDouble returned, as Ledger writes numbers: NaN or an integer.
AsLedgerNumber(d) ==
    CASE d.kind = "nan"                    -> NaN
      [] d.kind = "num" /\ d.num % d.den = 0 -> (IF d.neg THEN -1 ELSE 1) * (d.num \div d.den)

\* Initial balances the OPEN menu of client.cpp lets through when the user
\* types "0", "-1" or "nan": readDouble accepts all three and the check
\* `initialBalance < 0` refuses only -1; for the NaN of stod("nan") it is
\* false.
MenuLines == {<<48>>, <<45, 49>>, <<110, 97, 110>>}
MC_MenuInitials ==
    {v \in {AsLedgerNumber(CL!ReadDouble(l).val) : l \in {l \in MenuLines : CL!ReadDouble(l).ok}} :
        ~L!DLt(v, 0)}
=============================================================================
