---------------------------- MODULE MC_WireSpec ----------------------------
(* Values the configuration files of WireSpec cannot write literally.      *)
EXTENDS WireSpec

CL == INSTANCE Cli

\* Answers typed at the prompts, and what readInt, readDouble and
\* readCurrency make of them.
Line10001   == <<49, 48, 48, 48, 49>>                        \* "10001"
LineIntMax  == <<50, 49, 52, 55, 52, 56, 51, 54, 52, 55>>    \* "2147483647"
LineOne     == <<49>>                                        \* "1"
Line65535   == <<54, 53, 53, 51, 53>>                        \* "65535"
Line65536   == <<54, 53, 53, 51, 54>>                        \* "65536"
LineZero    == <<48>>                                        \* "0"
LineOnePt   == <<49, 46, 48>>                                \* "1.0"
LineMinus1  == <<45, 49, 101, 48>>                           \* "-1e0"
LineNaN     == <<110, 97, 110>>                              \* "nan"
LineCNY     == <<67, 78, 89>>                                \* "CNY"
LineEuro    == <<69, 85, 82>>                                \* "EUR"
LineSgd     == <<115, 103, 100>>                             \* "sgd"

IntsOf(lines)    == {CL!ReadInt(l).val : l \in {l \in lines : CL!ReadInt(l).ok}}
DoublesOf(lines) ==
    {CL!DoubleBits(CL!ReadDouble(l).val) : l \in {l \in lines : CL!ReadDouble(l).ok}}

\* "p" and a password of the full 16 bytes.
MC_Passwords == {<<112>>, [i \in 1 .. 16 |-> 112]}

\* A 17-byte password: handleClose .. handleTransfer do not check the length.
MC_LongPasswords == {[i \in 1 .. 16 |-> 112], [i \in 1 .. 17 |-> 112]}

\* Account numbers the prompts accept (> 0): the first one and INT32_MAX.
MC_AccNos == IntsOf({Line10001, LineIntMax})

\* Monitor periods: 1 and the u16 limit; 65536 is one more.
MC_Seconds     == IntsOf({LineOne, Line65535})
MC_LongSeconds == IntsOf({Line65536})

\* 0.0, 1.0 (0x3FF0...), -1.0 (0xBFF0...) and the NaN of stod("nan").
MC_Doubles == DoublesOf({LineZero, LineOnePt, LineMinus1, LineNaN})

\* CNY, and SGD typed after an answer readCurrency refuses.
MC_Currencies == {CL!ReadCurrency(<<LineCNY>>), CL!ReadCurrency(<<LineEuro, LineSgd>>)}

MC_RequestIds == {<<0, 0, 0, 0>>, <<65535, 65535, 65535, 65535>>}

\* The name "a"; reply and callback texts "" and "ok".
MC_Names == {<<97>>}
MC_Texts == {<<>>, <<111, 107>>}
=============================================================================
