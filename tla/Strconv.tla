------------------------------ MODULE Strconv ------------------------------
(***************************************************************************)
(* The C and C++ library conversions the programs apply to what the user  *)
(* types: atoi and atof on command-line arguments (the mains of client and *)
(* servers), std::stoi and std::stod at the menu prompts (client.cpp).     *)
(* A string is the sequence of its bytes.  A number is kept exact, as a    *)
(* sign and a fraction num / den; which double it rounds to is decided by  *)
(* the module that uses it.                                                *)
(***************************************************************************)
EXTENDS Integers, Sequences, SequencesExt

IsSpace(ch) == ch \in {9, 10, 11, 12, 13, 32}   \* isspace in the "C" locale
IsDigit(ch) == ch \in 48 .. 57

RECURSIVE SkipSpace(_)
SkipSpace(s) == IF s # <<>> /\ IsSpace(Head(s)) THEN SkipSpace(Tail(s)) ELSE s

RECURSIVE DigitsValue(_, _)
DigitsValue(s, acc) ==
    IF s # <<>> /\ IsDigit(Head(s)) THEN DigitsValue(Tail(s), acc * 10 + Head(s) - 48)
    ELSE acc

\* The longest run of digits s starts with, and what follows it.
LeadingDigits(s) ==
    LET n == SelectInSeq(s, LAMBDA ch : ~IsDigit(ch))
    IN  IF n = 0 THEN s ELSE SubSeq(s, 1, n - 1)
After(s, p) == SubSeq(s, Len(p) + 1, Len(s))

\* s after the blanks, whether a '-' came next, and s after the sign.
Negative(s) == LET t == SkipSpace(s) IN t # <<>> /\ Head(t) = 45
Unsigned(s) ==
    LET t == SkipSpace(s)
    IN  IF t # <<>> /\ Head(t) \in {43, 45} THEN Tail(t) ELSE t

\* Leading white space, an optional sign, then the longest run of digits;
\* 0 when there is none ("abc", "", "-").  The rest of the string is
\* ignored, so "0.5" gives 0.  A value beyond int is undefined behaviour;
\* arguments of at most 9 digits keep clear of it.
AtoI(s) ==
    LET v == DigitsValue(Unsigned(s), 0)
    IN  IF Negative(s) THEN -v ELSE v

-----------------------------------------------------------------------------
(* std::stoi: strtol in base 10; invalid_argument when no digit follows    *)
(* the blanks and the sign, out_of_range beyond int.  The range test is    *)
(* made on the digits, so that no value beyond TLC's integers is formed.   *)

StripZeros(ds) ==
    LET i == SelectInSeq(ds, LAMBDA ch : ch # 48)
    IN  IF i = 0 THEN <<>> ELSE SubSeq(ds, i, Len(ds))

\* a > b for digit strings of equal length.
DigitsGreater(a, b) ==
    LET i == SelectInSeq([j \in 1 .. Len(a) |-> a[j] # b[j]], LAMBDA x : x)
    IN  i # 0 /\ a[i] > b[i]

IntMaxDigits == <<50, 49, 52, 55, 52, 56, 51, 54, 52, 55>>   \* "2147483647"
IntMinDigits == <<50, 49, 52, 55, 52, 56, 51, 54, 52, 56>>   \* "2147483648"

RECURSIVE NegDigitsValue(_, _)
NegDigitsValue(s, acc) ==
    IF s # <<>> THEN NegDigitsValue(Tail(s), acc * 10 - (Head(s) - 48)) ELSE acc

\* [ok, val]: ok is FALSE where stoi throws.
StoI(s) ==
    LET ds  == StripZeros(LeadingDigits(Unsigned(s)))
        lim == IF Negative(s) THEN IntMinDigits ELSE IntMaxDigits
    IN  IF LeadingDigits(Unsigned(s)) = <<>>
           \/ Len(ds) > 10 \/ (Len(ds) = 10 /\ DigitsGreater(ds, lim))
        THEN [ok |-> FALSE, val |-> 0]
        ELSE [ok |-> TRUE,
              val |-> IF Negative(s) THEN NegDigitsValue(ds, 0) ELSE DigitsValue(ds, 0)]

-----------------------------------------------------------------------------
(* strtod.  After the blanks and the sign: "inf" or "infinity", "nan"      *)
(* (with an optional "(chars)"), or a decimal mantissa with at least one   *)
(* digit, an optional '.', and an exponent that counts only when a digit   *)
(* follows the 'e'.  Letters compare without case.  The hexadecimal form   *)
(* "0x..." is not modelled and stops the check if met.  Values are kept    *)
(* exact: the model's inputs are short, so no ERANGE occurs.               *)

Lower(ch) == IF ch \in 65 .. 90 THEN ch + 32 ELSE ch
StartsWithWord(s, w) == Len(s) >= Len(w) /\ \A i \in 1 .. Len(w) : Lower(s[i]) = w[i]

\* The exponent that follows a mantissa: 0 when there is none.
Exponent(s) ==
    LET neg == Len(s) >= 2 /\ s[2] = 45
        e   == IF Len(s) >= 2 /\ s[2] \in {43, 45} THEN SubSeq(s, 3, Len(s)) ELSE Tail(s)
    IN  IF s # <<>> /\ Lower(Head(s)) = 101 /\ LeadingDigits(e) # <<>>
        THEN (IF neg THEN -1 ELSE 1) * DigitsValue(e, 0)
        ELSE 0

\* [ok, kind, neg, num, den]: ok is FALSE when nothing converts (the result
\* is then 0); kind is "num", "inf" or "nan"; a "num" is num / den.
StrToD(s) ==
    LET u    == Unsigned(s)
        ip   == LeadingDigits(u)
        r    == After(u, ip)
        fp   == IF r # <<>> /\ Head(r) = 46 THEN LeadingDigits(Tail(r)) ELSE <<>>
        rest == IF r # <<>> /\ Head(r) = 46 THEN After(Tail(r), fp) ELSE r
        ex   == Exponent(rest)
        res(ok, kind, num, den) ==
            [ok |-> ok, kind |-> kind, neg |-> ok /\ Negative(s), num |-> num, den |-> den]
    IN  CASE StartsWithWord(u, <<105, 110, 102>>) -> res(TRUE, "inf", 0, 1)      \* "inf"
          [] StartsWithWord(u, <<110, 97, 110>>)  -> res(TRUE, "nan", 0, 1)      \* "nan"
          [] StartsWithWord(u, <<48, 120>>)       ->
                Assert(FALSE, "strtod: hexadecimal form not modelled")
          [] ip \o fp # <<>>                      ->
                res(TRUE, "num", DigitsValue(ip \o fp, 0) * 10 ^ (IF ex > 0 THEN ex ELSE 0),
                    10 ^ (Len(fp) + (IF ex < 0 THEN -ex ELSE 0)))
          [] OTHER                                -> res(FALSE, "num", 0, 1)

-----------------------------------------------------------------------------
(* The binary64 double that strtod returns, as its bits in four 16-bit    *)
(* limbs, most significant first: for NaN (the quiet NaN 0x7FF8...), the  *)
(* infinities and integers below 2^20, which it represents exactly.  A    *)
(* fraction, which it rounds, stops the check if met.                     *)

RECURSIVE Log2(_)
Log2(m) == IF m < 2 THEN 0 ELSE 1 + Log2(m \div 2)

DoubleBits(d) ==
    LET sign == IF d.neg THEN 32768 ELSE 0
        m    == d.num \div d.den
        e    == Log2(m)
        frac == (m - 2 ^ e) * 2 ^ (20 - e)   \* the top 20 mantissa bits
    IN  CASE d.kind = "nan"                     -> <<sign + 32760, 0, 0, 0>>
          [] d.kind = "inf"                     -> <<sign + 32752, 0, 0, 0>>
          [] d.num % d.den # 0 \/ m >= 2 ^ 20   ->
                Assert(FALSE, "DoubleBits: value not modelled")
          [] m = 0                              -> <<sign, 0, 0, 0>>
          [] OTHER -> <<sign + (1023 + e) * 16 + frac \div 65536, frac % 65536, 0, 0>>

=============================================================================
