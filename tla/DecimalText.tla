----------------------------- MODULE DecimalText -----------------------------
(***************************************************************************)
(* Amounts travel as decimal strings.  A text is abstracted to what the     *)
(* parsers tell apart: surrounding blanks, a sign, leading zeros and the    *)
(* number its digits denote, or that it has none (NoDigits) or is not made  *)
(* of digits (Junk).                                                        *)
(***************************************************************************)
EXTENDS Integers

CONSTANTS NoDigits, Junk, NotANumber

ASSUME TextAssumption == NoDigits \notin Int /\ Junk \notin Int /\ NotANumber \notin Int

Texts(numbers) ==
    [pad: BOOLEAN, sign: {"", "+", "-"}, zeros: BOOLEAN, digits: numbers \cup {NoDigits, Junk}]

Plain(d) == [pad |-> FALSE, sign |-> "", zeros |-> FALSE, digits |-> d]

\* The Go literals "" and "0".
EmptyText == Plain(NoDigits)
ZeroText == Plain(0)

TrimSpace(t) == [t EXCEPT !.pad = FALSE]

\* big.Int.SetString(t, 10): signs and leading zeros are fine, blanks are not.
SetString(t) ==
    IF t.pad \/ t.digits \notin Int THEN NotANumber
    ELSE IF t.sign = "-" THEN -t.digits ELSE t.digits

\* A plausible slip: the magnitude is taken, the sign is not looked at.
decimalMagnitude(t) == IF t.digits \in Nat THEN t.digits ELSE NotANumber

\* decimalToBigInt (eip712.go): trimmed, and no negative numbers.
decimalToBigInt(t) ==
    LET v == SetString(TrimSpace(t)) IN IF v \in Nat THEN v ELSE NotANumber
=============================================================================
