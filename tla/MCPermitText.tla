----------------------------- MODULE MCPermitText -----------------------------
(* 3-bit words, 2-bit nonces, expirations and amounts; the amounts "", "0",  *)
(* "00", "3", "4", "03", "+3", "-0", "-3", " 3", " ", "x".                    *)
EXTENDS PermitText

Zeros(t) == [t EXCEPT !.zeros = TRUE]
Sign(c, t) == [t EXCEPT !.sign = c]
Pad(t) == [t EXCEPT !.pad = TRUE]

MCAmountTexts ==
    {EmptyText, ZeroText, Zeros(ZeroText), Plain(3), Plain(4), Zeros(Plain(3)), Sign("+", Plain(3)),
     Sign("-", ZeroText), Sign("-", Plain(3)), Pad(Plain(3)), Pad(EmptyText), Plain(Junk)}
MCAmounts == {1, 4}
MCVs == {0, 1, 27, 28, 29}
=============================================================================
