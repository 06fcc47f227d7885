----------------------------- MODULE MCGasFunder -----------------------------
(* Three concurrent calls, two of them for the same agent account.          *)
EXTENDS GasFunder

CONSTANTS c1, c2, c3, a1, a2

MCCalls == {c1, c2, c3}
MCAccounts == {a1, a2}
MCAccountOf == [c \in MCCalls |-> IF c = c3 THEN a2 ELSE a1]
=============================================================================
