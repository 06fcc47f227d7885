---------------------------- MODULE ReceiptOutcome ----------------------------
(***************************************************************************)
(* What Spender and GasFunder take WaitForReceipt (rpc.go) to be: a wait    *)
(* that hands over the receipt of a mined transaction or gives up, and that *)
(* may give up on a transaction that is, or will be, mined.                 *)
(***************************************************************************)
VARIABLES
    known,     \* a node has the receipt
    outcome    \* "waiting", "receipt" or "none"

vars == <<known, outcome>>

Init == ~known /\ outcome = "waiting"

Appear == known' /\ UNCHANGED outcome

Found == outcome = "waiting" /\ known /\ outcome' = "receipt" /\ UNCHANGED known

GiveUp == outcome = "waiting" /\ outcome' = "none" /\ UNCHANGED known

Spec == Init /\ [][Appear \/ Found \/ GiveUp]_vars
=============================================================================
