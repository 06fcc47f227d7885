------------------------------ MODULE TypedData ------------------------------
(***************************************************************************)
(* The typed data of eip712.go: which parameters are refused, and what the  *)
(* message says for the ones that are not.  A builder returns the set of    *)
(* its results, {} when it fails.                                           *)
(*                                                                         *)
(* Widths are scaled: Word stands for 2^64, AmountLimit for 2^160,          *)
(* UintLimit for 2^48 and WideLimit for 2^256.  "addrs" says whether every  *)
(* address of the parameters passes looksLikeAddress.                       *)
(***************************************************************************)
EXTENDS DecimalText

CONSTANTS Word, AmountLimit, UintLimit, WideLimit

ASSUME WidthAssumption ==
    /\ Word \in Nat /\ Word % 2 = 0 /\ UintLimit \in 1..(Word \div 2)
    /\ AmountLimit \in Nat \ {0} /\ WideLimit \in Nat /\ WideLimit >= AmountLimit

Int64 == -(Word \div 2)..(Word \div 2 - 1)
Uint64 == 0..(Word - 1)

\* Go's conversions between uint64 and int64.
ToUint64(i) == i % Word
ToInt64(u) == IF u >= Word \div 2 THEN u - Word ELSE u

-----------------------------------------------------------------------------
\* A plausible slip: the limit itself is let through.
FitsWidthsInclusive(p, amount) ==
    amount <= AmountLimit /\ p.nonce < UintLimit /\ ToUint64(p.deadline) < UintLimit

\* The width checks of BuildPermit2TypedData; the deadline is checked as uint64.
FitsWidths(p, amount) ==
    amount < AmountLimit /\ p.nonce < UintLimit /\ ToUint64(p.deadline) < UintLimit

\* BuildPermit2TypedData's message: numbers, whatever the text looked like.
PermitMessage(p) ==
    [type |-> "PermitSingle", amount |-> decimalToBigInt(p.amount), expiration |-> p.deadline,
     nonce |-> p.nonce, sigDeadline |-> p.deadline]

BuildPermit2TypedData(p) ==
    LET amount == decimalToBigInt(p.amount)
    IN  IF amount # NotANumber /\ FitsWidths(p, amount) /\ p.addrs THEN {PermitMessage(p)} ELSE {}

BuildEIP2612TypedData(p, named) ==
    LET value == decimalToBigInt(p.value)
    IN  IF p.addrs /\ value # NotANumber /\ value < WideLimit /\ named
        THEN {[type |-> "Permit", value |-> value, nonce |-> p.nonce, deadline |-> p.deadline,
               chainID |-> p.chainID]}
        ELSE {}

\* There is no width check here: the hash refuses what does not fit.
BuildEIP3009TypedData(p, named) ==
    LET value == decimalToBigInt(p.value)
    IN  IF p.addrs /\ value # NotANumber /\ p.bytes32 /\ named
        THEN {[type |-> "TransferWithAuthorization", token |-> p.token, from |-> p.from, to |-> p.to,
               value |-> value, validAfter |-> p.validAfter, validBefore |-> p.validBefore,
               nonce |-> p.nonce, chainID |-> p.chainID]}
        ELSE {}

-----------------------------------------------------------------------------
\* apitypes.TypedDataAndHash encodes an unsigned integer only if it is one of
\* its width.
Hashable(td) ==
    CASE td.type = "PermitSingle" -> td.sigDeadline >= 0
      [] td.type = "Permit" -> td.deadline >= 0 /\ td.chainID >= 0
      [] td.type = "TransferWithAuthorization" ->
            /\ td.value < WideLimit /\ td.chainID >= 0
            /\ td.validAfter >= 0 /\ td.validBefore >= 0
      [] OTHER -> td.hashable

\* SignTypedData: the message under the key, v 27 or 28 by the parity bit.
SignTypedData(key, td) ==
    IF Hashable(td) THEN {[over |-> td, key |-> key, bit |-> bit, v |-> 27 + bit] : bit \in {0, 1}}
    ELSE {}

\* decodeSig65: spelled with "0x" or bare; v 27/28 becomes 0/1.
decodeSig65(s) ==
    IF s.spelling \in {"0x", "bare"} THEN {IF s.v >= 27 THEN s.v - 27 ELSE s.v} ELSE {}

\* RecoverTypedDataSigner: Ecrecover gives the signer for the message and the
\* parity that were signed.
Recovers(td, s) == Hashable(td) /\ s.over = td /\ s.bit \in decodeSig65(s)
=============================================================================
