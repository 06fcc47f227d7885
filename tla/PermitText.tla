------------------------------ MODULE PermitText ------------------------------
(***************************************************************************)
(* One permit from the submitted text to the calldata of permit(): the      *)
(* bounds and conversions of VerifyAndCache (authorize.go), of the typed    *)
(* data and signature helpers (eip712.go), of Spend and sendPermit          *)
(* (spend.go) and of EncodePermitCall (permit2.go).  One owner, one agent,  *)
(* one token; concurrency, receipts and the event loop are AgentWallet's.   *)
(*                                                                         *)
(* Widths are scaled as in TypedData.                                       *)
(***************************************************************************)
EXTENDS TypedData

CONSTANTS
    AmountTexts, \* the amounts submitted
    Amounts,     \* the amounts spent
    Vs,          \* the v bytes of submitted signatures
    MaxTime, MaxRows, NoRow, NoCall

ASSUME PermitTextAssumption ==
    /\ AmountTexts \subseteq Texts(Nat) /\ Amounts \subseteq Nat \ {0}
    /\ Vs \subseteq 0..255 /\ MaxTime \in Nat /\ MaxRows \in Nat

VARIABLES
    now,
    rows,      \* by nonce: the cached row, with the message its owner signed (history)
    cached,    \* how many submissions were cached: the rows' creation order
    sent,      \* the last permit(): its calldata and the row it was made from
    answer     \* what the last Spend returned

vars == <<now, rows, cached, sent, answer>>

Params == [amount: AmountTexts, nonce: Uint64, deadline: Int64, addrs: BOOLEAN]

\* A signature as submitted: the message it is over, the parity bit it was made
\* with, the v byte that carries it and how it is spelled.
Signatures(td) == [over: {td}, bit: {0, 1}, v: Vs, spelling: {"0x", "bare", "0X", "short"}]

-----------------------------------------------------------------------------
\* A plausible slip: v is passed on as it was cached.
decodeSigOnchainVerbatim(s) == s.v

\* decodeSigOnchain: v 0/1 becomes 27/28.
decodeSigOnchain(s) == IF s.v < 27 THEN s.v + 27 ELSE s.v

\* normalizeSigHex: one spelling, v untouched.
normalizeSigHex(s) == [s EXCEPT !.spelling = "0x"]

\* VerifyAndCache's bound on the amount, on the text.
AmountGiven(p) == p.amount \notin {EmptyText, ZeroText}

\* VerifyAndCache, from the first bound to the Upsert.
VerifyAndCache(p, s) ==
    /\ AmountGiven(p)
    /\ p.deadline > now
    /\ \E td \in BuildPermit2TypedData(p) :
          /\ Recovers(td, s)
          /\ rows' = [rows EXCEPT ![p.nonce] =
                [amount |-> p.amount, expiration |-> p.deadline, nonce |-> ToInt64(p.nonce),
                 sig |-> normalizeSigHex(s), created |-> cached, signed |-> td]]
    /\ cached' = cached + 1
    /\ UNCHANGED <<now, sent, answer>>

\* sendPermit's conversions and the tuple of EncodePermitCall.
PermitCall(row) ==
    [amount |-> SetString(row.amount), expiration |-> ToUint64(row.expiration),
     nonce |-> ToUint64(row.nonce), sigDeadline |-> row.expiration,
     v |-> decodeSigOnchain(row.sig)]

\* The checks of EncodePermitCall.
Encodable(call) == call.amount > 0 /\ call.sigDeadline > 0

ActiveRows == {n \in DOMAIN rows : rows[n] # NoRow /\ rows[n].expiration > now}

\* Spend, with an on-chain allowance that does not cover the amount yet.
Spend(atoms) ==
    \E n \in ActiveRows :
        LET row == rows[n]
            allowance == SetString(row.amount)
        IN  /\ \A k \in ActiveRows : rows[k].created <= row.created
            /\ answer' = CASE allowance = NotANumber -> "malformed"
                           [] allowance # NotANumber /\ allowance < atoms -> "exceeded"
                           [] OTHER -> IF Encodable(PermitCall(row)) THEN "sent" ELSE "refused"
            /\ sent' = IF answer' = "sent" THEN [call |-> PermitCall(row), row |-> row] ELSE sent
            /\ UNCHANGED <<now, rows, cached>>

Tick ==
    /\ now < MaxTime
    /\ now' = now + 1
    /\ UNCHANGED <<rows, cached, sent, answer>>

Init ==
    /\ now = 0
    /\ rows = [n \in Uint64 |-> NoRow]
    /\ cached = 0
    /\ sent = NoCall
    /\ answer = "none"

\* A signature over anything else is refused, so only matching ones are tried.
Submit ==
    /\ cached < MaxRows
    /\ \E p \in Params : \E s \in Signatures(PermitMessage(p)) : VerifyAndCache(p, s)

Next ==
    \/ Submit
    \/ \E atoms \in Amounts : Spend(atoms)
    \/ Tick

Spec == Init /\ [][Next]_vars

Cached == {rows[n] : n \in {k \in DOMAIN rows : rows[k] # NoRow}}

-----------------------------------------------------------------------------
\* What Permit2 checks on chain holds of every permit() that is sent: the numbers
\* in the calldata, after text, int64 and uint64 conversions, are the ones the
\* owner signed, and v is 27 or 28 and recovers the owner, whichever v the wallet
\* delivered (spend.go, sendPermit and decodeSigOnchain).
SentPermitVerifies ==
    sent # NoCall =>
        LET m == sent.row.signed
        IN  /\ sent.call.amount = m.amount /\ sent.call.expiration = m.expiration
            /\ sent.call.nonce = m.nonce /\ sent.call.sigDeadline = m.sigDeadline
            /\ sent.call.v = 27 + sent.row.sig.bit

\* Every number of a permit() fits its type on chain: uint160 for the amount,
\* uint48 for expiration and nonce (permit2.go, EncodePermitCall).
SentPermitFits ==
    sent # NoCall =>
        /\ sent.call.amount \in 1..(AmountLimit - 1)
        /\ sent.call.expiration \in 1..(UintLimit - 1)
        /\ sent.call.nonce \in 0..(UintLimit - 1)

\* A row is read as the number its owner signed, however it was spelled, or, where
\* blanks surround it, not read at all: no spelling makes Spend work with another
\* number (spend.go, Spend; eip712.go, decimalToBigInt).
AmountReadAsSigned ==
    \A r \in Cached : SetString(r.amount) = IF r.amount.pad THEN NotANumber ELSE r.signed.amount
=============================================================================
