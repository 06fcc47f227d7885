-------------------------- MODULE PermitTextProofs --------------------------
(* Proofs about one permit's way from text to calldata, for every word size, *)
(* every set of widths within it, every text and every v byte.               *)
EXTENDS PermitText, TLAPS

\* What VerifyAndCache guarantees of a row: each of its columns is the number
\* its owner signed, within its width, and the v that goes on chain recovers.
AmountSigned(r) ==
    /\ r.amount \in Texts(Nat)
    /\ decimalToBigInt(r.amount) = r.signed.amount
    /\ r.signed.amount \in 0..(AmountLimit - 1)

ExpirationSigned(r) ==
    /\ r.expiration = r.signed.expiration /\ r.expiration = r.signed.sigDeadline
    /\ r.expiration \in 1..(UintLimit - 1)

NonceSigned(r) == r.nonce = r.signed.nonce /\ r.nonce \in 0..(UintLimit - 1)

VRecovers(r) == decodeSigOnchain(r.sig) = 27 + r.sig.bit

Sound(r) == AmountSigned(r) /\ ExpirationSigned(r) /\ NonceSigned(r) /\ VRecovers(r)

RowsSound == \A n \in Uint64 : rows[n] # NoRow => Sound(rows[n])

\* The last permit() was encoded from a sound row whose amount was read.
SentSound ==
    sent # NoCall =>
        /\ Sound(sent.row) /\ sent.call = PermitCall(sent.row)
        /\ SetString(sent.row.amount) # NotANumber /\ sent.call.amount > 0

IInv ==
    /\ now \in Nat /\ rows = [n \in Uint64 |-> rows[n]]
    /\ RowsSound /\ SentSound

-----------------------------------------------------------------------------
LEMMA Mod == ASSUME NEW w \in Nat, NEW x \in 0..(w - 1) PROVE x % w = x
  OBVIOUS

\* Numbers below UintLimit pass unchanged through both of Go's conversions.
LEMMA SmallWord ==
    ASSUME NEW x \in 0..(UintLimit - 1) PROVE ToUint64(x) = x /\ ToInt64(x) = x
<1>1. Word \in Nat /\ UintLimit \in Int /\ UintLimit <= Word \div 2
  BY WidthAssumption
<1>2. x \in 0..(Word - 1) /\ x < Word \div 2
  BY <1>1
<1> QED
  BY <1>1, <1>2, Mod DEF ToUint64, ToInt64

LEMMA Trimmed ==
    ASSUME NEW t \in Texts(Nat)
    PROVE  TrimSpace(t).pad = FALSE /\ TrimSpace(t).sign = t.sign /\ TrimSpace(t).digits = t.digits
  BY DEF TrimSpace, Texts

\* A text that decimalToBigInt reads is read as the same number by SetString, or,
\* padded, not at all.
LEMMA SameNumber ==
    ASSUME NEW t \in Texts(Nat), decimalToBigInt(t) \in Nat
    PROVE  SetString(t) = IF t.pad THEN NotANumber ELSE decimalToBigInt(t)
<1>1. CASE t.pad
  BY <1>1 DEF SetString
<1>2. CASE ~t.pad
  <2> DEFINE u == TrimSpace(t)
  <2>1. ~u.pad /\ u.sign = t.sign /\ u.digits = t.digits
    BY Trimmed
  <2> HIDE DEF u
  <2>2. SetString(u) = SetString(t)
    BY <1>2, <2>1, Zenon DEF SetString
  <2>3. SetString(u) = decimalToBigInt(t)
    BY TextAssumption DEF decimalToBigInt, u
  <2> QED
    BY <1>2, <2>2, <2>3
<1> QED
  BY <1>1, <1>2

\* What the width checks and the deadline check leave of a submission.
LEMMA SubmittedNumbers ==
    ASSUME now \in Nat, NEW p \in Params, p.deadline > now, NEW td \in BuildPermit2TypedData(p)
    PROVE  /\ td = PermitMessage(p)
           /\ p.amount \in Texts(Nat) /\ decimalToBigInt(p.amount) \in 0..(AmountLimit - 1)
           /\ p.nonce \in 0..(UintLimit - 1) /\ p.deadline \in 1..(UintLimit - 1)
<1>1. /\ td = PermitMessage(p) /\ decimalToBigInt(p.amount) # NotANumber
      /\ FitsWidths(p, decimalToBigInt(p.amount))
  BY DEF BuildPermit2TypedData
<1>2. decimalToBigInt(p.amount) \in Nat
  BY <1>1 DEF decimalToBigInt
<1>3. p.amount \in Texts(Nat) /\ p.nonce \in Uint64 /\ p.deadline \in Int64
  BY PermitTextAssumption DEF Params
<1>4. p.nonce \in 0..(UintLimit - 1)
  BY <1>1, <1>3, WidthAssumption DEF FitsWidths, Uint64
<1>5. p.deadline \in 1..(UintLimit - 1)
  <2>1. p.deadline \in 0..(Word - 1) /\ p.deadline >= 1
    BY <1>3, WidthAssumption DEF Int64
  <2>2. ToUint64(p.deadline) = p.deadline
    BY <2>1, WidthAssumption, Mod DEF ToUint64
  <2> QED
    BY <1>1, <2>1, <2>2, WidthAssumption DEF FitsWidths
<1>6. decimalToBigInt(p.amount) < AmountLimit
  BY <1>1 DEF FitsWidths
<1> QED
  BY <1>1, <1>2, <1>3, <1>4, <1>5, <1>6, WidthAssumption

\* v of a signature that recovers, as it goes on chain.
LEMMA RecoveredV ==
    ASSUME NEW td, NEW s \in Signatures(td), Recovers(td, s)
    PROVE  decodeSigOnchain(normalizeSigHex(s)) = 27 + normalizeSigHex(s).bit
<1>1. s.v \in 0..255 /\ s.bit \in {0, 1}
  BY PermitTextAssumption DEF Signatures
<1>2. s.bit = IF s.v >= 27 THEN s.v - 27 ELSE s.v
  BY DEF Recovers, decodeSig65
<1>3. normalizeSigHex(s).v = s.v /\ normalizeSigHex(s).bit = s.bit
  BY DEF normalizeSigHex, Signatures
<1> QED
  BY <1>1, <1>2, <1>3 DEF decodeSigOnchain

\* The row that VerifyAndCache writes.
NewRow(p, s, td) ==
    [amount |-> p.amount, expiration |-> p.deadline, nonce |-> ToInt64(p.nonce),
     sig |-> normalizeSigHex(s), created |-> cached, signed |-> td]

LEMMA NewRowSound ==
    ASSUME now \in Nat, NEW p \in Params, p.deadline > now, NEW td \in BuildPermit2TypedData(p),
           NEW s \in Signatures(PermitMessage(p)), Recovers(td, s)
    PROVE  Sound(NewRow(p, s, td))
<1> DEFINE r == NewRow(p, s, td)
<1>1. /\ td = PermitMessage(p)
      /\ p.amount \in Texts(Nat) /\ decimalToBigInt(p.amount) \in 0..(AmountLimit - 1)
      /\ p.nonce \in 0..(UintLimit - 1) /\ p.deadline \in 1..(UintLimit - 1)
  BY SubmittedNumbers
<1>2. /\ r.amount = p.amount /\ r.expiration = p.deadline /\ r.nonce = ToInt64(p.nonce)
      /\ r.sig = normalizeSigHex(s) /\ r.signed = td
  BY DEF NewRow
<1>3. /\ PermitMessage(p).amount = decimalToBigInt(p.amount)
      /\ PermitMessage(p).expiration = p.deadline /\ PermitMessage(p).sigDeadline = p.deadline
      /\ PermitMessage(p).nonce = p.nonce
  BY DEF PermitMessage
<1>4. ToInt64(p.nonce) = p.nonce
  BY <1>1, SmallWord
<1>5. decodeSigOnchain(r.sig) = 27 + r.sig.bit
  BY <1>1, <1>2, RecoveredV
<1> HIDE DEF r
<1> QED
  BY <1>1, <1>2, <1>3, <1>4, <1>5 DEF Sound, AmountSigned, ExpirationSigned, NonceSigned, VRecovers, r

-----------------------------------------------------------------------------
LEMMA InitOK == Init => IInv
  BY DEF Init, IInv, RowsSound, SentSound

LEMMA SubmitKeeps == ASSUME IInv, Submit PROVE IInv'
<1>1. PICK p \in Params : \E s \in Signatures(PermitMessage(p)) : VerifyAndCache(p, s)
  BY DEF Submit
<1>2. PICK s \in Signatures(PermitMessage(p)) : VerifyAndCache(p, s)
  BY <1>1
<1>3. PICK td \in BuildPermit2TypedData(p) :
          Recovers(td, s) /\ rows' = [rows EXCEPT ![p.nonce] = NewRow(p, s, td)]
  BY <1>2 DEF VerifyAndCache, NewRow
<1>4. p.deadline > now /\ UNCHANGED <<now, sent>> /\ now \in Nat
  BY <1>2 DEF VerifyAndCache, IInv
<1>5. Sound(NewRow(p, s, td))
  BY <1>3, <1>4, NewRowSound
<1>6. rows' = [n \in Uint64 |-> rows'[n]] /\ RowsSound'
  BY <1>3, <1>5 DEF IInv, RowsSound
<1>7. SentSound'
  BY <1>4 DEF IInv, SentSound
<1> QED
  BY <1>4, <1>6, <1>7 DEF IInv

LEMMA SpendKeeps == ASSUME IInv, NEW atoms \in Amounts, Spend(atoms) PROVE IInv'
<1>1. PICK n \in ActiveRows :
          /\ answer' = CASE SetString(rows[n].amount) = NotANumber -> "malformed"
                         [] SetString(rows[n].amount) # NotANumber /\ SetString(rows[n].amount) < atoms -> "exceeded"
                         [] OTHER -> IF Encodable(PermitCall(rows[n])) THEN "sent" ELSE "refused"
          /\ sent' = IF answer' = "sent" THEN [call |-> PermitCall(rows[n]), row |-> rows[n]] ELSE sent
          /\ UNCHANGED <<now, rows, cached>>
  BY DEF Spend
<1>2. Sound(rows[n])
  BY DEF IInv, RowsSound, ActiveRows
<1>3. CASE answer' = "sent"
  <2>1. SetString(rows[n].amount) # NotANumber /\ Encodable(PermitCall(rows[n]))
    BY <1>1, <1>3
  <2>2. sent' = [call |-> PermitCall(rows[n]), row |-> rows[n]]
    BY <1>1, <1>3
  <2>3. sent'.call = PermitCall(rows[n]) /\ sent'.row = rows[n]
    BY <2>2
  <2>4. SentSound'
    BY <1>2, <2>1, <2>3 DEF SentSound, Encodable
  <2> QED
    BY <1>1, <2>4 DEF IInv, RowsSound
<1>4. CASE answer' # "sent"
  BY <1>1, <1>4 DEF IInv, RowsSound, SentSound
<1> QED
  BY <1>3, <1>4

LEMMA Inductive == IInv /\ [Next]_vars => IInv'
<1> SUFFICES ASSUME IInv, [Next]_vars PROVE IInv'
  OBVIOUS
<1>1. CASE Submit
  BY <1>1, SubmitKeeps
<1>2. CASE \E atoms \in Amounts : Spend(atoms)
  BY <1>2, SpendKeeps
<1>3. CASE Tick
  BY <1>3 DEF Tick, IInv, RowsSound, SentSound
<1>4. CASE UNCHANGED vars
  BY <1>4 DEF vars, IInv, RowsSound, SentSound
<1> QED
  BY <1>1, <1>2, <1>3, <1>4 DEF Next

LEMMA Invariance == Spec => []IInv
  BY InitOK, Inductive, PTL DEF Spec

-----------------------------------------------------------------------------
\* The calldata of a sound row whose amount is read.
LEMMA SoundCall ==
    ASSUME NEW r, Sound(r), SetString(r.amount) # NotANumber
    PROVE  LET call == PermitCall(r)
           IN  /\ call.amount = r.signed.amount /\ call.expiration = r.expiration
               /\ call.nonce = r.nonce /\ call.sigDeadline = r.expiration
               /\ call.v = 27 + r.sig.bit
<1>1. SetString(r.amount) = r.signed.amount
  <2>1. decimalToBigInt(r.amount) \in Nat
    BY DEF Sound, AmountSigned
  <2> QED
    BY <2>1, SameNumber DEF Sound, AmountSigned
<1>2. ToUint64(r.expiration) = r.expiration /\ ToUint64(r.nonce) = r.nonce
  <2>1. r.expiration \in 0..(UintLimit - 1) /\ r.nonce \in 0..(UintLimit - 1)
    BY DEF Sound, ExpirationSigned, NonceSigned
  <2> QED
    BY <2>1, SmallWord
<1> QED
  BY <1>1, <1>2 DEF PermitCall, Sound, VRecovers

\* Whatever the owner's wallet submitted, every permit() sent carries the numbers
\* that were signed and a v that recovers the owner (spend.go, sendPermit).
THEOREM PermitsVerify == Spec => []SentPermitVerifies
<1>1. IInv => SentPermitVerifies
  <2> SUFFICES ASSUME IInv, sent # NoCall PROVE SentPermitVerifies
    BY DEF SentPermitVerifies
  <2>1. Sound(sent.row) /\ sent.call = PermitCall(sent.row) /\ SetString(sent.row.amount) # NotANumber
    BY DEF IInv, SentSound
  <2> QED
    BY <2>1, SoundCall DEF SentPermitVerifies, Sound, ExpirationSigned, NonceSigned
<1> QED
  BY <1>1, Invariance, PTL

\* No number of a permit() overflows its type on chain, for every choice of the
\* widths that fits the machine word (permit2.go, EncodePermitCall).
THEOREM PermitsFit == Spec => []SentPermitFits
<1>1. IInv => SentPermitFits
  <2> SUFFICES ASSUME IInv, sent # NoCall PROVE SentPermitFits
    BY DEF SentPermitFits
  <2>1. /\ Sound(sent.row) /\ sent.call = PermitCall(sent.row) /\ sent.call.amount > 0
        /\ SetString(sent.row.amount) # NotANumber
    BY DEF IInv, SentSound
  <2>2. /\ sent.call.amount = sent.row.signed.amount /\ sent.call.expiration = sent.row.expiration
        /\ sent.call.nonce = sent.row.nonce
    BY <2>1, SoundCall
  <2>3. /\ sent.call.amount \in 0..(AmountLimit - 1) /\ sent.call.expiration \in 1..(UintLimit - 1)
        /\ sent.call.nonce \in 0..(UintLimit - 1)
    BY <2>1, <2>2 DEF Sound, AmountSigned, ExpirationSigned, NonceSigned
  <2> QED
    BY <2>1, <2>3, WidthAssumption DEF SentPermitFits
<1> QED
  BY <1>1, Invariance, PTL

\* Two parsers read every cached amount: whatever its spelling, the second never
\* gets another number than the one the first had signed (spend.go, Spend;
\* eip712.go, decimalToBigInt).
THEOREM AmountsAgree == Spec => []AmountReadAsSigned
<1>1. IInv => AmountReadAsSigned
  <2> SUFFICES ASSUME IInv, NEW r \in Cached
               PROVE  SetString(r.amount) = IF r.amount.pad THEN NotANumber ELSE r.signed.amount
    BY DEF AmountReadAsSigned
  <2>1. Sound(r)
    BY DEF IInv, RowsSound, Cached
  <2>2. decimalToBigInt(r.amount) \in Nat
    BY <2>1 DEF Sound, AmountSigned
  <2> QED
    BY <2>1, <2>2, SameNumber DEF Sound, AmountSigned
<1> QED
  BY <1>1, Invariance, PTL
=============================================================================
