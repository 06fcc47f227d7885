-------------------------- MODULE SmartAccountProofs --------------------------
(* Proofs about passkey blobs and owner bytes for every group order, every   *)
(* byte base and word width, every client data and every list of owners.     *)
EXTENDS SmartAccount, FiniteSetTheorems, WellFoundedInduction, TLAPS

\* Whatever reply carries a blob, it was built from the request.
BlobOfRequest ==
    reply.kind = "erc1271" =>
        /\ request \in Assertions
        /\ reply.challenge = Challenge(request)
        /\ \E i \in OwnerIndices : reply.blob \in BuildCSWPasskeySignature(request, i)

-----------------------------------------------------------------------------
LEMMA Uint256Small == ASSUME NEW n \in 0..(WideLimit - 1) PROVE Uint256(n) = n
  BY CurveAssumption DEF Uint256

LEMMA Uint256Negative == ASSUME NEW n \in (-WideLimit)..(-1) PROVE Uint256(n) = n + WideLimit
  BY CurveAssumption DEF Uint256

LEMMA HalfOfN == N = 2 * p256NDiv2 + 1 /\ p256NDiv2 \in Nat
  BY CurveAssumption DEF p256NDiv2

\* For a scalar, NormalizeLowS gives the low one of s and N - s (p256.go).
THEOREM LowHalf ==
    \A s \in 1..(N - 1) : NormalizeLowS(s) \in 1..p256NDiv2 /\ NormalizeLowS(s) \in {s, N - s}
  BY CurveAssumption, HalfOfN DEF NormalizeLowS

\* What is packed is a low scalar that verifies exactly when s was one that does.
LEMMA PackedVerifies ==
    ASSUME NEW s \in 1..(WideLimit - 1), NEW t \in 1..(N - 1)
    PROVE  LET w == Uint256(NormalizeLowS(s))
           IN  s \in 1..(N - 1) /\ s \in {t, N - t}
                 <=> IsLowS(w) /\ w \in 1..(N - 1) /\ w \in {t, N - t}
<1> DEFINE w == Uint256(NormalizeLowS(s))
<1>1. CASE s <= p256NDiv2
  <2>1. w = s
    BY <1>1, Uint256Small, HalfOfN, CurveAssumption DEF NormalizeLowS
  <2> QED
    BY <1>1, <2>1, HalfOfN DEF IsLowS
<1>2. CASE s > p256NDiv2 /\ s < N
  <2>1. w = N - s
    BY <1>2, Uint256Small, HalfOfN, CurveAssumption DEF NormalizeLowS
  <2> QED
    BY <1>2, <2>1, HalfOfN DEF IsLowS
<1>3. CASE s = N
  <2>1. w = 0
    BY <1>3, Uint256Small, HalfOfN, CurveAssumption DEF NormalizeLowS
  <2> QED
    BY <1>3, <2>1, CurveAssumption
<1>4. CASE s > N
  <2>1. NormalizeLowS(s) = N - s /\ N - s \in (-WideLimit)..(-1)
    BY <1>4, HalfOfN, CurveAssumption DEF NormalizeLowS
  <2>2. w = N - s + WideLimit
    BY <2>1, Uint256Negative
  <2>3. w > N
    BY <2>2, CurveAssumption
  <2> QED
    BY <1>4, <2>2, <2>3, CurveAssumption
<1> QED
  BY <1>1, <1>2, <1>3, <1>4, HalfOfN, CurveAssumption

LEMMA LeastNatural == ASSUME NEW T \in SUBSET Nat, T # {} PROVE \E x \in T : \A y \in T : x <= y
<1> DEFINE R == OpToRel(<, Nat)
<1>1. IsWellFoundedOn(R, Nat)
  BY NatLessThanWellFounded
<1>2. \A x, y \in Nat : <<x, y>> \in R <=> x < y
  BY DEF OpToRel
<1> HIDE DEF R
<1>3. PICK x \in T : \A y \in T : ~(<<y, x>> \in R)
  BY <1>1, WFMin
<1>4. ASSUME NEW y \in T PROVE x <= y
  <2>1. ~(<<y, x>> \in R) /\ x \in Nat /\ y \in Nat
    BY <1>3
  <2> QED
    BY <1>2, <2>1
<1> QED
  BY <1>4

LEMMA MinOfSome == ASSUME NEW T \in SUBSET Nat, T # {} PROVE Min(T) \in T
<1>1. \E x \in T : \A y \in T : x <= y
  BY LeastNatural
<1> QED
  BY <1>1 DEF Min

\* The indices are those of two fields with these names.
LEMMA IndicesFound ==
    ASSUME NEW a \in Assertions, NEW x \in clientDataIndices(a.clientDataJSON)
    PROVE  /\ x.challenge \in Fields("challenge", a.clientDataJSON) /\ a.clientDataJSON[x.challenge].tight
           /\ x.type \in Fields("type", a.clientDataJSON) /\ a.clientDataJSON[x.type].tight
           /\ a.clientDataJSON[x.type].val = "webauthn.get"
<1> DEFINE cd == a.clientDataJSON
           cs == {i \in Fields("challenge", cd) : cd[i].tight}
           ts == {i \in Fields("type", cd) : cd[i].tight /\ cd[i].val = "webauthn.get"}
<1>1. cs # {} /\ ts # {} /\ x = [challenge |-> Min(cs), type |-> Min(ts)]
  BY DEF clientDataIndices
<1>2. cs \in SUBSET Nat /\ ts \in SUBSET Nat
  BY DEF Fields
<1> HIDE DEF cs, ts
<1>3. Min(cs) \in cs /\ Min(ts) \in ts
  BY <1>1, <1>2, MinOfSome
<1> QED
  BY <1>1, <1>3 DEF cs, ts

LEMMA BlobParts ==
    ASSUME NEW a \in Assertions, NEW i, NEW blob \in BuildCSWPasskeySignature(a, i)
    PROVE  \E x \in clientDataIndices(a.clientDataJSON) :
              /\ a.signature.r > 0 /\ a.signature.s > 0
              /\ blob.signatureData = EncodeWebAuthnAuth(a, x, a.signature.r, NormalizeLowS(a.signature.s))
<1>1. PICK sig \in DecodeECDSASignatureDER(a.signature), x \in clientDataIndices(a.clientDataJSON) :
          blob = EncodeSignatureWrapper(i, EncodeWebAuthnAuth(a, x, sig.r, NormalizeLowS(sig.s)))
  <2>1. blob \in {EncodeSignatureWrapper(i, EncodeWebAuthnAuth(a, y, z.r, NormalizeLowS(z.s))) :
                     z \in DecodeECDSASignatureDER(a.signature), y \in clientDataIndices(a.clientDataJSON)}
    BY DEF BuildCSWPasskeySignature
  <2> QED
    BY <2>1
<1>2. a.signature.r > 0 /\ a.signature.s > 0 /\ sig = [r |-> a.signature.r, s |-> a.signature.s]
  BY <1>1 DEF DecodeECDSASignatureDER
<1>3. sig.r = a.signature.r /\ sig.s = a.signature.s
  BY <1>2
<1>4. blob.signatureData = EncodeWebAuthnAuth(a, x, sig.r, NormalizeLowS(sig.s))
  BY <1>1 DEF EncodeSignatureWrapper
<1> QED
  BY <1>1, <1>2, <1>3, <1>4

LEMMA BlobPredicted ==
    ASSUME NEW a \in Assertions, NEW i, NEW blob \in BuildCSWPasskeySignature(a, i), NEW c \in Challenge(a)
    PROVE  LET verified == VerifyP256(a.made, SignedDigest(a), a.signature.r, a.signature.s)
               accepted == IsValidSignature(a.made, c, blob)
           IN  /\ accepted => verified
               /\ (/\ verified
                   /\ a.authenticatorData.up
                   /\ NamedOnce("challenge", a.clientDataJSON)) => accepted
<1> DEFINE cd == a.clientDataJSON
           r == a.signature.r
           s == a.signature.s
<1>1. PICK x \in clientDataIndices(cd) :
          r > 0 /\ s > 0 /\ blob.signatureData = EncodeWebAuthnAuth(a, x, r, NormalizeLowS(s))
  BY BlobParts
<1> DEFINE w == blob.signatureData
<1>2. /\ w.authenticatorData = a.authenticatorData /\ w.clientDataJSON = cd
      /\ w.challengeIndex = x.challenge /\ w.typeIndex = x.type
      /\ w.r = Uint256(r) /\ w.s = Uint256(NormalizeLowS(s))
  BY <1>1 DEF EncodeWebAuthnAuth
<1>3. r \in 1..(WideLimit - 1) /\ s \in 1..(WideLimit - 1) /\ a.made.s \in 1..(N - 1)
  BY <1>1, AssertionAssumption, CurveAssumption
<1>4. w.r = r
  BY <1>2, <1>3, Uint256Small
<1>5. /\ cd[w.typeIndex].name = "type" /\ cd[w.typeIndex].tight /\ cd[w.typeIndex].val = "webauthn.get"
      /\ cd[w.challengeIndex].name = "challenge" /\ cd[w.challengeIndex].tight
  BY <1>1, <1>2, IndicesFound DEF Fields
<1>6. NamedOnce("challenge", cd) => cd[w.challengeIndex].base64url /\ cd[w.challengeIndex].val = c
  <2> SUFFICES ASSUME NamedOnce("challenge", cd)
               PROVE  cd[x.challenge].base64url /\ cd[x.challenge].val = c
    BY <1>2
  <2>1. x.challenge \in Fields("challenge", cd)
    BY <1>1, IndicesFound
  <2>2. Max(Fields("challenge", cd)) = x.challenge
    <3>1. Fields("challenge", cd) = {x.challenge} /\ x.challenge \in Int
      BY <2>1 DEF NamedOnce, Fields
    <3> QED
      BY <3>1 DEF Max
  <2> QED
    BY <2>2 DEF Challenge
<1>7. s \in 1..(N - 1) /\ s \in {a.made.s, N - a.made.s}
        <=> IsLowS(w.s) /\ w.s \in 1..(N - 1) /\ w.s \in {a.made.s, N - a.made.s}
  BY <1>2, <1>3, PackedVerifies
<1> HIDE DEF cd, r, s, w
<1>8. VerifyP256(a.made, SignedDigest(a), r, s)
        <=> IsLowS(w.s) /\ VerifyP256(a.made, <<w.authenticatorData, w.clientDataJSON>>, w.r, w.s)
  BY <1>2, <1>4, <1>7, Zenon DEF VerifyP256, SignedDigest, cd
<1>9. IsValidSignature(a.made, c, blob)
        <=> /\ IsLowS(w.s) /\ VerifyP256(a.made, <<w.authenticatorData, w.clientDataJSON>>, w.r, w.s)
            /\ cd[w.challengeIndex].base64url /\ cd[w.challengeIndex].val = c
            /\ a.authenticatorData.up
  BY <1>2, <1>5, Zenon DEF IsValidSignature, w
<1> QED
  BY <1>6, <1>8, <1>9, Zenon DEF r, s, cd

-----------------------------------------------------------------------------
LEMMA OwnerKinds == ASSUME NEW o, NEW r \in OwnerOutcome(o) PROVE r.kind # "erc1271"
  BY DEF OwnerOutcome, Refuse

LEMMA AccountKeeps ==
    ASSUME NEW method, NEW h, NEW specs, NEW nonce, cswAccountHandler(method, h, specs, nonce)
    PROVE  reply'.kind # "erc1271"
<1>1. \A owners : \A r \in AccountReplies(owners, nonce) : r.kind # "erc1271"
  BY DEF AccountReplies
<1>2. \A code : Refuse(code).kind # "erc1271"
  BY DEF Refuse
<1> DEFINE failing == {i \in 1..Len(specs) : \E o \in OwnerOutcome(specs[i]) : o.kind # "bytes"}
           owners == [i \in 1..Len(specs) |-> (CHOOSE o \in OwnerOutcome(specs[i]) : TRUE).bytes]
           first == OwnerOutcome(specs[Min(failing)])
           good == AccountReplies(owners, nonce)
           replies == IF specs = BadBody THEN {Refuse(400)}
                      ELSE IF specs = <<>> THEN {Refuse(400)}
                      ELSE IF failing # {} THEN first ELSE good
<1>3. reply' \in Gated(AuthToken, method, h, replies)
  BY DEF cswAccountHandler, Serve
<1>4. /\ \A r \in first : r.kind # "erc1271"
      /\ \A r \in good : r.kind # "erc1271"
  BY <1>1, OwnerKinds
<1> HIDE DEF failing, owners, first, good
<1>5. \A r \in replies : r.kind # "erc1271"
  BY <1>2, <1>4
<1> HIDE DEF replies
<1> QED
  BY <1>2, <1>3, <1>5 DEF Gated

LEMMA Erc1271Keeps ==
    ASSUME NEW method, NEW h, NEW a \in Assertions \cup {BadBody}, NEW i \in OwnerIndices,
           cswErc1271Handler(method, h, a, i)
    PROVE  BlobOfRequest'
<1> SUFFICES ASSUME reply'.kind = "erc1271" PROVE BlobOfRequest'
  BY DEF BlobOfRequest
<1> DEFINE blobs == IF a = BadBody THEN {} ELSE IF a.hex THEN BuildCSWPasskeySignature(a, i) ELSE {}
           good == {[code |-> 200, kind |-> "erc1271", blob |-> b, challenge |-> Challenge(a)] : b \in blobs}
<1>1. \A code : Refuse(code).kind # "erc1271"
  BY DEF Refuse
<1>2. reply' \in good
  BY <1>1, Zenon DEF cswErc1271Handler, Serve, Gated
<1>3. PICK b \in blobs : reply' = [code |-> 200, kind |-> "erc1271", blob |-> b, challenge |-> Challenge(a)]
  BY <1>2
<1>4. reply'.blob = b /\ reply'.challenge = Challenge(a)
  BY <1>3
<1>5. a \in Assertions /\ b \in BuildCSWPasskeySignature(a, i)
  BY <1>3
<1>6. request' = a
  BY DEF cswErc1271Handler, Serve
<1> QED
  BY <1>4, <1>5, <1>6 DEF BlobOfRequest

LEMMA Inductive == BlobOfRequest /\ [Next]_vars => BlobOfRequest'
<1> SUFFICES ASSUME BlobOfRequest, [Next]_vars PROVE BlobOfRequest'
  OBVIOUS
<1>1. CASE UNCHANGED vars
  BY <1>1 DEF BlobOfRequest, vars
<1>2. CASE Next
  BY <1>2, AccountKeeps, Erc1271Keeps DEF Next, BlobOfRequest
<1> QED
  BY <1>1, <1>2

\* The off-chain check predicts the chain for every order and word size and every
\* assertion: what the chain accepts VerifyP256 accepted, and the converse for a user
\* who was present and client data with one challenge (erc1271.go,
\* BuildCSWPasskeySignature).
THEOREM ChainPredicted == Spec => []SanityCheckPredicts
<1>1. Init => BlobOfRequest
  BY DEF Init, BlobOfRequest, Refuse
<1>2. BlobOfRequest => SanityCheckPredicts
  BY BlobPredicted DEF BlobOfRequest, SanityCheckPredicts
<1> QED
  BY <1>1, <1>2, Inductive, PTL DEF Spec

-----------------------------------------------------------------------------
(* Bytes and numbers.                                                       *)

LEMMA NatInductive ==
    ASSUME NEW S \in SUBSET Nat, 0 \in S, \A n \in S : n + 1 \in S PROVE S = Nat
<1> SUFFICES ASSUME Nat \ S # {} PROVE FALSE
  OBVIOUS
<1>1. PICK x \in Nat \ S : \A y \in Nat \ S : x <= y
  BY LeastNatural
<1>2. x # 0 /\ x - 1 \in Nat /\ x - 1 \notin Nat \ S
  BY <1>1
<1>3. (x - 1) + 1 \in S
  BY <1>2
<1> QED
  BY <1>1, <1>3

\* Power is what its definition says: it can be built up from 0..n to 0..(n + 1).
LEMMA PowerExists ==
    /\ Power = [k \in 0..Width |-> IF k = 0 THEN 1 ELSE Byte * Power[k - 1]]
<1> DEFINE Rec(g, n) == g = [k \in 0..n |-> IF k = 0 THEN 1 ELSE Byte * g[k - 1]]
           G == {n \in Nat : \E g : Rec(g, n)}
<1>1. 0 \in G
  <2> DEFINE g == [k \in 0..0 |-> 1]
  <2>1. Rec(g, 0)
    OBVIOUS
  <2> QED
    BY <2>1
<1>2. ASSUME NEW n \in G PROVE n + 1 \in G
  <2>1. PICK g : Rec(g, n)
    BY <1>2
  <2> DEFINE h == [k \in 0..(n + 1) |-> IF k = n + 1 THEN Byte * g[n] ELSE g[k]]
  <2>2. ASSUME NEW k \in 0..(n + 1)
        PROVE  h[k] = IF k = 0 THEN 1 ELSE Byte * h[k - 1]
    <3>1. CASE k = n + 1
      BY <3>1
    <3>2. CASE k # n + 1
      <4>1. k \in 0..n /\ g[k] = IF k = 0 THEN 1 ELSE Byte * g[k - 1]
        BY <2>1, <3>2
      <4>2. k # 0 => k - 1 \in 0..n /\ h[k - 1] = g[k - 1]
        BY <3>2
      <4> QED
        BY <3>2, <4>1, <4>2
    <3> QED
      BY <3>1, <3>2
  <2>3. Rec(h, n + 1)
    <3>1. h = [k \in 0..(n + 1) |-> h[k]]
      OBVIOUS
    <3> HIDE DEF h
    <3> QED
      BY <2>2, <3>1
  <2>4. \E f : Rec(f, n + 1)
    BY <2>3
  <2>5. n + 1 \in Nat
    OBVIOUS
  <2> HIDE DEF h, Rec
  <2> QED
    BY <2>4, <2>5
<1>3. G = Nat
  <2>1. G \in SUBSET Nat
    OBVIOUS
  <2> HIDE DEF G
  <2> QED
    BY <1>1, <1>2, <2>1, NatInductive
<1>4. \E g : g = [k \in 0..Width |-> IF k = 0 THEN 1 ELSE Byte * g[k - 1]]
  BY <1>3, WidthAssumption
<1> QED
  BY <1>4 DEF Power

LEMMA Powers ==
    /\ Power[0] = 1
    /\ \A k \in 0..Width : Power[k] \in Nat /\ Power[k] > 0
    /\ \A k \in 0..(Width - 1) : Power[k + 1] = Byte * Power[k]
<1>1. Power[0] = 1
  BY PowerExists, WidthAssumption
<1>2. \A k \in 0..(Width - 1) : Power[k + 1] = Byte * Power[k]
  <2> TAKE k \in 0..(Width - 1)
  <2>1. k + 1 \in 0..Width /\ k + 1 # 0 /\ (k + 1) - 1 = k
    BY WidthAssumption
  <2> QED
    BY <2>1, PowerExists
<1> DEFINE G == {k \in Nat : k <= Width => Power[k] \in Nat /\ Power[k] > 0}
<1>3. G = Nat
  <2>1. 0 \in G
    BY <1>1
  <2>2. ASSUME NEW n \in G PROVE n + 1 \in G
    <3>1. CASE n + 1 > Width
      BY <3>1, WidthAssumption
    <3>2. CASE n + 1 <= Width
      <4>1. Power[n + 1] = Byte * Power[n] /\ Power[n] \in Nat /\ Power[n] > 0
        BY <1>2, <3>2, WidthAssumption
      <4>2. Byte * Power[n] \in Nat /\ Byte * Power[n] > 0
        BY <4>1, WidthAssumption
      <4> QED
        BY <4>1, <4>2
    <3> QED
      BY <3>1, <3>2, WidthAssumption
  <2>3. G \in SUBSET Nat
    OBVIOUS
  <2> HIDE DEF G
  <2> QED
    BY <2>1, <2>2, <2>3, NatInductive
<1>4. \A k \in 0..Width : Power[k] \in Nat /\ Power[k] > 0
  <2> TAKE k \in 0..Width
  <2>1. k \in G /\ k <= Width
    BY <1>3, WidthAssumption
  <2> QED
    BY <2>1
<1> QED
  BY <1>1, <1>2, <1>4

LEMMA Division ==
    ASSUME NEW n \in Nat, NEW m \in Nat, m > 0
    PROVE  /\ n \div m \in Nat /\ n % m \in 0..(m - 1)
           /\ n = (m * (n \div m)) + (n % m)
  OBVIOUS

LEMMA Quotient ==
    ASSUME NEW m \in Nat, m > 0, NEW q \in Int, NEW s \in Int, NEW r \in 0..(m - 1), NEW t \in 0..(m - 1),
           (m * q) + r = (m * s) + t
    PROVE  q = s
  OBVIOUS

\* Dividing by b * p is dividing by p, then by b.
LEMMA DivDiv ==
    ASSUME NEW n \in Nat, NEW p \in Nat, p > 0, NEW b \in Nat, b > 0
    PROVE  n \div (b * p) = (n \div p) \div b
<1> DEFINE q == n \div p
           r == n % p
           s == q \div b
           t == q % b
           m == b * p
<1>1. q \in Nat /\ r \in 0..(p - 1) /\ n = (p * q) + r
  BY Division
<1>2. s \in Nat /\ t \in 0..(b - 1) /\ q = (b * s) + t
  BY <1>1, Division
<1>3. m \in Nat /\ m > 0
  OBVIOUS
<1>4. n \div m \in Nat /\ n % m \in 0..(m - 1) /\ n = (m * (n \div m)) + (n % m)
  BY <1>3, Division
<1> HIDE DEF q, r, s, t
<1>5. (p * t) + r \in 0..(m - 1)
  <2>1. p * t <= p * (b - 1) /\ p * t >= 0
    BY <1>2
  <2>2. p * (b - 1) = m - p
    OBVIOUS
  <2>3. p * t \in Int /\ m - p \in Int
    BY <1>2
  <2> QED
    BY <1>1, <2>1, <2>2, <2>3
<1>6. n = (m * s) + ((p * t) + r)
  BY <1>1, <1>2
<1> DEFINE d == n \div m
           e == n % m
           f == (p * t) + r
<1>7. d \in Int /\ e \in 0..(m - 1) /\ (m * d) + e = (m * s) + f
  BY <1>4, <1>6
<1> HIDE DEF m, d, e, f
<1>8. d = s
  BY <1>2, <1>3, <1>5, <1>7, Quotient DEF f
<1> QED
  BY <1>8 DEF d, m, q, s

\* One more byte: what is left of n without its lowest byte, then that byte.
LEMMA NextByte ==
    ASSUME NEW n \in Nat, NEW i \in 0..(Width - 1)
    PROVE  ((n \div Power[Width - i]) * Byte) + ((n \div Power[Width - (i + 1)]) % Byte)
               = n \div Power[Width - (i + 1)]
<1> DEFINE k == Width - (i + 1)
           p == Power[k]
           q == n \div p
<1>1. k \in 0..(Width - 1) /\ k \in 0..Width /\ k + 1 = Width - i
  BY WidthAssumption
<1>2. p \in Nat /\ p > 0 /\ Power[Width - i] = Byte * p
  BY <1>1, Powers
<1> HIDE DEF p
<1>3. q \in Nat
  BY <1>2, Division
<1>4. n \div (Byte * p) = q \div Byte
  BY <1>2, DivDiv, WidthAssumption
<1> HIDE DEF q
<1>5. q = (Byte * (q \div Byte)) + (q % Byte) /\ q \div Byte \in Nat
  BY <1>3, Division, WidthAssumption
<1>6. (q \div Byte) * Byte = Byte * (q \div Byte)
  BY <1>5, WidthAssumption
<1> QED
  BY <1>2, <1>4, <1>5, <1>6 DEF q, p

-----------------------------------------------------------------------------
(* What the contract reads.                                                 *)

PickReads(g, b, s) == IF s = {} THEN 0 ELSE (g[s \ {Max(s)}] * Byte) + b[Max(s)]

\* g reads the bytes of b at the places s, from the left.
Reads(g, b) == g = [s \in SUBSET (DOMAIN b) |-> PickReads(g, b, s)]

LEMMA ValueIsFold == ASSUME NEW b PROVE Value(b) = (CHOOSE g : Reads(g, b))[DOMAIN b]
  BY DEF Value, FoldLeft, MapThenFoldSet, Reads, PickReads

LEMMA MaxIn ==
    ASSUME NEW n \in Nat, NEW s \in SUBSET (1..n), s # {}
    PROVE  Max(s) \in s
<1> DEFINE T == {n - x : x \in s}
<1>1. T \in SUBSET Nat /\ T # {}
  OBVIOUS
<1>2. PICK y \in T : \A z \in T : y <= z
  <2> HIDE DEF T
  <2> QED
    BY <1>1, LeastNatural
<1>3. PICK x \in s : y = n - x
  BY <1>2
<1>4. \A z \in s : x >= z
  <2> TAKE z \in s
  <2>1. n - x <= n - z
    BY <1>2, <1>3
  <2> QED
    BY <2>1
<1> QED
  BY <1>4 DEF Max

LEMMA Smaller ==
    ASSUME NEW s, IsFiniteSet(s), NEW x \in s
    PROVE  /\ IsFiniteSet(s \ {x}) /\ Cardinality(s) \in Nat /\ Cardinality(s \ {x}) \in Nat
           /\ Cardinality(s \ {x}) + 1 = Cardinality(s)
<1>1. Cardinality(s) \in Nat
  BY FS_CardinalityType
<1>2. IsFiniteSet(s \ {x}) /\ Cardinality(s \ {x}) = Cardinality(s) - 1
  BY FS_RemoveElement
<1>3. Cardinality(s \ {x}) \in Nat
  BY <1>2, FS_CardinalityType
<1> QED
  BY <1>1, <1>2, <1>3

LEMMA ReadsExists ==
    ASSUME NEW b, NEW w \in Nat, DOMAIN b = 1..w
    PROVE  \E g : Reads(g, b)
<1> DEFINE S == 1..w
           D(n) == {s \in SUBSET S : Cardinality(s) <= n}
           Rec(g, n) == g = [s \in D(n) |-> PickReads(g, b, s)]
           G == {n \in Nat : \E g : Rec(g, n)}
<1>a. IsFiniteSet(S)
  BY FS_Interval
<1> HIDE DEF S
<1>0. /\ Cardinality(S) \in Nat
      /\ \A s \in SUBSET S : IsFiniteSet(s) /\ Cardinality(s) \in Nat /\ Cardinality(s) <= Cardinality(S)
  BY <1>a, FS_Subset, FS_CardinalityType
<1>1. 0 \in G
  <2>1. D(0) = {{}}
    BY <1>0, FS_EmptySet
  <2> DEFINE g == [s \in {{}} |-> 0]
  <2>2. Rec(g, 0)
    BY <2>1 DEF PickReads
  <2> QED
    BY <2>2
<1>2. ASSUME NEW n \in G PROVE n + 1 \in G
  <2>1. PICK g : Rec(g, n)
    BY <1>2
  <2> DEFINE h == [s \in D(n + 1) |-> IF s \in D(n) THEN g[s] ELSE PickReads(g, b, s)]
  <2>2. ASSUME NEW s \in D(n + 1)
        PROVE  h[s] = PickReads(h, b, s)
    <3>0. h[s] = PickReads(g, b, s)
      BY <2>1
    <3>1. CASE s = {}
      BY <3>0, <3>1 DEF PickReads
    <3>2. CASE s # {}
      <4>1. Max(s) \in s
        BY <3>2, MaxIn DEF S
      <4>2. Cardinality(s \ {Max(s)}) + 1 = Cardinality(s) /\ Cardinality(s \ {Max(s)}) \in Nat
        BY <1>0, <4>1, Smaller
      <4>3. s \ {Max(s)} \in D(n) /\ s \ {Max(s)} \in D(n + 1)
        BY <4>2
      <4>4. h[s \ {Max(s)}] = g[s \ {Max(s)}]
        BY <4>3
      <4> QED
        BY <3>0, <4>4 DEF PickReads
    <3> QED
      BY <3>1, <3>2
  <2>3. Rec(h, n + 1)
    <3> HIDE DEF D
    <3>1. h = [s \in D(n + 1) |-> h[s]]
      OBVIOUS
    <3> HIDE DEF h
    <3> QED
      BY <2>2, <3>1
  <2>4. \E f : Rec(f, n + 1)
    BY <2>3
  <2>5. n + 1 \in Nat
    OBVIOUS
  <2> HIDE DEF h, Rec
  <2> QED
    BY <2>4, <2>5
<1>3. G = Nat
  <2>1. G \in SUBSET Nat
    OBVIOUS
  <2> HIDE DEF G
  <2> QED
    BY <1>1, <1>2, <2>1, NatInductive
<1>4. PICK g : Rec(g, Cardinality(S))
  BY <1>0, <1>3
<1>5. D(Cardinality(S)) = SUBSET S
  BY <1>0
<1> QED
  BY <1>4, <1>5 DEF Reads, S

\* Reading the bytes of a word gives back the magnitude they were filled with.
LEMMA WordReadBack ==
    ASSUME NEW n \in Int, Magnitude(n) < WideLimit
    PROVE  Value(FillBytes(n)) = Magnitude(n)
<1> DEFINE v == Magnitude(n)
           b == FillBytes(n)
<1>0. v \in Nat /\ v < Power[Width]
  BY AccountAssumption DEF Magnitude
<1> HIDE DEF v
<1>1. DOMAIN b = 1..Width /\ \A i \in 1..Width : b[i] = (v \div Power[Width - i]) % Byte
  BY DEF FillBytes, v
<1> HIDE DEF b
<1>2. PICK g : Reads(g, b) /\ Value(b) = g[1..Width]
  <2>1. \E g : Reads(g, b)
    BY <1>1, ReadsExists, WidthAssumption
  <2> QED
    BY <1>1, <2>1, ValueIsFold
<1>3. \A s \in SUBSET (1..Width) : g[s] = PickReads(g, b, s)
  BY <1>1, <1>2 DEF Reads
<1> DEFINE G == {i \in Nat : i <= Width => g[1..i] = v \div Power[Width - i]}
<1>4. 0 \in G
  <2>1. g[{}] = 0
    BY <1>3 DEF PickReads
  <2>2. 1..0 = {} /\ Width - 0 = Width
    BY WidthAssumption
  <2>3. v \div Power[Width] = 0
    <3>1. Power[Width] \in Nat /\ Power[Width] > 0
      BY Powers, WidthAssumption
    <3> QED
      BY <1>0, <3>1
  <2> QED
    BY <2>1, <2>2, <2>3
<1>5. ASSUME NEW i \in G PROVE i + 1 \in G
  <2> SUFFICES ASSUME i + 1 <= Width PROVE g[1..(i + 1)] = v \div Power[Width - (i + 1)]
    OBVIOUS
  <2>1. i \in 0..(Width - 1) /\ i + 1 \in 1..Width
    BY WidthAssumption
  <2>2. g[1..i] = v \div Power[Width - i]
    BY <2>1, WidthAssumption
  <2> DEFINE s == 1..(i + 1)
  <2>3. s \in SUBSET (1..Width) /\ s # {} /\ Max(s) = i + 1 /\ s \ {i + 1} = 1..i
    <3>1. s \in SUBSET (1..Width) /\ s # {} /\ s \ {i + 1} = 1..i /\ i + 1 \in s
      BY <2>1, WidthAssumption
    <3>2. \A x \in s : (\A y \in s : x >= y) <=> x = i + 1
      OBVIOUS
    <3>3. Max(s) = i + 1
      BY <3>1, <3>2 DEF Max
    <3> QED
      BY <3>1, <3>3
  <2> HIDE DEF s
  <2>4. g[s] = (g[1..i] * Byte) + b[i + 1]
    BY <1>3, <2>3 DEF PickReads
  <2>5. b[i + 1] = (v \div Power[Width - (i + 1)]) % Byte
    BY <1>1, <2>1
  <2>6. g[s] = v \div Power[Width - (i + 1)]
    BY <1>0, <2>1, <2>2, <2>4, <2>5, NextByte
  <2> QED
    BY <2>6 DEF s
<1>6. G = Nat
  <2>1. G \in SUBSET Nat
    OBVIOUS
  <2> HIDE DEF G
  <2> QED
    BY <1>4, <1>5, <2>1, NatInductive
<1>7. g[1..Width] = v \div Power[0]
  <2>1. Width \in G /\ Width - Width = 0
    BY <1>6, WidthAssumption
  <2> QED
    BY <2>1
<1>8. v \div Power[0] = v
  BY <1>0, Powers
<1> QED
  BY <1>2, <1>7, <1>8 DEF b, v

Specs == [address: 0..(WideLimit - 1) \cup {Malformed, None}, x: Texts(Nat), y: Texts(Nat)]

\* What an owner's bytes should be read as.
Asked(o) ==
    IF o.address # None THEN [address |-> o.address]
    ELSE [x |-> Magnitude(parseBigHex(o.x)), y |-> Magnitude(parseBigHex(o.y))]

LEMMA WordTyped ==
    ASSUME NEW n \in Int
    PROVE  FillBytes(n) \in Seq(Int) /\ Len(FillBytes(n)) = Width
<1>1. ASSUME NEW i \in 1..Width PROVE (Magnitude(n) \div Power[Width - i]) % Byte \in Int
  <2>1. Magnitude(n) \in Nat
    BY DEF Magnitude
  <2>2. Width - i \in 0..Width
    BY WidthAssumption
  <2>3. Power[Width - i] \in Nat /\ Power[Width - i] > 0
    BY <2>2, Powers
  <2>4. Magnitude(n) \div Power[Width - i] \in Nat
    BY <2>1, <2>3, Division
  <2> QED
    BY <2>4, Division, WidthAssumption
<1>2. FillBytes(n) \in [1..Width -> Int]
  BY <1>1 DEF FillBytes
<1> QED
  BY <1>2, WidthAssumption

LEMMA AddressReadBack ==
    ASSUME NEW a \in 0..(WideLimit - 1)
    PROVE  Owner(EOAOwnerBytes(a)) = [address |-> a]
<1>1. a \in Int /\ Magnitude(a) = a /\ Magnitude(a) < WideLimit
  BY CurveAssumption DEF Magnitude
<1> DEFINE b == EOAOwnerBytes(a)
<1>2. Len(b) = Width /\ Value(b) = a
  BY <1>1, WordTyped, WordReadBack DEF EOAOwnerBytes
<1>3. 2 * Width # Width
  BY WidthAssumption
<1> HIDE DEF b
<1>4. Owner(b) = [address |-> Value(b)]
  BY <1>2, <1>3 DEF Owner
<1> QED
  BY <1>2, <1>4 DEF b

LEMMA KeyReadBack ==
    ASSUME NEW x \in Int, NEW y \in Int, Magnitude(x) < WideLimit, Magnitude(y) < WideLimit
    PROVE  Owner(PasskeyOwnerBytes(x, y)) = [x |-> Magnitude(x), y |-> Magnitude(y)]
<1> DEFINE bx == FillBytes(x)
           by == FillBytes(y)
           b == bx \o by
<1>1. bx \in Seq(Int) /\ by \in Seq(Int) /\ Len(bx) = Width /\ Len(by) = Width
  BY WordTyped
<1>2. Value(bx) = Magnitude(x) /\ Value(by) = Magnitude(y)
  BY WordReadBack
<1> HIDE DEF bx, by
<1>3. Len(b) = 2 * Width /\ Len(b) # Width
  BY <1>1, WidthAssumption
<1>4. SubSeq(b, 1, Width) = bx
  BY <1>1, WidthAssumption
<1>5. SubSeq(b, Width + 1, 2 * Width) = by
  BY <1>1, WidthAssumption
<1>6. PasskeyOwnerBytes(x, y) = b
  BY DEF PasskeyOwnerBytes, bx, by
<1> HIDE DEF b
<1>7. Owner(b) = [x |-> Value(SubSeq(b, 1, Width)), y |-> Value(SubSeq(b, Width + 1, 2 * Width))]
  BY <1>3 DEF Owner
<1> QED
  BY <1>2, <1>4, <1>5, <1>6, <1>7

LEMMA OwnerReadBack ==
    ASSUME NEW o \in Specs, NEW r \in OwnerOutcome(o), r.kind = "bytes"
    PROVE  Owner(r.bytes) = Asked(o)
<1>1. \A code : Refuse(code).kind # "bytes"
  BY DEF Refuse
<1>2. CASE o.address # None
  <2>1. o.address # Malformed /\ r = [kind |-> "bytes", bytes |-> EOAOwnerBytes(o.address)]
    BY <1>1, <1>2 DEF OwnerOutcome
  <2>2. r.bytes = EOAOwnerBytes(o.address) /\ o.address \in 0..(WideLimit - 1)
    BY <1>2, <2>1 DEF Specs
  <2> QED
    BY <1>2, <2>2, AddressReadBack DEF Asked
<1>3. CASE o.address = None
  <2> DEFINE x == parseBigHex(o.x)
             y == parseBigHex(o.y)
  <2>0. x \in Int \cup {NotANumber} /\ y \in Int \cup {NotANumber}
    <3>1. ASSUME NEW t \in Texts(Nat) PROVE parseBigHex(t) \in Int \cup {NotANumber}
      <4> DEFINE u == TrimSpace(t)
      <4>1. u.digits \in Int => -u.digits \in Int
        OBVIOUS
      <4> HIDE DEF u
      <4>2. SetString(u) \in {NotANumber, u.digits, -u.digits} /\ (u.digits \notin Int => SetString(u) = NotANumber)
        BY DEF SetString
      <4> QED
        BY <4>1, <4>2 DEF parseBigHex, u
    <3> QED
      BY <3>1 DEF Specs
  <2> HIDE DEF x, y
  <2>1. /\ x # NotANumber /\ y # NotANumber
        /\ ~(Magnitude(x) >= WideLimit \/ Magnitude(y) >= WideLimit)
        /\ r = [kind |-> "bytes", bytes |-> PasskeyOwnerBytes(x, y)]
    <3>1. [code |-> 0, kind |-> "dropped"].kind # "bytes"
      OBVIOUS
    <3> QED
      BY <1>1, <1>3, <3>1, Zenon DEF OwnerOutcome, x, y
  <2>2. r.bytes = PasskeyOwnerBytes(x, y)
    BY <2>1
  <2>3. x \in Int /\ y \in Int /\ Magnitude(x) < WideLimit /\ Magnitude(y) < WideLimit
    BY <2>0, <2>1, CurveAssumption DEF Magnitude
  <2> QED
    BY <1>3, <2>2, <2>3, KeyReadBack DEF Asked, x, y
<1> QED
  BY <1>2, <1>3

LEMMA AccountDecodes ==
    ASSUME NEW method, NEW h, NEW specs \in OwnerLists \cup {BadBody}, NEW nonce,
           cswAccountHandler(method, h, specs, nonce)
    PROVE  OwnersDecodeBack'
<1> SUFFICES ASSUME reply'.kind = "account" PROVE OwnersDecodeBack'
  BY DEF OwnersDecodeBack
<1> DEFINE failing == {i \in 1..Len(specs) : \E o \in OwnerOutcome(specs[i]) : o.kind # "bytes"}
           owners == [i \in 1..Len(specs) |-> (CHOOSE o \in OwnerOutcome(specs[i]) : TRUE).bytes]
<1>1. \A code : Refuse(code).kind # "account"
  BY DEF Refuse
<1>2. ASSUME NEW o, NEW r \in OwnerOutcome(o) PROVE r.kind # "account"
  BY <1>2 DEF OwnerOutcome, Refuse
<1>3. specs # BadBody /\ failing = {} /\ reply' \in AccountReplies(owners, nonce)
  <2> DEFINE first == OwnerOutcome(specs[Min(failing)])
             good == AccountReplies(owners, nonce)
             replies == IF specs = BadBody THEN {Refuse(400)}
                        ELSE IF specs = <<>> THEN {Refuse(400)}
                        ELSE IF failing # {} THEN first ELSE good
  <2>1. reply' \in Gated(AuthToken, method, h, replies)
    BY DEF cswAccountHandler, Serve
  <2>2. \A r \in first : r.kind # "account"
    BY <1>2
  <2> HIDE DEF replies
  <2>3. reply' \in replies
    BY <1>1, <2>1 DEF Gated
  <2> HIDE DEF failing, first, good
  <2>4. specs # BadBody /\ failing = {} /\ reply' \in good
    BY <1>1, <2>2, <2>3 DEF replies
  <2> QED
    BY <2>4 DEF good
<1>4. request' = specs
  BY DEF cswAccountHandler, Serve
<1>5. specs \in Seq(Specs)
  BY <1>3, OwnerAssumption DEF Specs
<1>6. ASSUME NEW i \in 1..Len(specs) PROVE Owner(owners[i]) = Asked(specs[i])
  <2> DEFINE r == CHOOSE o \in OwnerOutcome(specs[i]) : TRUE
  <2>1. OwnerOutcome(specs[i]) # {}
    BY DEF OwnerOutcome
  <2>2. r \in OwnerOutcome(specs[i])
    BY <2>1
  <2>3. r.kind = "bytes"
    BY <1>3, <2>2
  <2>4. specs[i] \in Specs
    BY <1>5
  <2>5. owners[i] = r.bytes
    OBVIOUS
  <2> HIDE DEF r, owners
  <2> QED
    BY <2>2, <2>3, <2>4, <2>5, OwnerReadBack
<1>7. DOMAIN owners = 1..Len(specs) /\ Len(owners) = Len(specs)
  BY <1>5
<1> HIDE DEF owners, failing
<1>8. PICK a \in {None, [owners |-> owners, nonce |-> nonce]} :
          reply' = [code |-> 200, kind |-> "account", ownerBytes |-> owners,
                    createAccount |-> CreateAccountCalldata(owners, nonce),
                    getAddress |-> GetAddressCalldata(owners, nonce), address |-> a]
  BY <1>3 DEF AccountReplies, CounterfactualAddress, GetAddressCalldata
<1>9. /\ reply'.ownerBytes = owners /\ reply'.address = a
      /\ reply'.createAccount = CreateAccountCalldata(owners, nonce)
  BY <1>8
<1>10. reply'.createAccount.nonce = nonce
  BY <1>9 DEF CreateAccountCalldata
<1> QED
  BY <1>4, <1>6, <1>7, <1>9, <1>10 DEF OwnersDecodeBack, Asked

LEMMA DecodesStep == OwnersDecodeBack /\ [Next]_vars => OwnersDecodeBack'
<1> SUFFICES ASSUME OwnersDecodeBack, [Next]_vars PROVE OwnersDecodeBack'
  OBVIOUS
<1>1. CASE UNCHANGED vars
  BY <1>1 DEF OwnersDecodeBack, vars
<1>2. ASSUME NEW method, NEW h, NEW a, NEW i, cswErc1271Handler(method, h, a, i)
      PROVE  reply'.kind # "account"
  <2>1. \A code : Refuse(code).kind # "account"
    BY DEF Refuse
  <2> DEFINE blobs == IF a = BadBody THEN {} ELSE IF a.hex THEN BuildCSWPasskeySignature(a, i) ELSE {}
             good == {[code |-> 200, kind |-> "erc1271", blob |-> b, challenge |-> Challenge(a)] : b \in blobs}
  <2>2. reply' \in good \/ \E code : reply' = Refuse(code)
    BY <1>2, Zenon DEF cswErc1271Handler, Serve, Gated
  <2>3. \A x \in good : x.kind = "erc1271"
    OBVIOUS
  <2> HIDE DEF good
  <2> QED
    BY <2>1, <2>2, <2>3
<1>3. CASE Next
  BY <1>2, <1>3, AccountDecodes DEF Next, OwnersDecodeBack
<1> QED
  BY <1>1, <1>3

\* The contract decodes the owners of a described account to those of the request,
\* for every byte base, word width and list of owners (smartaccount.go,
\* EOAOwnerBytes and PasskeyOwnerBytes; csw.go, cswAccountHandler).
THEOREM OwnersRoundTrip == Spec => []OwnersDecodeBack
<1>1. Init => OwnersDecodeBack
  BY DEF Init, OwnersDecodeBack, Refuse
<1> QED
  BY <1>1, DecodesStep, PTL DEF Spec
=============================================================================
