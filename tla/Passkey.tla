-------------------------------- MODULE Passkey --------------------------------
(***************************************************************************)
(* Passkey assertions on their way to the chain: p256.go, webauthn.go and   *)
(* erc1271.go, with the on-chain verifier they are packed for.              *)
(*                                                                         *)
(* N is the (scaled) order of P-256 and WideLimit stands for 2^256.  A      *)
(* clientDataJSON is its fields in order; a field is "tight" when nothing   *)
(* stands between name and value.  What an authenticator made is the record *)
(* [over, r, s]: for a given digest and r, s and N - s verify and nothing   *)
(* else does.  Of authenticatorData the verifier looks at one bit, "up": the*)
(* user was present.                                                        *)
(***************************************************************************)
EXTENDS Integers, Sequences, FiniteSetsExt

CONSTANTS N, WideLimit

ASSUME CurveAssumption == N \in Nat /\ N % 2 = 1 /\ N > 1 /\ WideLimit \in Nat /\ N < WideLimit

p256NDiv2 == N \div 2

\* A plausible slip: half is rounded up.
NormalizeLowSRounded(s) == IF s > (N + 1) \div 2 THEN N - s ELSE s

NormalizeLowS(s) == IF s > p256NDiv2 THEN N - s ELSE s

IsLowS(s) == s <= p256NDiv2

\* VerifyP256 off chain: both halves are fine.
VerifyP256(made, digest, r, s) ==
    made.over = digest /\ r = made.r /\ s \in 1..(N - 1) /\ s \in {made.s, N - made.s}

\* DecodeECDSASignatureDER: well-formed, nothing after it, both positive; no
\* upper bound.
DecodeECDSASignatureDER(der) == IF der.ok /\ der.r > 0 /\ der.s > 0 THEN {[r |-> der.r, s |-> der.s]} ELSE {}

SignedDigest(a) == <<a.authenticatorData, a.clientDataJSON>>

-----------------------------------------------------------------------------
Fields(name, cd) == {i \in 1..Len(cd) : cd[i].name = name}

\* WebAuthnAssertion.Challenge, which parses the JSON: of two fields with one name
\* the last counts.
Challenge(a) ==
    LET cd == a.clientDataJSON
        cs == Fields("challenge", cd)
        ts == Fields("type", cd)
    IN  IF a.json /\ cs # {} /\ ts # {}
        THEN {cd[i].val : i \in {j \in {Max(cs)} : cd[j].base64url /\ cd[Max(ts)].val = "webauthn.get"}}
        ELSE {}

\* clientDataIndices, which looks for the bytes: the first that match.
clientDataIndices(cd) ==
    LET cs == {i \in Fields("challenge", cd) : cd[i].tight}
        ts == {i \in Fields("type", cd) : cd[i].tight /\ cd[i].val = "webauthn.get"}
    IN  IF cs = {} \/ ts = {} THEN {} ELSE {[challenge |-> Min(cs), type |-> Min(ts)]}

\* The ABI encoder takes a big.Int modulo 2^256.
Uint256(n) == n % WideLimit

EncodeWebAuthnAuth(a, indices, r, s) ==
    [authenticatorData |-> a.authenticatorData, clientDataJSON |-> a.clientDataJSON,
     challengeIndex |-> indices.challenge, typeIndex |-> indices.type, r |-> Uint256(r), s |-> Uint256(s)]

EncodeSignatureWrapper(ownerIndex, auth) == [ownerIndex |-> ownerIndex, signatureData |-> auth]

BuildCSWPasskeySignature(a, ownerIndex) ==
    {EncodeSignatureWrapper(ownerIndex, EncodeWebAuthnAuth(a, indices, sig.r, NormalizeLowS(sig.s))) :
        sig \in DecodeECDSASignatureDER(a.signature), indices \in clientDataIndices(a.clientDataJSON)}

-----------------------------------------------------------------------------
\* webauthn-sol behind isValidSignature: no high s, the type and the expected
\* challenge at the given places, a user who was present, and P256VERIFY.
IsValidSignature(made, challenge, blob) ==
    LET w == blob.signatureData
        t == w.clientDataJSON[w.typeIndex]
        c == w.clientDataJSON[w.challengeIndex]
    IN  /\ IsLowS(w.s)
        /\ t.name = "type" /\ t.tight /\ t.val = "webauthn.get"
        /\ c.name = "challenge" /\ c.tight /\ c.base64url /\ c.val = challenge
        /\ w.authenticatorData.up
        /\ VerifyP256(made, <<w.authenticatorData, w.clientDataJSON>>, w.r, w.s)
=============================================================================
