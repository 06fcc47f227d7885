----------------------------- MODULE SmartAccount -----------------------------
(***************************************************************************)
(* The smart-account endpoints of cmd/wallet-svc (csw.go) over Passkey and  *)
(* the owner encodings and factory calls of smartaccount.go.  Handlers keep *)
(* nothing: the state is the configuration and the last request with its    *)
(* reply.  Bytes are digits of base Byte; a word has Width of them and an   *)
(* address one.                                                             *)
(***************************************************************************)
EXTENDS Passkey, DecimalText, HttpGate, SequencesExt

CONSTANTS
    Byte, Width,
    AuthToken, Callers,
    Assertions,     \* with "made", what the authenticator signed
    OwnerIndices,
    OwnerLists,     \* owners as given: [address, x, y]
    Nonces,
    Malformed, BadBody, None

ASSUME WidthAssumption == Byte \in Nat /\ Byte > 1 /\ Width \in Nat /\ Width > 1

\* Byte^k.
Power[k \in 0..Width] == IF k = 0 THEN 1 ELSE Byte * Power[k - 1]

ASSUME AccountAssumption == WideLimit = Power[Width]

\* An address that HexToAddress read fits a word; coordinates are texts.
ASSUME OwnerAssumption ==
    \A specs \in OwnerLists :
        specs \in Seq([address: 0..(WideLimit - 1) \cup {Malformed, None}, x: Texts(Nat), y: Texts(Nat)])

\* DER integers fit a word, and whether the user was present is a bit.
ASSUME AssertionAssumption ==
    \A a \in Assertions :
        /\ a.signature \in [ok: BOOLEAN, r: 0..(WideLimit - 1), s: 0..(WideLimit - 1)]
        /\ a.made.s \in 1..(N - 1)
        /\ a.authenticatorData.up \in BOOLEAN

VARIABLES cswRPC, request, reply

vars == <<cswRPC, request, reply>>

Serve(method, h, req, replies) ==
    /\ reply' \in Gated(AuthToken, method, h, replies)
    /\ request' = req
    /\ UNCHANGED cswRPC

-----------------------------------------------------------------------------
\* Each part non-empty hex, then the blob, and the challenge when it decodes.
cswErc1271Handler(method, h, a, ownerIndex) ==
    Serve(method, h, a,
        LET blobs == IF a = BadBody THEN {}
                     ELSE IF a.hex THEN BuildCSWPasskeySignature(a, ownerIndex) ELSE {}
        IN  IF blobs = {} THEN {Refuse(400)}
            ELSE {[code |-> 200, kind |-> "erc1271", blob |-> b, challenge |-> Challenge(a)] : b \in blobs})

-----------------------------------------------------------------------------
Magnitude(n) == IF n < 0 THEN -n ELSE n

\* big.Int.FillBytes: the magnitude in Width bytes, most significant first.
FillBytes(n) == [i \in 1..Width |-> (Magnitude(n) \div Power[Width - i]) % Byte]

EOAOwnerBytes(addr) == FillBytes(addr)

\* A plausible slip: big.Int.Bytes, which has no leading zeros.
PasskeyOwnerBytesMinimal(x, y) ==
    LET Bytes(n) == SelectSeq(FillBytes(n), LAMBDA b : Magnitude(n) >= Byte \/ b # 0)
    IN  Bytes(x) \o Bytes(y)

PasskeyOwnerBytes(x, y) == FillBytes(x) \o FillBytes(y)

parseBigHex(t) == SetString(TrimSpace(t))

\* One turn of the handler's loop: a refusal, a panic of FillBytes, or the bytes.
OwnerOutcome(o) ==
    LET x == parseBigHex(o.x)
        y == parseBigHex(o.y)
    IN  IF o.address # None
        THEN IF o.address = Malformed THEN {Refuse(400)} ELSE {[kind |-> "bytes", bytes |-> EOAOwnerBytes(o.address)]}
        ELSE IF x = NotANumber \/ y = NotANumber THEN {Refuse(400)}
        ELSE IF Magnitude(x) >= WideLimit \/ Magnitude(y) >= WideLimit THEN {[code |-> 0, kind |-> "dropped"]}
        ELSE {[kind |-> "bytes", bytes |-> PasskeyOwnerBytes(x, y)]}

\* createAccount's and getAddress's calldata carry the same arguments.
CreateAccountCalldata(owners, nonce) == [call |-> "createAccount", owners |-> owners, nonce |-> nonce]
GetAddressCalldata(owners, nonce) == [call |-> "getAddress", owners |-> owners, nonce |-> nonce]

\* CounterfactualAddress: the factory's answer to getAddress, an error, or an
\* answer that is too short.  The factory's address is named by its arguments.
CounterfactualAddress(owners, nonce) ==
    {None, [owners |-> GetAddressCalldata(owners, nonce).owners, nonce |-> nonce]}

AccountReplies(owners, nonce) ==
    {[code |-> 200, kind |-> "account", ownerBytes |-> owners,
      createAccount |-> CreateAccountCalldata(owners, nonce),
      getAddress |-> GetAddressCalldata(owners, nonce), address |-> a] :
        a \in IF cswRPC THEN CounterfactualAddress(owners, nonce) ELSE {None}}

\* The first owner that is not encoded ends the request.
cswAccountHandler(method, h, specs, nonce) ==
    Serve(method, h, specs,
        IF specs = BadBody THEN {Refuse(400)}
        ELSE IF specs = <<>> THEN {Refuse(400)}
        ELSE LET failing == {i \in 1..Len(specs) : \E o \in OwnerOutcome(specs[i]) : o.kind # "bytes"}
             IN  IF failing # {} THEN OwnerOutcome(specs[Min(failing)])
                 ELSE AccountReplies([i \in 1..Len(specs) |-> (CHOOSE o \in OwnerOutcome(specs[i]) : TRUE).bytes],
                                     nonce))

-----------------------------------------------------------------------------
\* main: the RPC is there if its URL is set and the dial succeeds.
Init ==
    /\ \E url, dialed \in BOOLEAN : cswRPC = (url /\ dialed)
    /\ request = None
    /\ reply = Refuse(0)

Next ==
    \E method \in {"POST", "GET"}, h \in Callers :
        \/ \E a \in Assertions \cup {BadBody}, i \in OwnerIndices : cswErc1271Handler(method, h, a, i)
        \/ \E specs \in OwnerLists \cup {BadBody}, n \in Nonces : cswAccountHandler(method, h, specs, n)

Spec == Init /\ [][Next]_vars

-----------------------------------------------------------------------------
NamedOnce(name, cd) == \A i, j \in Fields(name, cd) : i = j

\* The sanity check off chain tells what the chain will say: the blob made of an
\* assertion is accepted for the echoed challenge only when VerifyP256 accepts the
\* assertion, and also whenever it does, if the user was present and the client data
\* has one challenge - whichever half s was in, wherever the fields stand, however
\* many types there are, and also when s is no scalar at all (p256.go, VerifyP256;
\* erc1271.go, BuildCSWPasskeySignature).  The code looks at no flag, and of two
\* challenges it echoes the last and points the verifier to the first.
SanityCheckPredicts ==
    reply.kind = "erc1271" =>
        \A c \in reply.challenge :
            LET verified == VerifyP256(request.made, SignedDigest(request),
                                       request.signature.r, request.signature.s)
                accepted == IsValidSignature(request.made, c, reply.blob)
            IN  /\ accepted => verified
                /\ (/\ verified
                    /\ request.authenticatorData.up
                    /\ NamedOnce("challenge", request.clientDataJSON)) => accepted

\* What the account's contract reads from an owner's bytes: 32 of them are an
\* address, 64 a key.
Value(b) == FoldLeft(LAMBDA v, d : v * Byte + d, 0, b)
Owner(b) ==
    CASE Len(b) = Width -> [address |-> Value(b)]
      [] Len(b) = 2 * Width -> [x |-> Value(SubSeq(b, 1, Width)), y |-> Value(SubSeq(b, Width + 1, 2 * Width))]
      [] OTHER -> [unreadable |-> b]

\* The account that is described is the one that was asked for: the contract decodes
\* every owner to the address or key of the request, in its order, but for the minus
\* sign that SetString reads and FillBytes drops, and the address is the factory's for
\* just these owners (smartaccount.go; csw.go, cswAccountHandler).
OwnersDecodeBack ==
    reply.kind = "account" =>
        /\ Len(reply.ownerBytes) = Len(request)
        /\ \A i \in 1..Len(request) :
              Owner(reply.ownerBytes[i]) =
                  IF request[i].address # None THEN [address |-> request[i].address]
                  ELSE [x |-> Magnitude(parseBigHex(request[i].x)), y |-> Magnitude(parseBigHex(request[i].y))]
        /\ reply.address # None => reply.address = [owners |-> reply.ownerBytes, nonce |-> reply.createAccount.nonce]
=============================================================================
