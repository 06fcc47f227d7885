---------------------------- MODULE WalletService ----------------------------
(***************************************************************************)
(* cmd/wallet-svc: boot from the environment, the endpoints that derive     *)
(* addresses and sign, and restarts.  The environment variables (env), and  *)
(* what the enclave has sealed, are the operator's and do not change; the   *)
(* process's variables (svc) are lost in a crash and made again by main.    *)
(* A handler reads them only, so it is one step.                            *)
(***************************************************************************)
EXTENDS SeedSource, TypedData, HttpGate

CONSTANTS
    Environments,
    Callers,          \* Authorization headers
    Addresses,        \* the strings that look like addresses
    Keccak,           \* by subject: the first 32 bits of its hash
    Selectors, Transfers, Messages, Transactions,   \* what requests ask for
    RandomNonce,
    DefaultChainID, DefaultTimeout, Backdate,       \* 84532, 300, 10
    MaxTime, MaxRequests,
    BadBody, Down, NoCap, None

ASSUME ServiceAssumption ==
    /\ \A e \in Environments :
          /\ {e.sealed, e.masterSeed} \subseteq HexTexts({e.sealed.seed, e.masterSeed.seed})
          /\ {e.chainID, e.timeoutSeconds, e.maxValue} \subseteq Texts(Int)
    /\ \A h \in Callers : h \in Headers({h.val})
    /\ \A s \in Selectors : s.owner \in Uint32 /\ s.agent \in Uint32
    /\ NoCap \notin Int

VARIABLES
    env,
    svc,      \* Down or the variables main sets
    now,
    asked,    \* requests so far
    caller, reply,   \* the last one
    book      \* the selectors served and the keys they got, over all restarts (history)

vars == <<env, svc, now, asked, caller, reply, book>>

Var(v) == [pad |-> FALSE, val |-> v]

-----------------------------------------------------------------------------
\* strconv.ParseInt with its error ignored: 0, or the nearest end of the range.
ParseInt(t) ==
    LET v == SetString(t)
    IN  IF v = NotANumber THEN 0
        ELSE IF v >= Word \div 2 THEN Word \div 2 - 1
        ELSE IF v < -(Word \div 2) THEN -(Word \div 2) ELSE v

EnvDecimal(t, default) == LET s == TrimSpace(t) IN IF s = EmptyText THEN Plain(default) ELSE s

\* Only a number is a cap.
MaxValue ==
    LET s == TrimSpace(env.maxValue)
    IN  IF s = EmptyText \/ SetString(s) = NotANumber THEN NoCap ELSE SetString(s)

\* A plausible slip: a failing enclave falls back to the variable.
loadMasterSeedEither(response) ==
    LET sealed == TEEMasterSeed(envOr(env.teeBaseURL, ""), envOr(env.teeToken, ""), response)
    IN  IF sealed # {} THEN sealed ELSE EnvMasterSeed(env.masterSeed)

loadMasterSeed(response) ==
    IF envOr(env.teeBaseURL, "") # ""
    THEN TEEMasterSeed(envOr(env.teeBaseURL, ""), envOr(env.teeToken, ""), response)
    ELSE EnvMasterSeed(env.masterSeed)

\* A plausible slip: any value of a gate opens it.
EnabledLoosely(v) == v.val # ""

Enabled(v) == v = Var("1")

\* What the enclave answers: what is sealed, or something that is no seed.
Responses == [ok: BOOLEAN, seedHex: {env.sealed}]

\* The variables main sets from the environment.
Config(seed) ==
    [seed |-> seed, authToken |-> envOr(env.authToken, ""),
     allowGenericSign |-> Enabled(env.allowGenericSign), allowSignTx |-> Enabled(env.allowSignTx),
     gccToken |-> envOr(env.gccToken, ""), payTo |-> envOr(env.payTo, ""),
     chainID |-> ParseInt(EnvDecimal(env.chainID, DefaultChainID)),
     timeoutSecs |-> ParseInt(EnvDecimal(env.timeoutSeconds, DefaultTimeout)),
     maxValue |-> MaxValue]

\* main: without a seed the process ends; everything else starts it.
main(response) ==
    /\ svc = Down
    /\ \E seed \in loadMasterSeed(response) : svc' = Config(seed)
    /\ UNCHANGED <<env, now, asked, caller, reply, book>>

Crash ==
    /\ svc # Down
    /\ svc' = Down
    /\ UNCHANGED <<env, now, asked, caller, reply, book>>

-----------------------------------------------------------------------------
accountFor(subject) == Keccak[subject] % Hardened

\* keySelector.deriveKey: path, then subject, then owner and agent.
deriveKey(sel) ==
    IF sel.path # <<>> THEN DerivePath(svc.seed, sel.path)
    ELSE IF sel.subject # "" THEN Derive(svc.seed, DefaultCoinType, accountFor(sel.subject))
    ELSE IF sel.owner >= 1 THEN DeriveAgent(svc.seed, DefaultCoinType, sel.owner, sel.agent)
    ELSE {}

\* One request, from the method check to writeJSON; the key is overwritten after.
Serve(method, h, replies) ==
    /\ svc # Down /\ asked < MaxRequests
    /\ reply' \in Gated(svc.authToken, method, h, replies)
    /\ caller' = h
    /\ asked' = asked + 1
    /\ book' = IF reply'.code = 200 THEN book \cup {[sel |-> reply'.sel, key |-> reply'.key]} ELSE book
    /\ UNCHANGED <<env, svc, now>>

OrRefuse(replies) == IF replies = {} THEN {Refuse(400)} ELSE replies

AddressReplies(sel, keys) ==
    OrRefuse({[code |-> 200, kind |-> "address", sel |-> sel, key |-> k] : k \in keys})

addressHandler(method, h, sel) ==
    Serve(method, h, IF sel = BadBody THEN {Refuse(400)} ELSE AddressReplies(sel, deriveKey(sel)))

Structured(owner, agent) == [path |-> <<>>, subject |-> "", owner |-> owner, agent |-> agent]

\* Owner 0 is served here.
agentAddressHandler(method, h, sel) ==
    Serve(method, h,
        IF sel = BadBody THEN {Refuse(400)}
        ELSE AddressReplies(Structured(sel.owner, sel.agent),
                            DeriveAgent(svc.seed, DefaultCoinType, sel.owner, sel.agent)))

Explicit(path) == [path |-> path, subject |-> "", owner |-> 0, agent |-> 0]

pathAddressHandler(method, h, sel) ==
    Serve(method, h,
        IF sel = BadBody \/ sel.path = <<>> THEN {Refuse(400)}
        ELSE AddressReplies(Explicit(sel.path), DerivePath(svc.seed, sel.path)))

-----------------------------------------------------------------------------
CapExceeded(value) == svc.maxValue # NoCap /\ value > svc.maxValue

Int64Sum(a, b) == ToInt64((a + b) % Word)

\* The EIP-3009 parameters: recipient, token and chain are the service's.
TransferParams(req, value, k) ==
    [token |-> svc.gccToken, from |-> k, to |-> svc.payTo, value |-> Plain(value),
     validAfter |-> IF req.validAfter = 0 THEN Int64Sum(now, -Backdate) ELSE req.validAfter,
     validBefore |-> IF req.validBefore = 0 THEN Int64Sum(now, svc.timeoutSecs) ELSE req.validBefore,
     nonce |-> IF req.nonce.val = "" THEN RandomNonce ELSE req.nonce.val,
     bytes32 |-> req.nonce.val = "" \/ req.nonce.bytes32,
     chainID |-> svc.chainID, addrs |-> {svc.gccToken, svc.payTo} \subseteq Addresses]

\* A plausible slip: the wire carries the window of the request.
AuthorizationAsAsked(req, p) ==
    [from |-> p.from, to |-> p.to, value |-> p.value, validAfter |-> req.validAfter,
     validBefore |-> req.validBefore, nonce |-> p.nonce, network |-> p.chainID, asset |-> p.token]

\* The x402 payload and requirements: what is on the wire beside the signature.
Authorization(req, p) ==
    [from |-> p.from, to |-> p.to, value |-> p.value, validAfter |-> p.validAfter,
     validBefore |-> p.validBefore, nonce |-> p.nonce, network |-> p.chainID, asset |-> p.token]

TransferReplies(req, value) ==
    UNION {LET p == TransferParams(req, value, k)
           IN  {[code |-> 200, kind |-> "eip3009", sel |-> req.sel, key |-> k, signature |-> s,
                 wire |-> Authorization(req, p)] :
                    s \in UNION {SignTypedData(k, td) : td \in BuildEIP3009TypedData(p, TRUE)}} :
           k \in deriveKey(req.sel)}

signEip3009Handler(method, h, req) ==
    Serve(method, h,
        IF svc.gccToken = "" \/ svc.payTo = "" \/ svc.chainID = 0 THEN {Refuse(501)}
        ELSE IF req = BadBody THEN {Refuse(400)}
        ELSE LET value == SetString(req.value)
             IN  IF value \notin Nat THEN {Refuse(400)}
                 ELSE IF CapExceeded(value) THEN {Refuse(403)}
                 ELSE OrRefuse(TransferReplies(req, value)))

signHandler(method, h, req) ==
    Serve(method, h,
        IF ~svc.allowGenericSign THEN {Refuse(403)}
        ELSE IF req = BadBody THEN {Refuse(400)}
        ELSE OrRefuse(UNION {{[code |-> 200, kind |-> "sign", sel |-> req.sel, key |-> k, signature |-> s] :
                                 s \in SignTypedData(k, req.typedData)} : k \in deriveKey(req.sel)}))

decWeiOrZero(t) == IF TrimSpace(t) = EmptyText THEN 0 ELSE decimalToBigInt(t)

\* signTxHandler: a path, or owner and agent, 0 included; the fields are signed
\* as they come.
signTxHandler(method, h, req) ==
    Serve(method, h,
        IF ~svc.allowSignTx THEN {Refuse(403)}
        ELSE IF req = BadBody THEN {Refuse(400)}
        ELSE IF req.chainID <= 0 \/ req.gas = 0 \/ req.to \notin Addresses \/ ~req.dataHex THEN {Refuse(400)}
        ELSE IF NotANumber \in {decWeiOrZero(req.value), decWeiOrZero(req.tip), decWeiOrZero(req.feeCap)}
             THEN {Refuse(400)}
        ELSE LET sel == IF req.sel.path # <<>> THEN Explicit(req.sel.path)
                        ELSE Structured(req.sel.owner, req.sel.agent)
                 keys == IF req.sel.path # <<>> THEN DerivePath(svc.seed, req.sel.path)
                         ELSE DeriveAgent(svc.seed, DefaultCoinType, req.sel.owner, req.sel.agent)
             IN  OrRefuse({[code |-> 200, kind |-> "tx", sel |-> sel, key |-> k,
                            signature |-> [over |-> [type |-> "Transaction", to |-> req.to,
                                                     value |-> decWeiOrZero(req.value)], key |-> k]] :
                           k \in keys}))

healthz ==
    /\ svc # Down
    /\ reply' = [code |-> 200, kind |-> "health", eip3009 |-> svc.gccToken # "" /\ svc.payTo # "",
                 genericSign |-> svc.allowGenericSign, signTx |-> svc.allowSignTx]
    /\ caller' = None
    /\ UNCHANGED <<env, svc, now, asked, book>>

-----------------------------------------------------------------------------
Tick ==
    /\ now < MaxTime
    /\ now' = now + 1
    /\ UNCHANGED <<env, svc, asked, caller, reply, book>>

Init ==
    /\ env \in Environments
    /\ svc = Down
    /\ now = Backdate
    /\ asked = 0
    /\ caller = None /\ reply = Refuse(0)
    /\ book = {}

Next ==
    \/ \E response \in Responses : main(response)
    \/ Crash
    \/ Tick
    \/ healthz
    \/ \E method \in {"POST", "GET"}, h \in Callers :
          \/ \E sel \in Selectors \cup {BadBody} :
                \/ addressHandler(method, h, sel)
                \/ agentAddressHandler(method, h, sel)
                \/ pathAddressHandler(method, h, sel)
          \/ \E req \in Transfers \cup {BadBody} : signEip3009Handler(method, h, req)
          \/ \E req \in Messages \cup {BadBody} : signHandler(method, h, req)
          \/ \E req \in Transactions \cup {BadBody} : signTxHandler(method, h, req)

Spec == Init /\ [][Next]_vars

-----------------------------------------------------------------------------
Granted == reply.kind \in {"address", "eip3009", "sign", "tx"}
Signs == Granted /\ reply.kind # "address"

\* An address or a signature is only given to a caller who presents the token the
\* operator configured; where none is, to nobody (main.go, authed: "fail-closed").
NothingWithoutToken ==
    Granted => env.authToken.val # "" /\ caller.scheme = "bearer" /\ caller.val = env.authToken.val

\* With the dev gates off, everything the service signs is a transfer of the
\* configured token to the configured recipient, from the key it is signed with,
\* up to the cap where it is a number ("a caller can never redirect funds or sign an
\* off-policy message", cmd/wallet-svc/README.md).
OnPolicy ==
    Signs /\ Var("1") \notin {env.allowGenericSign, env.allowSignTx} =>
        LET td == reply.signature.over
        IN  /\ td.type = "TransferWithAuthorization"
            /\ td.to = env.payTo.val /\ td.token = env.gccToken.val /\ td.chainID > 0
            /\ td.from = reply.key /\ reply.signature.key = reply.key
            /\ LET cap == SetString(TrimSpace(env.maxValue)) IN cap = NotANumber \/ td.value <= cap

\* The facilitator rebuilds the message from the wire alone and recovers the payer:
\* defaulted and wrapped times, the generated nonce and the normalised value are the
\* ones signed (main.go, "single source of truth").
WireVerifies ==
    reply.kind = "eip3009" =>
        LET w == reply.wire
            p == [from |-> w.from, to |-> w.to, value |-> w.value, validAfter |-> w.validAfter,
                  validBefore |-> w.validBefore, nonce |-> w.nonce, token |-> w.asset,
                  chainID |-> w.network, bytes32 |-> TRUE, addrs |-> TRUE]
        IN  \E td \in BuildEIP3009TypedData(p, TRUE) :
                Recovers(td, [over |-> reply.signature.over, bit |-> reply.signature.bit,
                              v |-> reply.signature.v, spelling |-> "0x"]) /\ reply.signature.key = w.from

\* A selector stands for one key for ever: restarts, and an enclave that fails at
\* one of them, never move an agent to another wallet (main.go, loadMasterSeed).
AddressesStable == \A a, b \in book : a.sel = b.sel => a.key = b.key

IsStructured(sel) == sel.path = <<>> /\ sel.subject = ""
IsLegacy(sel) == sel.path = <<>> /\ sel.subject # ""
SameAgent(a, b) == a.owner = b.owner /\ a.agent = b.agent

\* "collision-free per (owner, agent)" (derive.go): two structured selectors never
\* share a wallet, on whichever endpoints they were used, nor does a structured one
\* with a legacy subject, whatever the hashes of the subjects.
StructuredIsolation ==
    \A a, b \in book :
        IsStructured(a.sel) /\ (IsLegacy(b.sel) \/ (IsStructured(b.sel) /\ ~SameAgent(a.sel, b.sel))) =>
            a.key # b.key
=============================================================================
