------------------------- MODULE WalletServiceProofs -------------------------
(* Proofs about the wallet service for every environment, every request and  *)
(* any number of restarts.                                                   *)
EXTENDS WalletService, TLAPS

\* The seeds the operator's configuration can give: at most one.
Configured ==
    IF envOr(env.teeBaseURL, "") # "" THEN {s \in DecodeHex(env.sealed) : validateSeed(s)}
    ELSE EnvMasterSeed(env.masterSeed)

\* The keys of a selector, owner 0 included.
KeysOf(seed, sel) ==
    IF sel.path # <<>> THEN DerivePath(seed, sel.path)
    ELSE IF sel.subject # "" THEN Derive(seed, DefaultCoinType, accountFor(sel.subject))
    ELSE DeriveAgent(seed, DefaultCoinType, sel.owner, sel.agent)

\* The process runs with the configured seed, its own or an earlier one's.
SeedConfigured == svc # Down => svc.seed \in Configured

\* Every other variable of the process is the operator's too: no request moves one.
ConfigKept == svc # Down => svc = Config(svc.seed)

\* Every key in the book is the configured seed's key of its selector.
BookDerived == \A e \in book : \E s \in Configured : e.key \in KeysOf(s, e.sel)

IInv ==
    SeedConfigured /\ ConfigKept /\ BookDerived /\ NothingWithoutToken /\ OnPolicy /\ WireVerifies

-----------------------------------------------------------------------------
LEMMA OneSeed == \A s, t \in Configured : s = t
  BY DEF Configured, DecodeHex, EnvMasterSeed

LEMMA OneKey == ASSUME NEW seed, NEW sel PROVE \A j, k \in KeysOf(seed, sel) : j = k
  BY DEF KeysOf, DerivePath, Derive, DeriveAgent, deriveHardened

LEMMA HardenedPath ==
    ASSUME NEW seed, NEW indices, NEW k \in deriveHardened(seed, indices) PROVE k.path = indices
<1>1. k = [seed |-> seed, path |-> indices]
  BY DEF deriveHardened
<1> QED
  BY <1>1

LEMMA StructuredKey ==
    ASSUME NEW seed, NEW sel, IsStructured(sel), NEW k \in KeysOf(seed, sel)
    PROVE  k.path = <<bip44Purpose, DefaultCoinType, sel.owner, sel.agent>>
<1>1. k \in deriveHardened(seed, <<bip44Purpose, DefaultCoinType, sel.owner, sel.agent>>)
  BY DEF IsStructured, KeysOf, DeriveAgent
<1> QED
  BY <1>1, HardenedPath

LEMMA LegacyKey ==
    ASSUME NEW seed, NEW sel, IsLegacy(sel), NEW k \in KeysOf(seed, sel)
    PROVE  k.path = <<bip44Purpose, DefaultCoinType, accountFor(sel.subject)>>
<1>1. k \in deriveHardened(seed, <<bip44Purpose, DefaultCoinType, accountFor(sel.subject)>>)
  BY DEF IsLegacy, KeysOf, Derive
<1> QED
  BY <1>1, HardenedPath

\* A transfer within the policy the process runs with.
Allowed(r) ==
    LET td == r.signature.over
    IN  /\ td.type = "TransferWithAuthorization"
        /\ td.to = svc.payTo /\ td.token = svc.gccToken /\ td.chainID = svc.chainID
        /\ td.chainID >= 0 /\ svc.chainID # 0
        /\ td.from = r.key /\ r.signature.key = r.key
        /\ td.value \in Nat /\ ~CapExceeded(td.value)

\* The message the facilitator rebuilds from the wire.
Rebuilt(w) ==
    BuildEIP3009TypedData(
        [from |-> w.from, to |-> w.to, value |-> w.value, validAfter |-> w.validAfter,
         validBefore |-> w.validBefore, nonce |-> w.nonce, token |-> w.asset,
         chainID |-> w.network, bytes32 |-> TRUE, addrs |-> TRUE], TRUE)

Verifiable(r) ==
    \E td \in Rebuilt(r.wire) :
        /\ Recovers(td, [over |-> r.signature.over, bit |-> r.signature.bit,
                         v |-> r.signature.v, spelling |-> "0x"])
        /\ r.signature.key = r.wire.from

\* What a handler may answer: a refusal, or the selected key; a signature only as
\* far as its gate and the policy go.
Honest(r) == \/ r.kind = "refused" /\ r.code # 200
             \/ /\ r.code = 200 /\ r.kind \in {"address", "eip3009", "sign", "tx"}
                /\ r.key \in KeysOf(svc.seed, r.sel)
                /\ r.kind = "eip3009" => Allowed(r) /\ Verifiable(r)
                /\ r.kind = "sign" => svc.allowGenericSign
                /\ r.kind = "tx" => svc.allowSignTx

LEMMA RefusalHonest == ASSUME NEW code, code # 200 PROVE Honest(Refuse(code))
  BY DEF Honest, Refuse

LEMMA OrRefuseHonest ==
    ASSUME NEW replies, \A r \in replies : Honest(r)
    PROVE  \A r \in OrRefuse(replies) : Honest(r)
  BY RefusalHonest DEF OrRefuse

LEMMA deriveKeyGives == ASSUME NEW sel PROVE deriveKey(sel) \subseteq KeysOf(svc.seed, sel)
  BY DEF deriveKey, KeysOf

LEMMA AddressHonest ==
    ASSUME NEW sel, NEW keys, keys \subseteq KeysOf(svc.seed, sel)
    PROVE  \A r \in AddressReplies(sel, keys) : Honest(r)
<1>1. \A r \in {[code |-> 200, kind |-> "address", sel |-> sel, key |-> k] : k \in keys} : Honest(r)
  BY DEF Honest
<1> QED
  BY <1>1, OrRefuseHonest DEF AddressReplies

LEMMA SetStringType == ASSUME NEW t PROVE SetString(t) = NotANumber \/ SetString(t) \in Int
  BY DEF SetString

LEMMA PlainAmount == ASSUME NEW value \in Nat PROVE decimalToBigInt(Plain(value)) = value
<1> DEFINE t == TrimSpace(Plain(value))
<1>1. t.digits = value
  BY DEF TrimSpace, Plain
<1>2. ~t.pad /\ t.sign # "-"
  BY DEF TrimSpace, Plain
<1> HIDE DEF t
<1>3. t.digits \in Int
  BY <1>1
<1>4. SetString(t) = t.digits
  BY <1>2, <1>3, Zenon DEF SetString
<1> QED
  BY <1>1, <1>4 DEF decimalToBigInt, t

\* The variables main sets are the operator's, as a reader of the environment sees them.
LEMMA Operators ==
    ASSUME ConfigKept, svc # Down
    PROVE  /\ svc.authToken = env.authToken.val
           /\ svc.payTo = env.payTo.val /\ svc.gccToken = env.gccToken.val
           /\ svc.allowGenericSign <=> env.allowGenericSign = Var("1")
           /\ svc.allowSignTx <=> env.allowSignTx = Var("1")
           /\ svc.chainID \in Int /\ svc.maxValue = MaxValue
<1>1. svc = Config(svc.seed)
  BY DEF ConfigKept
<1>2. \A t : ParseInt(t) \in Int
  BY SetStringType, WidthAssumption DEF ParseInt
<1> DEFINE c == Config(svc.seed)
<1>3. /\ c.authToken = envOr(env.authToken, "") /\ c.gccToken = envOr(env.gccToken, "")
      /\ c.payTo = envOr(env.payTo, "") /\ c.maxValue = MaxValue
      /\ c.chainID = ParseInt(EnvDecimal(env.chainID, DefaultChainID))
  BY DEF Config
<1>4. /\ c.allowGenericSign <=> Enabled(env.allowGenericSign)
      /\ c.allowSignTx <=> Enabled(env.allowSignTx)
  BY DEF Config
<1>5. svc = c
  BY <1>1
<1> HIDE DEF c
<1> QED
  BY <1>5, <1>2, <1>3, <1>4 DEF envOr, Enabled

\* A value that the cap lets through is within the number the operator wrote.
LEMMA WithinCap ==
    ASSUME ConfigKept, svc # Down, NEW value \in Nat, ~CapExceeded(value)
    PROVE  LET cap == SetString(TrimSpace(env.maxValue)) IN cap = NotANumber \/ value <= cap
<1> DEFINE cap == SetString(TrimSpace(env.maxValue))
<1>1. SetString(EmptyText) = NotANumber
  BY TextAssumption DEF SetString, EmptyText, Plain
<1>2. cap = NotANumber \/ cap \in Int
  BY SetStringType
<1>3. cap = NotANumber \/ svc.maxValue = cap
  BY <1>1, Operators DEF MaxValue
<1> QED
  BY <1>2, <1>3, ServiceAssumption DEF CapExceeded

\* What a request does, given that its handler answers honestly.
LEMMA ServeKeeps ==
    ASSUME IInv, NEW method, NEW h, NEW replies, \A r \in replies : Honest(r), Serve(method, h, replies)
    PROVE  IInv'
<1>1. UNCHANGED <<env, svc>> /\ Configured' = Configured /\ svc # Down
  BY DEF Serve, Configured, EnvMasterSeed, DecodeHex, Blank, validateSeed
<1> ConfigKept
  BY DEF IInv
<1>2. Honest(reply') /\ (reply'.kind # "refused" => authed(svc.authToken, h))
  BY RefusalHonest DEF Serve, Gated, Refuse
<1>3. BookDerived'
  <2>1. reply'.code = 200 => reply'.key \in KeysOf(svc.seed, reply'.sel)
    BY <1>2 DEF Honest
  <2>2. svc.seed \in Configured
    BY <1>1 DEF IInv, SeedConfigured
  <2>3. \A e \in book' : e \in book \/ (reply'.code = 200 /\ e = [sel |-> reply'.sel, key |-> reply'.key])
    BY DEF Serve
  <2> SUFFICES ASSUME NEW e \in book' PROVE \E s \in Configured : e.key \in KeysOf(s, e.sel)
    BY <1>1 DEF BookDerived
  <2>4. CASE e \in book
    BY <2>4 DEF IInv, BookDerived
  <2>5. CASE reply'.code = 200 /\ e = [sel |-> reply'.sel, key |-> reply'.key]
    <3>1. e.sel = reply'.sel /\ e.key = reply'.key
      BY <2>5
    <3> QED
      BY <2>1, <2>2, <2>5, <3>1
  <2> QED
    BY <2>3, <2>4, <2>5
<1>4. NothingWithoutToken'
  <2>1. Granted' => authed(svc.authToken, h)
    BY <1>2 DEF Granted
  <2> QED
    BY <1>1, <2>1, Operators DEF NothingWithoutToken, authed, Serve
<1>5. OnPolicy'
  <2> SUFFICES ASSUME Signs', env.allowGenericSign # Var("1"), env.allowSignTx # Var("1")
               PROVE  LET td == reply'.signature.over
                      IN  /\ td.type = "TransferWithAuthorization"
                          /\ td.to = env.payTo.val /\ td.token = env.gccToken.val /\ td.chainID > 0
                          /\ td.from = reply'.key /\ reply'.signature.key = reply'.key
                          /\ LET cap == SetString(TrimSpace(env.maxValue)) IN cap = NotANumber \/ td.value <= cap
    BY <1>1 DEF OnPolicy, Var
  <2>1. reply'.kind = "eip3009"
    BY <1>1, <1>2, Operators DEF Honest, Signs, Granted
  <2>2. Allowed(reply')
    BY <1>2, <2>1 DEF Honest
  <2>3. reply'.signature.over.chainID > 0
    BY <1>1, <2>2, Operators DEF Allowed
  <2> QED
    BY <1>1, <2>2, <2>3, Operators, WithinCap DEF Allowed
<1>6. WireVerifies'
  BY <1>2 DEF Honest, WireVerifies, Verifiable, Rebuilt
<1>7. ConfigKept'
  BY <1>1 DEF ConfigKept, Config, MaxValue
<1> QED
  BY <1>1, <1>3, <1>4, <1>5, <1>6, <1>7 DEF IInv, SeedConfigured

-----------------------------------------------------------------------------
LEMMA AddressKeeps ==
    ASSUME IInv, NEW method, NEW h, NEW sel, addressHandler(method, h, sel) PROVE IInv'
<1>1. \A r \in AddressReplies(sel, deriveKey(sel)) : Honest(r)
  BY deriveKeyGives, AddressHonest
<1>2. \A r \in (IF sel = BadBody THEN {Refuse(400)} ELSE AddressReplies(sel, deriveKey(sel))) : Honest(r)
  BY <1>1, RefusalHonest
<1> QED
  BY <1>2, ServeKeeps DEF addressHandler

LEMMA StructuredSelects ==
    ASSUME NEW owner, NEW agent
    PROVE  DeriveAgent(svc.seed, DefaultCoinType, owner, agent) \subseteq KeysOf(svc.seed, Structured(owner, agent))
  BY DEF KeysOf, Structured

LEMMA ExplicitSelects ==
    ASSUME NEW path, path # <<>> PROVE DerivePath(svc.seed, path) \subseteq KeysOf(svc.seed, Explicit(path))
  BY DEF KeysOf, Explicit

LEMMA AgentAddressKeeps ==
    ASSUME IInv, NEW method, NEW h, NEW sel, agentAddressHandler(method, h, sel) PROVE IInv'
<1> DEFINE good == AddressReplies(Structured(sel.owner, sel.agent),
                                  DeriveAgent(svc.seed, DefaultCoinType, sel.owner, sel.agent))
           replies == IF sel = BadBody THEN {Refuse(400)} ELSE good
<1>1. \A r \in good : Honest(r)
  BY StructuredSelects, AddressHonest
<1>2. \A r \in replies : Honest(r)
  BY <1>1, RefusalHonest
<1>3. Serve(method, h, replies)
  BY DEF agentAddressHandler
<1> QED
  BY <1>2, <1>3, ServeKeeps

LEMMA PathAddressKeeps ==
    ASSUME IInv, NEW method, NEW h, NEW sel, pathAddressHandler(method, h, sel) PROVE IInv'
<1> DEFINE good == AddressReplies(Explicit(sel.path), DerivePath(svc.seed, sel.path))
           replies == IF sel = BadBody \/ sel.path = <<>> THEN {Refuse(400)} ELSE good
<1>1. sel.path # <<>> => \A r \in good : Honest(r)
  BY ExplicitSelects, AddressHonest
<1>2. \A r \in replies : Honest(r)
  BY <1>1, RefusalHonest
<1>3. Serve(method, h, replies)
  BY DEF pathAddressHandler
<1> QED
  BY <1>2, <1>3, ServeKeeps

\* Every transfer reply is a signature over the message of its own wire.
LEMMA TransferHonest ==
    ASSUME NEW req, NEW value \in Nat, svc.chainID # 0, ~CapExceeded(value)
    PROVE  \A r \in TransferReplies(req, value) : Honest(r)
<1> SUFFICES ASSUME NEW r \in TransferReplies(req, value) PROVE Honest(r)
  OBVIOUS
<1>1. PICK k \in deriveKey(req.sel) :
          r \in {[code |-> 200, kind |-> "eip3009", sel |-> req.sel, key |-> k, signature |-> s,
                  wire |-> Authorization(req, TransferParams(req, value, k))] :
                     s \in UNION {SignTypedData(k, td) :
                                     td \in BuildEIP3009TypedData(TransferParams(req, value, k), TRUE)}}
  BY Zenon DEF TransferReplies
<1> DEFINE p == TransferParams(req, value, k)
<1>2. PICK s \in UNION {SignTypedData(k, td) : td \in BuildEIP3009TypedData(p, TRUE)} :
          r = [code |-> 200, kind |-> "eip3009", sel |-> req.sel, key |-> k, signature |-> s,
               wire |-> Authorization(req, p)]
  BY <1>1, Zenon
<1>3. /\ r.code = 200 /\ r.kind = "eip3009" /\ r.key = k /\ r.sel = req.sel
      /\ r.signature = s /\ r.wire = Authorization(req, p)
  BY <1>2
<1>4. PICK td \in BuildEIP3009TypedData(p, TRUE) : s \in SignTypedData(k, td)
  BY <1>2, Zenon
<1>5. PICK bit \in {0, 1} : Hashable(td) /\ s = [over |-> td, key |-> k, bit |-> bit, v |-> 27 + bit]
  BY <1>4 DEF SignTypedData
<1>6. s.over = td /\ s.key = k /\ s.bit = bit /\ s.v = 27 + bit
  BY <1>5
<1>7. /\ p.token = svc.gccToken /\ p.from = k /\ p.to = svc.payTo /\ p.value = Plain(value)
      /\ p.chainID = svc.chainID
  BY DEF TransferParams
<1>8. td = [type |-> "TransferWithAuthorization", token |-> p.token, from |-> p.from, to |-> p.to,
            value |-> value, validAfter |-> p.validAfter, validBefore |-> p.validBefore,
            nonce |-> p.nonce, chainID |-> p.chainID]
  BY <1>4, <1>7, PlainAmount DEF BuildEIP3009TypedData
<1>9. Allowed(r)
  <2>1. /\ td.type = "TransferWithAuthorization" /\ td.token = svc.gccToken /\ td.from = k
        /\ td.to = svc.payTo /\ td.value = value /\ td.chainID = svc.chainID
    BY <1>7, <1>8
  <2>2. td.chainID >= 0
    BY <1>5, <2>1 DEF Hashable
  <2> QED
    BY <1>3, <1>6, <2>1, <2>2 DEF Allowed
<1>10. Verifiable(r)
  <2>1. /\ r.wire.from = k /\ r.wire.to = p.to /\ r.wire.value = Plain(value)
        /\ r.wire.validAfter = p.validAfter /\ r.wire.validBefore = p.validBefore
        /\ r.wire.nonce = p.nonce /\ r.wire.network = p.chainID /\ r.wire.asset = p.token
    BY <1>3, <1>7 DEF Authorization
  <2>2. td \in Rebuilt(r.wire)
    BY <1>7, <1>8, <2>1, PlainAmount, TextAssumption DEF Rebuilt, BuildEIP3009TypedData
  <2>3. Recovers(td, [over |-> s.over, bit |-> s.bit, v |-> s.v, spelling |-> "0x"])
    BY <1>5, <1>6 DEF Recovers, decodeSig65
  <2> QED
    BY <1>3, <1>6, <2>1, <2>2, <2>3 DEF Verifiable
<1> QED
  BY <1>1, <1>3, <1>9, <1>10, deriveKeyGives DEF Honest

LEMMA Eip3009Keeps ==
    ASSUME IInv, NEW method, NEW h, NEW req, signEip3009Handler(method, h, req) PROVE IInv'
<1> DEFINE value == SetString(req.value)
           good == OrRefuse(TransferReplies(req, value))
           off == svc.gccToken = "" \/ svc.payTo = "" \/ svc.chainID = 0
           bad == value \notin Nat
           over == CapExceeded(value)
           replies == IF off THEN {Refuse(501)}
                      ELSE IF req = BadBody THEN {Refuse(400)}
                      ELSE IF bad THEN {Refuse(400)} ELSE IF over THEN {Refuse(403)} ELSE good
<1>1. ~off /\ ~bad /\ ~over => \A r \in good : Honest(r)
  BY TransferHonest, OrRefuseHonest
<1> HIDE DEF good, value, off, bad, over
<1>2. \A r \in replies : Honest(r)
  BY <1>1, RefusalHonest
<1>3. Serve(method, h, replies)
  BY Zenon DEF signEip3009Handler, good, value, off, bad, over
<1> QED
  BY <1>2, <1>3, ServeKeeps

LEMMA SignKeeps ==
    ASSUME IInv, NEW method, NEW h, NEW req, signHandler(method, h, req) PROVE IInv'
<1> DEFINE made(k) == {[code |-> 200, kind |-> "sign", sel |-> req.sel, key |-> k, signature |-> s] :
                          s \in SignTypedData(k, req.typedData)}
           all == UNION {made(k) : k \in deriveKey(req.sel)}
           good == OrRefuse(all)
           replies == IF ~svc.allowGenericSign THEN {Refuse(403)}
                      ELSE IF req = BadBody THEN {Refuse(400)} ELSE good
<1>1. svc.allowGenericSign => \A r \in all : Honest(r)
  <2> SUFFICES ASSUME svc.allowGenericSign, NEW r \in all PROVE Honest(r)
    OBVIOUS
  <2>1. PICK k \in deriveKey(req.sel) : r \in made(k)
    OBVIOUS
  <2>2. r.code = 200 /\ r.kind = "sign" /\ r.key = k /\ r.sel = req.sel
    BY <2>1
  <2> QED
    BY <2>1, <2>2, deriveKeyGives DEF Honest
<1> HIDE DEF all
<1>2. svc.allowGenericSign => \A r \in good : Honest(r)
  BY <1>1, OrRefuseHonest
<1> HIDE DEF good
<1>3. \A r \in replies : Honest(r)
  BY <1>2, RefusalHonest
<1>4. Serve(method, h, replies)
  BY Zenon DEF signHandler, good, all
<1> QED
  BY <1>3, <1>4, ServeKeeps

LEMMA TxKeeps ==
    ASSUME IInv, NEW method, NEW h, NEW req, signTxHandler(method, h, req) PROVE IInv'
<1> DEFINE sel == IF req.sel.path # <<>> THEN Explicit(req.sel.path)
                  ELSE Structured(req.sel.owner, req.sel.agent)
           keys == IF req.sel.path # <<>> THEN DerivePath(svc.seed, req.sel.path)
                   ELSE DeriveAgent(svc.seed, DefaultCoinType, req.sel.owner, req.sel.agent)
           tx(k) == [code |-> 200, kind |-> "tx", sel |-> sel, key |-> k,
                     signature |-> [over |-> [type |-> "Transaction", to |-> req.to,
                                              value |-> decWeiOrZero(req.value)], key |-> k]]
           good == OrRefuse({tx(k) : k \in keys})
           bad == req.chainID <= 0 \/ req.gas = 0 \/ req.to \notin Addresses \/ ~req.dataHex
           worse == NotANumber \in {decWeiOrZero(req.value), decWeiOrZero(req.tip), decWeiOrZero(req.feeCap)}
           replies == IF ~svc.allowSignTx THEN {Refuse(403)}
                      ELSE IF req = BadBody THEN {Refuse(400)}
                      ELSE IF bad THEN {Refuse(400)} ELSE IF worse THEN {Refuse(400)} ELSE good
<1>1. keys \subseteq KeysOf(svc.seed, sel)
  BY StructuredSelects, ExplicitSelects
<1> HIDE DEF sel, keys
<1>2. svc.allowSignTx => \A r \in {tx(k) : k \in keys} : Honest(r)
  BY <1>1 DEF Honest
<1>3. svc.allowSignTx => \A r \in good : Honest(r)
  BY <1>2, OrRefuseHonest
<1> HIDE DEF good, bad, worse
<1>4. \A r \in replies : Honest(r)
  BY <1>3, RefusalHonest
<1>5. Serve(method, h, replies)
  BY Zenon DEF signTxHandler, good, bad, worse, sel, keys
<1> QED
  BY <1>4, <1>5, ServeKeeps

-----------------------------------------------------------------------------
LEMMA InitOK == Init => IInv
  BY DEF Init, IInv, SeedConfigured, ConfigKept, BookDerived, NothingWithoutToken, OnPolicy, WireVerifies,
         Signs, Granted, Refuse

LEMMA ConfiguredKept == UNCHANGED env => Configured' = Configured
  BY DEF Configured, EnvMasterSeed, DecodeHex, Blank, validateSeed

LEMMA MainKeeps ==
    ASSUME IInv, NEW response \in Responses, main(response) PROVE IInv'
<1>1. loadMasterSeed(response) \subseteq Configured
  BY DEF loadMasterSeed, Configured, TEEMasterSeed, Responses
<1>2. svc'.seed \in Configured' /\ ConfigKept'
  <2>1. PICK seed \in loadMasterSeed(response) : svc' = Config(seed)
    BY DEF main
  <2>2. Config(seed).seed = seed
    BY DEF Config
  <2>3. Config(seed)' = Config(seed)
    BY DEF main, Config, MaxValue
  <2>4. svc'.seed = seed
    BY <2>1, <2>2
  <2>5. ConfigKept'
    BY <2>1, <2>4 DEF IInv, ConfigKept, main, Config, MaxValue
  <2> QED
    BY <1>1, <2>4, <2>5, ConfiguredKept DEF main
<1> QED
  BY <1>2, ConfiguredKept
  DEF IInv, main, SeedConfigured, BookDerived, NothingWithoutToken, OnPolicy, WireVerifies, Signs, Granted

LEMMA QuietKeeps ==
    ASSUME IInv, Crash \/ Tick \/ healthz \/ UNCHANGED vars PROVE IInv'
<1>1. UNCHANGED env /\ UNCHANGED book /\ (svc' = svc \/ svc' = Down)
  BY DEF Crash, Tick, healthz, vars
<1>2. NothingWithoutToken' /\ OnPolicy' /\ WireVerifies'
  <2>1. CASE healthz
    BY <2>1 DEF healthz, NothingWithoutToken, OnPolicy, WireVerifies, Signs, Granted
  <2>2. CASE Crash \/ Tick \/ UNCHANGED vars
    BY <2>2 DEF IInv, Crash, Tick, vars, NothingWithoutToken, OnPolicy, WireVerifies, Signs, Granted
  <2> QED
    BY <2>1, <2>2
<1>3. ConfigKept'
  BY <1>1 DEF IInv, ConfigKept, Config, MaxValue
<1> QED
  BY <1>1, <1>2, <1>3, ConfiguredKept DEF IInv, SeedConfigured, BookDerived

LEMMA Inductive == IInv /\ [Next]_vars => IInv'
<1> SUFFICES ASSUME IInv, [Next]_vars PROVE IInv'
  OBVIOUS
<1>1. CASE \E response \in Responses : main(response)
  BY <1>1, MainKeeps
<1>2. CASE Crash \/ Tick \/ healthz \/ UNCHANGED vars
  BY <1>2, QuietKeeps
<1>3. CASE \E method \in {"POST", "GET"}, h \in Callers :
              \E sel \in Selectors \cup {BadBody} :
                 \/ addressHandler(method, h, sel)
                 \/ agentAddressHandler(method, h, sel)
                 \/ pathAddressHandler(method, h, sel)
  BY <1>3, AddressKeeps, AgentAddressKeeps, PathAddressKeeps
<1>4. CASE \E method \in {"POST", "GET"}, h \in Callers :
              \/ \E req \in Transfers \cup {BadBody} : signEip3009Handler(method, h, req)
              \/ \E req \in Messages \cup {BadBody} : signHandler(method, h, req)
              \/ \E req \in Transactions \cup {BadBody} : signTxHandler(method, h, req)
  BY <1>4, Eip3009Keeps, SignKeeps, TxKeeps
<1> QED
  BY <1>1, <1>2, <1>3, <1>4 DEF Next

LEMMA Invariance == Spec => []IInv
  BY InitOK, Inductive, PTL DEF Spec

-----------------------------------------------------------------------------
\* Nobody gets an address or a signature without the configured token, on any
\* endpoint (main.go, authed).
THEOREM FailsClosed == Spec => []NothingWithoutToken
<1>1. IInv => NothingWithoutToken
  BY DEF IInv
<1> QED
  BY <1>1, Invariance, PTL

\* With the dev gates off, whatever the requests: every signature is a transfer of
\* the configured token to the configured recipient, within the cap, from the key it
\* is signed with (main.go, signEip3009Handler, signHandler, signTxHandler).
THEOREM SignsOnPolicy == Spec => []OnPolicy
<1>1. IInv => OnPolicy
  BY DEF IInv
<1> QED
  BY <1>1, Invariance, PTL

\* What goes over the wire beside a transfer signature rebuilds the message that was
\* signed, for every word size, clock, window and nonce (main.go, signEip3009Handler).
THEOREM WireIsSigned == Spec => []WireVerifies
<1>1. IInv => WireVerifies
  BY DEF IInv
<1> QED
  BY <1>1, Invariance, PTL

\* A selector keeps its key over any number of restarts, whatever the enclave
\* answers at each of them (main.go, loadMasterSeed).
THEOREM KeysStable == Spec => []AddressesStable
<1>1. IInv => AddressesStable
  <2> SUFFICES ASSUME IInv, NEW a \in book, NEW b \in book, a.sel = b.sel PROVE a.key = b.key
    BY DEF AddressesStable
  <2>1. PICK s \in Configured : a.key \in KeysOf(s, a.sel)
    BY DEF IInv, BookDerived
  <2>2. PICK t \in Configured : b.key \in KeysOf(t, b.sel)
    BY DEF IInv, BookDerived
  <2>3. s = t
    BY OneSeed
  <2> QED
    BY <2>1, <2>2, <2>3, OneKey
<1> QED
  BY <1>1, Invariance, PTL

\* Agents of different (owner, agent) pairs never share a wallet, and never one
\* with a legacy subject, for any hash of the subjects (derive.go, DeriveAgent).
THEOREM AgentsIsolated == Spec => []StructuredIsolation
<1>1. IInv => StructuredIsolation
  <2> SUFFICES ASSUME IInv, NEW a \in book, NEW b \in book, IsStructured(a.sel),
                      IsLegacy(b.sel) \/ (IsStructured(b.sel) /\ ~SameAgent(a.sel, b.sel)), a.key = b.key
               PROVE  FALSE
    BY DEF StructuredIsolation
  <2>1. PICK s \in Configured : a.key \in KeysOf(s, a.sel)
    BY DEF IInv, BookDerived
  <2>2. PICK t \in Configured : b.key \in KeysOf(t, b.sel)
    BY DEF IInv, BookDerived
  <2>3. a.key.path = <<bip44Purpose, DefaultCoinType, a.sel.owner, a.sel.agent>>
    BY <2>1, StructuredKey
  <2>4. CASE IsLegacy(b.sel)
    <3>1. b.key.path = <<bip44Purpose, DefaultCoinType, accountFor(b.sel.subject)>>
      BY <2>2, <2>4, LegacyKey
    <3>2. Len(<<bip44Purpose, DefaultCoinType, accountFor(b.sel.subject)>>) = 3
      OBVIOUS
    <3>3. Len(<<bip44Purpose, DefaultCoinType, a.sel.owner, a.sel.agent>>) = 4
      OBVIOUS
    <3> QED
      BY <2>3, <3>1, <3>2, <3>3
  <2>5. CASE IsStructured(b.sel) /\ ~SameAgent(a.sel, b.sel)
    <3>1. b.key.path = <<bip44Purpose, DefaultCoinType, b.sel.owner, b.sel.agent>>
      BY <2>2, <2>5, StructuredKey
    <3>2. a.sel.owner = b.sel.owner /\ a.sel.agent = b.sel.agent
      BY <2>3, <3>1
    <3> QED
      BY <2>5, <3>2 DEF SameAgent
  <2> QED
    BY <2>4, <2>5
<1> QED
  BY <1>1, Invariance, PTL
=============================================================================
