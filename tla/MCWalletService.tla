--------------------------- MODULE MCWalletService ---------------------------
(* A production environment and every change of one variable of it; 4-bit     *)
(* words, 3-bit values, 2-bit hardened indices.  Two requests are enough for   *)
(* every pair of selectors, with any number of restarts in between.            *)
EXTENDS WalletService

Padded(v) == [pad |-> TRUE, val |-> v]
Neg(t) == [t EXCEPT !.sign = "-"]
Pad(t) == [t EXCEPT !.pad = TRUE]

SeedOf(v, n) == [val |-> v, len |-> n]
Hex(prefix, seed) == [pad |-> FALSE, prefix |-> prefix, hex |-> TRUE, seed |-> seed]

Production ==
    [teeBaseURL |-> Var("url"), teeToken |-> Var("tee"), sealed |-> Hex("0x", SeedOf("sealed", 2)),
     masterSeed |-> Pad(Hex("", SeedOf("env", 3))), authToken |-> Padded("tok"),
     allowGenericSign |-> Var(""), allowSignTx |-> Var("0"), gccToken |-> Var("gcc"), payTo |-> Padded("pay"),
     chainID |-> Plain(5), timeoutSeconds |-> Plain(2), maxValue |-> Pad(Plain(3))]

Change(field, values) == {[Production EXCEPT ![field] = v] : v \in values}

MCEnvironments ==
    {Production}
    \cup Change("teeBaseURL", {Var(""), Padded("")}) \cup Change("teeToken", {Var("")})
    \cup Change("sealed", {Pad(Hex("0x", SeedOf("sealed", 2))), Hex("", SeedOf("", 0)), Hex("", SeedOf("sealed", 4))})
    \cup Change("authToken", {Var(""), Padded("")})
    \cup Change("allowGenericSign", {Var("1"), Padded("1"), Var("0")})
    \cup Change("allowSignTx", {Var("1"), Padded("1")})
    \cup Change("gccToken", {Var(""), Var("malformed")}) \cup Change("payTo", {Padded("")})
    \cup Change("chainID", {EmptyText, Plain(Junk), Plain(9), Neg(Plain(1))})
    \cup Change("timeoutSeconds", {EmptyText, Plain(Junk), Plain(9)})
    \cup Change("maxValue", {EmptyText, Plain(Junk), Neg(Plain(1)), Plain(8)})

MCCallers ==
    {[scheme |-> "bearer", pad |-> p, val |-> v] : p \in BOOLEAN, v \in {"", "tok"}}
    \cup {[scheme |-> "bearer", pad |-> FALSE, val |-> "guess"], [scheme |-> "other", pad |-> FALSE, val |-> "tok"]}

MCAddresses == {"gcc", "pay", "else"}
\* s0 hashes to the reserved index 0; s1 and s2 differ in the masked bit only.
MCKeccak == [s0 |-> 4, s1 |-> 1, s2 |-> 5]

Subject(s) == [path |-> <<>>, subject |-> s, owner |-> 1, agent |-> 1]
MCSelectors ==
    {Subject(s) : s \in {"s0", "s1", "s2"}}
    \cup {Structured(o, a) : o \in {0, 1, 2, 4}, a \in {0, 1}}
    \cup {Explicit(p) : p \in {<<1>>, <<1, 3, 1, 1>>, <<1, 4>>}}
    \cup {[Explicit(<<1, 3, 1>>) EXCEPT !.subject = "s2"]}

Nonce(v, ok) == [val |-> v, bytes32 |-> ok]
Transfer(sel, value) ==
    [sel |-> sel, value |-> value, validAfter |-> 0, validBefore |-> 0, nonce |-> Nonce("", FALSE)]
MCTransfers ==
    {Transfer(Structured(1, 1), v) :
        v \in {EmptyText, Plain(0), Plain(3), Plain(4), Plain(8), Pad(Plain(3)), Neg(Plain(3)), Plain(Junk)}}
    \cup {Transfer(sel, Plain(3)) : sel \in MCSelectors}
    \cup {[Transfer(Structured(1, 0), Plain(2)) EXCEPT !.validAfter = a, !.validBefore = b, !.nonce = n] :
             a \in {0, -1, 1}, b \in {0, 7}, n \in {Nonce("n", TRUE), Nonce("n", FALSE)}}

MCMessages ==
    {[sel |-> Structured(o, 1), typedData |-> [type |-> "Other", hashable |-> ok]] : o \in {0, 1}, ok \in BOOLEAN}

Transaction(sel) ==
    [sel |-> sel, chainID |-> 5, gas |-> 1, to |-> "else", dataHex |-> TRUE, value |-> EmptyText,
     tip |-> Plain(1), feeCap |-> Plain(1)]
MCTransactions ==
    {Transaction(sel) : sel \in MCSelectors}
    \cup {[Transaction(Structured(1, 1)) EXCEPT !.chainID = 0], [Transaction(Structured(1, 1)) EXCEPT !.gas = 0],
          [Transaction(Structured(1, 1)) EXCEPT !.to = "malformed"], [Transaction(Structured(1, 1)) EXCEPT !.dataHex = FALSE],
          [Transaction(Structured(1, 1)) EXCEPT !.value = Neg(Plain(1))], [Transaction(Structured(1, 1)) EXCEPT !.value = Pad(Plain(9))]}
=============================================================================
