----------------------------- MODULE SignerProofs -----------------------------
(* Proofs about BIP44Signer for any seed, any coin types and accounts, any   *)
(* requests and any number of concurrent calls.                              *)
EXTENDS Signer, TLAPS

\* Whose bytes are whose: the source's are never touched, the holder's copy is
\* good as long as it holds one, and the signer has its own.
Ownership ==
    /\ mem \in [Buffers -> {Seed, Zeroes(Seed)}]
    /\ mem["source"] = Seed
    /\ held # None => held = "holder" /\ mem["holder"] = Seed
    /\ signer # None => signer.seedAt = "signer" /\ mem["signer"] = Seed

Typed ==
    /\ key = [c \in Calls |-> key[c]]
    /\ call = [c \in Calls |-> call[c]]
    /\ pc = [c \in Calls |-> pc[c]]
    /\ out = [c \in Calls |-> out[c]]

\* A call under way works with the key of its signer.
UnderWay(c) == pc[c] = "running" => key[c] = KeyOf(c)

Returned(c) ==
    /\ pc[c] # "running" => key[c] \in {None, Wiped}
    /\ \A r \in out[c] : r.key = KeyOf(c)
    /\ pc[c] # "returned" => out[c] = {}

IInv == Ownership /\ Typed /\ \A c \in Calls : UnderWay(c) /\ Returned(c)

-----------------------------------------------------------------------------
\* A derived key is named by its seed and path.
LEMMA DeriveGives ==
    ASSUME NEW seed, NEW coinType, NEW account, NEW k \in Derive(seed, coinType, account)
    PROVE  k = [seed |-> seed, path |-> <<bip44Purpose, coinType, account>>]
  BY DEF Derive, deriveHardened

\* Whatever is returned is made with the key it is given.
LEMMA ResultsBear ==
    ASSUME NEW req, NEW k, NEW r \in Results(req, k)
    PROVE  r.key = k
<1>1. CASE req.op = "Address"
  BY <1>1 DEF Results
<1>2. CASE req.op = "SignTx"
  BY <1>2 DEF Results
<1>3. CASE req.op # "Address" /\ req.op # "SignTx"
  <2>1. PICK td \in Built(req) : r \in SignTypedData(k, td)
    BY <1>3 DEF Results
  <2> QED
    BY <2>1 DEF SignTypedData
<1> QED
  BY <1>1, <1>2, <1>3

LEMMA InitOK == Init => IInv
  BY SignerAssumption DEF Init, IInv, Ownership, Typed, UnderWay, Returned, Buffers

\* A step that leaves the calls alone leaves what is said of them alone.
LEMMA CallsKept ==
    ASSUME IInv, Ownership', UNCHANGED <<key, pc, call, out>>
    PROVE  IInv'
  BY DEF IInv, Typed, UnderWay, Returned, KeyOf

LEMMA FetchKeeps == ASSUME IInv, Fetch PROVE IInv'
<1>1. Ownership'
  BY SignerAssumption DEF IInv, Ownership, Fetch, StaticMasterSeed, Buffers
<1> QED
  BY <1>1, CallsKept DEF Fetch

LEMMA NewKeeps ==
    ASSUME IInv, NEW coin \in Coins, NEW account \in Accounts, NewBIP44Signer(coin, account)
    PROVE  IInv'
<1>1. Ownership'
  BY SignerAssumption DEF IInv, Ownership, NewBIP44Signer, Buffers
<1> QED
  BY <1>1, CallsKept DEF NewBIP44Signer

LEMMA OverwriteKeeps == ASSUME IInv, Overwrite PROVE IInv'
<1>1. Ownership'
  BY SignerAssumption DEF IInv, Ownership, Overwrite, Buffers
<1> QED
  BY <1>1, CallsKept DEF Overwrite

LEMMA StartKeeps ==
    ASSUME IInv, NEW c \in Calls, NEW req \in Requests, Start(c, req)
    PROVE  IInv'
<1> DEFINE keys == IF Admissible(req) THEN Derive(mem[signer.seedAt], signer.coinType, signer.account)
                   ELSE {}
<1>1. Ownership'
  BY DEF IInv, Ownership, Start
<1>2. key[c] \in {None, Wiped} /\ out'[c] = {}
  BY DEF IInv, Returned, Start
<1>3. \A d \in Calls \ {c} : pc'[d] = pc[d] /\ call'[d] = call[d] /\ key'[d] = key[d] /\ out'[d] = out[d]
  BY DEF IInv, Typed, Start
<1>4. KeyOf(c)' = [seed |-> Seed, path |-> <<bip44Purpose, signer.coinType, signer.account>>]
  BY DEF IInv, Typed, Start, KeyOf
<1>5. Typed'
  BY DEF IInv, Typed, Start
<1>6. \A d \in Calls \ {c} : UnderWay(d)' /\ Returned(d)'
  BY <1>3 DEF IInv, UnderWay, Returned, KeyOf
<1>7. UnderWay(c)' /\ Returned(c)'
  <2>1. CASE \E k \in keys : key' = [key EXCEPT ![c] = k] /\ pc' = [pc EXCEPT ![c] = "running"]
    <3>1. PICK k \in keys : key' = [key EXCEPT ![c] = k] /\ pc' = [pc EXCEPT ![c] = "running"]
      BY <2>1
    <3>2. k \in Derive(Seed, signer.coinType, signer.account)
      BY <3>1 DEF IInv, Ownership, Start
    <3>3. k = KeyOf(c)'
      BY <1>4, <3>2, DeriveGives
    <3> QED
      BY <1>2, <3>1, <3>3 DEF IInv, Typed, UnderWay, Returned
  <2>2. CASE pc' = [pc EXCEPT ![c] = "returned"] /\ UNCHANGED key
    BY <1>2, <2>2 DEF IInv, Typed, UnderWay, Returned
  <2> QED
    BY <2>1, <2>2 DEF Start
<1> QED
  BY <1>1, <1>5, <1>6, <1>7 DEF IInv

LEMMA FinishKeeps ==
    ASSUME IInv, NEW c \in Calls, Finish(c)
    PROVE  IInv'
<1> DEFINE results == Results(call[c].req, key[c])
<1>1. Ownership'
  BY DEF IInv, Ownership, Finish
<1>2. Typed'
  BY DEF IInv, Typed, Finish
<1>3. \A d \in Calls \ {c} : UnderWay(d)' /\ Returned(d)'
  BY DEF IInv, Typed, UnderWay, Returned, KeyOf, Finish
<1>4. key[c] = KeyOf(c)
  BY DEF IInv, UnderWay, Finish
<1>5. \A r \in results : r.key = KeyOf(c)
  BY <1>4, ResultsBear
<1>6. \A r \in out'[c] : r.key = KeyOf(c)
  BY <1>5 DEF IInv, Typed, Returned, Finish
<1>7. key'[c] = Wiped /\ call'[c] = call[c] /\ pc'[c] = "returned"
  BY DEF IInv, Typed, Finish
<1>8. UnderWay(c)' /\ Returned(c)'
  BY <1>6, <1>7 DEF UnderWay, Returned, KeyOf
<1> QED
  BY <1>1, <1>2, <1>3, <1>8 DEF IInv

LEMMA Inductive == IInv /\ [Next]_vars => IInv'
<1> SUFFICES ASSUME IInv, [Next]_vars PROVE IInv'
  OBVIOUS
<1>1. CASE UNCHANGED vars
  <2>1. Ownership'
    BY <1>1 DEF IInv, Ownership, vars
  <2> QED
    BY <1>1, <2>1, CallsKept DEF vars
<1>2. CASE Next
  BY <1>2, FetchKeeps, NewKeeps, OverwriteKeeps, StartKeeps, FinishKeeps DEF Next
<1> QED
  BY <1>1, <1>2

LEMMA Invariance == Spec => []IInv
  BY InitOK, Inductive, PTL DEF Spec

-----------------------------------------------------------------------------
\* Every address and signature a call returns is of the original seed's key,
\* whatever becomes of the holder's copy (signer.go, NewBIP44Signer).
THEOREM OwnKeyOnly == Spec => []SignsAsItself
<1>1. IInv => SignsAsItself
  BY DEF IInv, Returned, SignsAsItself
<1> QED
  BY <1>1, Invariance, PTL

\* No call leaves its key behind, on whichever way it returned (signer.go, the
\* deferred Zeroize of every method).
THEOREM NoKeyLeft == Spec => []KeysScrubbed
<1>1. IInv => KeysScrubbed
  BY DEF IInv, Returned, KeysScrubbed
<1> QED
  BY <1>1, Invariance, PTL
=============================================================================
