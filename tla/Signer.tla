-------------------------------- MODULE Signer --------------------------------
(***************************************************************************)
(* BIP44Signer (signer.go) with the source of its seed.  A holder fetches   *)
(* the seed from a StaticMasterSeedSource, builds a signer from it and      *)
(* overwrites its copy whenever it likes, again and again; meanwhile calls  *)
(* of the signer run concurrently.  What is modelled is whose bytes are     *)
(* whose: mem holds the seed bytes of the source, of the holder and of the  *)
(* signer, key[c] the bytes of the AgentKey of a call.                      *)
(***************************************************************************)
EXTENDS SeedSource, TypedData

CONSTANTS
    Calls,
    Seed,      \* the bytes the source is made with
    Coins, Accounts,
    Requests,  \* what is asked of the signer: [op, arg], with [.., named] where a domain is given
    None, Wiped

Buffers == {"source", "holder", "signer"}

ASSUME SignerAssumption ==
    /\ Coins \subseteq Uint32 /\ Accounts \subseteq Uint32
    /\ Seed.val # Wiped /\ None \notin Buffers

VARIABLES
    mem,     \* the seed bytes in each buffer
    held,    \* the buffer the holder was given, or None
    signer,  \* the signer, or None: where its seed is, coin type and account
    key,     \* by call: the bytes of its key, or None
    pc,      \* by call: "idle", "running" or "returned"
    call,    \* by call: the request, and the coin type and account of its signer
    out      \* by call: the set with what it returned, {} for an error

vars == <<mem, held, signer, key, pc, call, out>>

\* Overwriting leaves the length alone.
Zeroes(seed) == [seed EXCEPT !.val = Wiped]

-----------------------------------------------------------------------------
Fetch ==
    /\ held = None
    /\ validateSeed(mem["source"])
    /\ LET got == StaticMasterSeed(mem, "source", "holder")
       IN  held' = got.at /\ mem' = got.mem
    /\ UNCHANGED <<signer, key, pc, call, out>>

\* A plausible slip: the signer keeps the slice it was given.
NewBIP44SignerShared(coin, account) ==
    /\ held # None
    /\ Derive(mem[held], IF coin = 0 THEN DefaultCoinType ELSE coin, account) # {}
    /\ signer' = [seedAt |-> held, coinType |-> IF coin = 0 THEN DefaultCoinType ELSE coin,
                  account |-> account]
    /\ UNCHANGED <<mem, held, key, pc, call, out>>

\* NewBIP44Signer: a trial derivation, then a copy of the seed.
NewBIP44Signer(coin, account) ==
    LET coinType == IF coin = 0 THEN DefaultCoinType ELSE coin
    IN  /\ held # None
        /\ Derive(mem[held], coinType, account) # {}
        /\ mem' = [mem EXCEPT !["signer"] = mem[held]]
        /\ signer' = [seedAt |-> "signer", coinType |-> coinType, account |-> account]
        /\ UNCHANGED <<held, key, pc, call, out>>

\* The holder is done with its copy.
Overwrite ==
    /\ held # None
    /\ mem' = [mem EXCEPT ![held] = Zeroes(mem[held])]
    /\ held' = None
    /\ UNCHANGED <<signer, key, pc, call, out>>

-----------------------------------------------------------------------------
\* SignTx's own checks; the other methods have none.
Admissible(req) == req.op = "SignTx" => req.arg.given /\ req.arg.chainID > 0

\* What is signed: the message that is built, or the transaction.
Built(req) ==
    CASE req.op = "SignPermit2" -> BuildPermit2TypedData(req.arg)
      [] req.op = "SignEIP2612" -> BuildEIP2612TypedData(req.arg, req.named)
      [] req.op = "SignEIP3009" -> BuildEIP3009TypedData(req.arg, req.named)

Results(req, k) ==
    CASE req.op = "Address" -> {[key |-> k]}
      [] req.op = "SignTx" -> {[key |-> k, over |-> req.arg]}
      [] OTHER -> UNION {SignTypedData(k, td) : td \in Built(req)}

\* The beginning of Address, SignPermit2, SignEIP2612, SignEIP3009 and SignTx:
\* checks and derive().
Start(c, req) ==
    /\ pc[c] = "idle" /\ signer # None
    /\ call' = [call EXCEPT ![c] = [req |-> req, coinType |-> signer.coinType, account |-> signer.account]]
    /\ LET keys == IF Admissible(req) THEN Derive(mem[signer.seedAt], signer.coinType, signer.account)
                   ELSE {}
       IN  \/ \E k \in keys : key' = [key EXCEPT ![c] = k] /\ pc' = [pc EXCEPT ![c] = "running"]
           \/ keys = {} /\ pc' = [pc EXCEPT ![c] = "returned"] /\ UNCHANGED key
    /\ UNCHANGED <<mem, held, signer, out>>

\* A plausible slip: no deferred Zeroize, the key is overwritten on success only.
FinishSuccess(c) ==
    /\ pc[c] = "running"
    /\ LET results == Results(call[c].req, key[c])
       IN  \/ \E r \in results : out' = [out EXCEPT ![c] = {r}] /\ key' = [key EXCEPT ![c] = Wiped]
           \/ results = {} /\ UNCHANGED <<out, key>>
    /\ pc' = [pc EXCEPT ![c] = "returned"]
    /\ UNCHANGED <<mem, held, signer, call>>

\* The rest of the call: build, sign, and the deferred Zeroize on either way out.
Finish(c) ==
    /\ pc[c] = "running"
    /\ LET results == Results(call[c].req, key[c])
       IN  \/ \E r \in results : out' = [out EXCEPT ![c] = {r}]
           \/ results = {} /\ UNCHANGED out
    /\ key' = [key EXCEPT ![c] = Wiped]
    /\ pc' = [pc EXCEPT ![c] = "returned"]
    /\ UNCHANGED <<mem, held, signer, call>>

Init ==
    /\ mem = [b \in Buffers |-> IF b = "source" THEN Seed ELSE Zeroes(Seed)]
    /\ held = None
    /\ signer = None
    /\ key = [c \in Calls |-> None]
    /\ call = [c \in Calls |-> None]
    /\ pc = [c \in Calls |-> "idle"]
    /\ out = [c \in Calls |-> {}]

Next ==
    \/ Fetch
    \/ \E coin \in Coins, account \in Accounts : NewBIP44Signer(coin, account)
    \/ Overwrite
    \/ \E c \in Calls, req \in Requests : Start(c, req)
    \/ \E c \in Calls : Finish(c)

Spec == Init /\ [][Next]_vars

-----------------------------------------------------------------------------
\* The key of a seed, coin type and account.
KeyOf(c) == [seed |-> Seed, path |-> <<bip44Purpose, call[c].coinType, call[c].account>>]

\* Whatever the holder did with its copy of the seed and whenever it did it, every
\* address and every signature a call returns are those of the key of the original
\* seed at the coin type and account the signer was built for (signer.go,
\* NewBIP44Signer; seedsource.go, "defensive copy (caller may Zeroize)").
SignsAsItself == \A c \in Calls : \A r \in out[c] : r.key = KeyOf(c)

\* A call that has returned, with a signature or with an error, has left no key
\* behind: AgentKey.PrivateKey is overwritten (signer.go, "zeroizes the key
\* immediately after").
KeysScrubbed == \A c \in Calls : pc[c] = "returned" => key[c] \in {None, Wiped}
=============================================================================
