----------------------------- MODULE Environment -----------------------------
(***************************************************************************)
(* What lies outside the wallet: the chain as BaseRPC shows it (the        *)
(* Permit2 contract, the token, the agent's account and the transaction    *)
(* pool), the clock, and the consumer's ledger behind Crediter.            *)
(*                                                                         *)
(* None of it is code of this repository; each rule is what the wallet's   *)
(* code relies on.  One transaction per block and no reorganisation: the   *)
(* event loop reads up to the head and has no confirmation depth.          *)
(***************************************************************************)
EXTENDS Authorizations, Sequences, FiniteSets

CONSTANTS
    Agent,       \* the agent EOA the wallet's Signer controls
    Here,        \* the EIP-712 domain of the chain's Permit2 contract
    StartTime,   \* the clock when the model starts
    MaxTime,     \* bound on the clock
    MaxForeign,  \* bound on the blocks others produce
    LockdownTopics,  \* how many topics a Lockdown log of the contract carries
    NoTx, NoLog

VARIABLES
    clock,       \* unix time, also the timestamp of the next block
    allowance,   \* Permit2: (owner, agent, token) -> [amount, expiration, nonce]
    acctNonce,   \* the next nonce of the agent's account
    pool,        \* pending transactions of the agent: [nonce, tx]
    blocks,      \* the chain: blocks[b] = [tx, ok, log]
    credited     \* transfers the consumer's ledger has credited

envVars == <<clock, allowance, acctNonce, pool, blocks, credited>>
chainVars == <<allowance, acctNonce, pool, blocks>>

\* A signature stands for what was signed and by whom.  RecoverTypedDataSigner
\* and the contract both recover the signer from it when, and only when, they
\* are shown the permit that was signed.
ASSUME EnvironmentAssumption ==
    /\ \A s \in Signatures :
          /\ s.signer \in Owners /\ s.agent \in Agents /\ s.token \in Tokens
          /\ s.nonce \in Nonces /\ s.amount \in Nat /\ s.expiration \in Nat
    /\ Nonces \subseteq Nat
    /\ MaxTime \in Nat /\ StartTime \in 0..MaxTime /\ MaxForeign \in Nat
    /\ LockdownTopics \subseteq Nat
    /\ Agent \in Agents

Triple(x) == [owner |-> x.owner, agent |-> x.agent, token |-> x.token]
Triples == [owner: Owners, agent: Agents, token: Tokens]

Genesis == [tx |-> NoTx, ok |-> TRUE, log |-> NoLog]

EnvInit ==
    /\ clock = StartTime
    /\ allowance = [t \in Triples |-> [amount |-> 0, expiration |-> 0, nonce |-> 0]]
    /\ acctNonce = 0
    /\ pool = {}
    /\ blocks = <<Genesis>>
    /\ credited = {}

head == Len(blocks)

\* The receipt of a transaction is the block it is in.
HasReceipt(tx, ok) == \E b \in 1..head : blocks[b].tx = tx /\ blocks[b].ok = ok

-----------------------------------------------------------------------------
(* Permit2.                                                                *)

\* permit() of the row (id, amount, expiration) with signature sig.
Permits(id, amount, expiration, sig) ==
    /\ sig.signer = id.owner
    /\ sig.agent = id.agent
    /\ sig.token = id.token
    /\ sig.nonce = id.nonce
    /\ sig.amount = amount
    /\ sig.expiration = expiration

PermitOK(id, amount, expiration, sig) ==
    /\ Permits(id, amount, expiration, sig)
    /\ sig.domain = Here
    /\ clock <= expiration
    /\ allowance[Triple(id)].nonce = id.nonce

AfterPermit(id, amount, expiration) ==
    [allowance EXCEPT ![Triple(id)] =
        [amount |-> amount, expiration |-> expiration, nonce |-> id.nonce + 1]]

\* The logs.  A topic is an indexed argument of the event, or its name: the
\* canonical Permit2 indexes only the owner of a Lockdown, hence two topics; a
\* contract that indexes owner, token and spender has four.
LockdownLog(triple, topics) == [event |-> "Lockdown", id |-> triple, topics |-> topics]

TransferLog(tx) == [event |-> "Transfer", id |-> tx.id, amount |-> tx.amount, tx |-> tx]

PermitLog(id, amount, expiration) ==
    [event |-> "Permit", id |-> id, amount |-> amount, expiration |-> expiration]

\* transferFrom() by the agent, as far as Permit2 is concerned.
TransferOK(triple, atoms) ==
    /\ clock <= allowance[triple].expiration
    /\ atoms <= allowance[triple].amount

-----------------------------------------------------------------------------
(* The agent's transactions.                                               *)

\* A transaction is a permit() [kind, call, id, amount, expiration, sig] or a
\* transferFrom() [kind, call, id, amount]; call is the Spend it belongs to.
Succeeds(tx) ==
    IF tx.kind = "permit"
    THEN PermitOK(tx.id, tx.amount, tx.expiration, tx.sig)
    ELSE TransferOK(Triple(tx.id), tx.amount)

Pending(n) == \E e \in pool : e.nonce = n

\* The node's answer to PendingNonceAt: the first nonce not in the pool.
PendingNonceAt(n) ==
    /\ ~Pending(n)
    /\ \A m \in acctNonce..(n - 1) : Pending(m)

\* The next transaction of the agent's account is executed.  A transferFrom
\* also needs the owner's token balance and approval: "funded".
Mine(funded) ==
    \E e \in pool :
        /\ e.nonce = acctNonce
        /\ LET tx == e.tx
               ok == Succeeds(tx) /\ (tx.kind = "transfer" => funded)
           IN  /\ blocks' = Append(blocks,
                    [tx |-> tx, ok |-> ok,
                     log |-> IF ~ok THEN NoLog
                             ELSE IF tx.kind = "permit"
                                  THEN PermitLog(tx.id, tx.amount, tx.expiration)
                                  ELSE TransferLog(tx)])
               /\ allowance' =
                    IF ~ok THEN allowance
                    ELSE IF tx.kind = "permit"
                         THEN AfterPermit(tx.id, tx.amount, tx.expiration)
                         ELSE [allowance EXCEPT ![Triple(tx.id)].amount = @ - tx.amount]
        /\ pool' = pool \ {e}
        /\ acctNonce' = acctNonce + 1
        /\ UNCHANGED <<clock, credited>>

-----------------------------------------------------------------------------
(* Others.                                                                 *)

ForeignBlocks == head - 1 - acctNonce

\* Anyone who has a signed permit may submit it.
ForeignPermit(s) ==
    LET id == [owner |-> s.signer, agent |-> s.agent, token |-> s.token, nonce |-> s.nonce]
    IN  /\ ForeignBlocks < MaxForeign
        /\ PermitOK(id, s.amount, s.expiration, s)
        /\ allowance' = AfterPermit(id, s.amount, s.expiration)
        /\ blocks' = Append(blocks, [tx |-> NoTx, ok |-> TRUE,
                                     log |-> PermitLog(id, s.amount, s.expiration)])
        /\ UNCHANGED <<clock, acctNonce, pool, credited>>

\* The owner revokes: the allowance drops to zero, its nonce stays.
Lockdown(triple, topics) ==
    /\ ForeignBlocks < MaxForeign
    /\ allowance' = [allowance EXCEPT ![triple].amount = 0]
    /\ blocks' = Append(blocks, [tx |-> NoTx, ok |-> TRUE,
                                 log |-> LockdownLog(triple, topics)])
    /\ UNCHANGED <<clock, acctNonce, pool, credited>>

AdvanceClock ==
    /\ clock < MaxTime
    /\ clock' = clock + 1
    /\ UNCHANGED <<allowance, acctNonce, pool, blocks, credited>>

EnvNext ==
    \/ \E funded \in BOOLEAN : Mine(funded)
    \/ \E s \in Signatures : ForeignPermit(s)
    \/ \E triple \in Triples, topics \in LockdownTopics : Lockdown(triple, topics)
    \/ AdvanceClock
=============================================================================
