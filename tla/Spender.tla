------------------------------- MODULE Spender -------------------------------
(***************************************************************************)
(* Spender.Spend (spend.go): permit() if the on-chain allowance does not   *)
(* cover the amount, then transferFrom(), each followed by a wait for its  *)
(* receipt, then BumpSpent and the optional credit.                        *)
(*                                                                         *)
(* Every Spend runs in its own goroutine; nothing in Spender serialises    *)
(* them.  A step is what happens between two awaited calls, so a Spend     *)
(* works on the row it copied out at the start (job) while the store, the  *)
(* chain and the other Spends move on.  EnsureGas is GasFunder.tla's; here *)
(* its failure is one of the errors of Fail.                               *)
(***************************************************************************)
EXTENDS Authorizer

CONSTANTS
    Spends,    \* the calls of Spend
    Amounts,   \* the amounts they ask for
    NoJob

ASSUME SpenderAssumption == Amounts \subseteq Nat \ {0}

VARIABLES
    pc,        \* where each call is
    job,       \* its copy of the row, the amount and the time it was called
    acct       \* the account nonce it read for the transaction it is building

spendVars == <<pc, job, acct>>

Waiting == {"permit_wait", "transfer_wait"}
Running == Waiting \cup
    {"allowance", "permit", "permit_send", "transfer", "transfer_send", "bump", "credit"}
Returned == {"done", "failed"}

SpendInit ==
    /\ pc = [c \in Spends |-> "idle"]
    /\ job = [c \in Spends |-> NoJob]
    /\ acct = [c \in Spends |-> 0]

Goto(c, where) == pc' = [pc EXCEPT ![c] = where]

EncodePermitCall(c, id, amount, expiration, sig) ==
    [kind |-> "permit", call |-> c, id |-> id, amount |-> amount,
     expiration |-> expiration, sig |-> sig]

EncodeTransferFromCall(c, id, atoms) ==
    [kind |-> "transfer", call |-> c, id |-> id, amount |-> atoms]

\* A plausible slip: the amount is read from the store again.
PermitTxReread(c) ==
    EncodePermitCall(c, job[c].id, rows[job[c].id].amount, job[c].expiration, job[c].sig)

\* sendPermit's call, from the copied row; the expiration is the sigDeadline too.
PermitTx(c) ==
    EncodePermitCall(c, job[c].id, job[c].amount, job[c].expiration, job[c].sig)

\* sendTransferFrom's call.
TransferTx(c) == EncodeTransferFromCall(c, job[c].id, job[c].atoms)

-----------------------------------------------------------------------------
\* From the call to its first awaited effect: pick the row, check what is left
\* of it.  A call that fails here has changed nothing.
Begin(c, atoms) ==
    /\ pc[c] = "idle"
    /\ \E id \in ActiveForAgent(rows, Agent, clock) \ Errors :
          /\ rows[id].amount - rows[id].spent - atoms >= 0
          /\ job' = [job EXCEPT ![c] =
                [id |-> id, amount |-> rows[id].amount, expiration |-> rows[id].expiration,
                 sig |-> rows[id].sig, atoms |-> atoms, now |-> clock]]
    /\ Goto(c, "allowance")
    /\ UNCHANGED <<envVars, authVars, acct>>

\* allowanceCovers; an error reads as "does not cover".
CheckAllowance(c, answered) ==
    /\ pc[c] = "allowance"
    /\ LET a == allowance[Triple(job[c].id)]
           covers == answered /\ a.expiration > job[c].now /\ a.amount >= job[c].atoms
       IN  Goto(c, IF covers THEN "transfer" ELSE "permit")
    /\ UNCHANGED <<envVars, authVars, job, acct>>

\* buildSignSend up to the signature: read the pending nonce, then estimate
\* gas, which runs the call on the latest state and fails if it would revert.
Build(c, here, tx, next) ==
    /\ pc[c] = here
    /\ \E n \in acctNonce..(acctNonce + Cardinality(pool)) :
          PendingNonceAt(n) /\ acct' = [acct EXCEPT ![c] = n]
    /\ Goto(c, IF Succeeds(tx) THEN next ELSE "failed")
    /\ UNCHANGED <<envVars, authVars, job>>

\* SendTransaction.  A used nonce is refused; a nonce that is taken in the pool
\* is refused or, at a higher fee, replaces what was there; and the answer to
\* an accepted transaction may be lost.
Send(c, here, tx, next) ==
    /\ pc[c] = here
    /\ \/ /\ acct[c] < acctNonce \/ Pending(acct[c])
          /\ Goto(c, "failed")
          /\ UNCHANGED pool
       \/ /\ acct[c] >= acctNonce
          /\ pool' = {e \in pool : e.nonce # acct[c]} \cup {[nonce |-> acct[c], tx |-> tx]}
          /\ \E answered \in BOOLEAN : Goto(c, IF answered THEN next ELSE "failed")
    /\ UNCHANGED <<clock, allowance, acctNonce, blocks, credited, authVars, job, acct>>

\* A plausible slip: the status of the receipt is not looked at.
ReceiptUnchecked(c, here, tx, next) ==
    /\ pc[c] = here
    /\ \E ok \in BOOLEAN : HasReceipt(tx, ok)
    /\ Goto(c, next)
    /\ UNCHANGED <<envVars, authVars, job, acct>>

\* WaitForReceipt finds the receipt; a reverted transaction ends the call.
Receipt(c, here, tx, next) ==
    /\ pc[c] = here
    /\ \E ok \in BOOLEAN :
          /\ HasReceipt(tx, ok)
          /\ Goto(c, IF ok THEN next ELSE "failed")
    /\ UNCHANGED <<envVars, authVars, job, acct>>

\* A plausible slip: the receipt wait has no deadline.
ReceiptTimeoutNever(c) == FALSE /\ UNCHANGED <<envVars, authVars, spendVars>>

\* WaitForReceipt's window expires: the transaction may be mined yet.
ReceiptTimeout(c) ==
    /\ pc[c] \in Waiting
    /\ Goto(c, "failed")
    /\ UNCHANGED <<envVars, authVars, job, acct>>

Bump(c) ==
    /\ pc[c] = "bump"
    /\ rows' = BumpSpent(rows, job[c].id, job[c].atoms)
    /\ Goto(c, "credit")
    /\ UNCHANGED <<envVars, authHead, job, acct>>

\* CreditAfterSpend, idempotent on the transaction; its error is only reported,
\* and a Spender without a Crediter credits nothing: both are ~ok.
Credit(c, ok) ==
    /\ pc[c] = "credit"
    /\ credited' = IF ok THEN credited \cup {TransferTx(c)} ELSE credited
    /\ Goto(c, "done")
    /\ UNCHANGED <<clock, chainVars, authVars, job, acct>>

\* Any error of an awaited call, a cancelled context or a crash of the process
\* up to the bump.  (After it nothing is an error: a crash before the credit is
\* Credit without the ledger hearing of it.)
Fail(c) ==
    /\ pc[c] \in Running \ {"credit"}
    /\ Goto(c, "failed")
    /\ UNCHANGED <<envVars, authVars, job, acct>>

\* The steps a running call takes unless it fails.
SpendStep(c) ==
    \/ \E answered \in BOOLEAN : CheckAllowance(c, answered)
    \/ Build(c, "permit", PermitTx(c), "permit_send")
    \/ Send(c, "permit_send", PermitTx(c), "permit_wait")
    \/ Receipt(c, "permit_wait", PermitTx(c), "transfer")
    \/ Build(c, "transfer", TransferTx(c), "transfer_send")
    \/ Send(c, "transfer_send", TransferTx(c), "transfer_wait")
    \/ Receipt(c, "transfer_wait", TransferTx(c), "bump")
    \/ ReceiptTimeout(c)
    \/ Bump(c)
    \/ \E ok \in BOOLEAN : Credit(c, ok)

SpendNext ==
    \E c \in Spends :
        \/ \E atoms \in Amounts : Begin(c, atoms)
        \/ SpendStep(c)
        \/ Fail(c)
=============================================================================
