------------------------------ MODULE GasFunder ------------------------------
(***************************************************************************)
(* RealGasFunder.EnsureGas (gasfunder.go): top up an agent account whose   *)
(* balance is below the minimum, one top-up at a time, and wait for it.    *)
(*                                                                         *)
(* Calls run concurrently; the mutex is taken after the first balance read *)
(* and held until the call returns.  The funder key is dedicated to the    *)
(* funder, as its comment demands, so every transaction of the account is  *)
(* a top-up.                                                               *)
(***************************************************************************)
EXTENDS Integers, Sequences, FiniteSets

CONSTANTS
    Calls,          \* calls of EnsureGas
    Accounts,       \* agent accounts
    AccountOf,      \* the account each call is about
    Free,           \* "nobody holds the mutex"
    minBalanceWei, topUpWei,
    GasCost,        \* what a top-up costs the funder besides its value
    InitialBalances,
    FunderBalance   \* what the funder starts with

ASSUME FunderAssumption ==
    /\ AccountOf \in [Calls -> Accounts]
    /\ Free \notin Calls
    /\ minBalanceWei \in Nat \ {0} /\ topUpWei \in Nat \ {0}
    /\ GasCost \in Nat /\ FunderBalance \in Nat
    /\ InitialBalances \subseteq 0..(minBalanceWei + topUpWei - 1)

VARIABLES
    pc, mu,
    nonce,      \* the account nonce a call read
    balance,    \* balances of the agent accounts
    funderBal,
    mined,      \* the calls whose top-up is mined; the funder's next nonce is their number
    pool,       \* pending top-ups in nonce order: [call, account]
    lapses      \* history: per account, top-ups sent or left behind unverified

vars == <<pc, mu, nonce, balance, funderBal, mined, pool, lapses>>
chainVars == <<balance, funderBal, mined, pool>>

Critical == {"recheck", "funder", "nonce", "send", "wait"}
Locations == {"start", "lock", "returned"} \cup Critical

TopUps == [call: Calls, account: Accounts]

Init ==
    /\ pc = [c \in Calls |-> "start"]
    /\ mu = Free
    /\ nonce = [c \in Calls |-> 0]
    /\ balance \in [Accounts -> InitialBalances]
    /\ funderBal = FunderBalance
    /\ mined = << >>
    /\ pool = << >>
    /\ lapses = [a \in Accounts |-> 0]

Goto(c, where) == pc' = [pc EXCEPT ![c] = where]

\* Return from under the lock: the deferred Unlock.
Leave(c) == Goto(c, "returned") /\ mu' = Free

Low(c) == balance[AccountOf[c]] < minBalanceWei

NextNonce == Len(mined)
PendingNonceAt == Len(mined) + Len(pool)

Lapse(c) == lapses' = [lapses EXCEPT ![AccountOf[c]] = @ + 1]

-----------------------------------------------------------------------------
\* The balance read outside the lock.
CheckBalance(c) ==
    /\ pc[c] = "start"
    /\ Goto(c, IF Low(c) THEN "lock" ELSE "returned")
    /\ UNCHANGED <<mu, nonce, chainVars, lapses>>

\* A plausible slip: the mutex is never taken.
LockNothing(c) ==
    /\ pc[c] = "lock"
    /\ Goto(c, "recheck")
    /\ UNCHANGED <<mu, nonce, chainVars, lapses>>

Lock(c) ==
    /\ pc[c] = "lock"
    /\ mu = Free
    /\ mu' = c
    /\ Goto(c, "recheck")
    /\ UNCHANGED <<nonce, chainVars, lapses>>

\* A plausible slip: the balance is not read again under the lock.
RecheckNothing(c, answered) ==
    /\ pc[c] = "recheck"
    /\ answered
    /\ Goto(c, "funder")
    /\ UNCHANGED <<mu, nonce, chainVars, lapses>>

\* The balance read again under the lock; its error does not stop the top-up.
Recheck(c, answered) ==
    /\ pc[c] = "recheck"
    /\ IF answered /\ ~Low(c)
       THEN Leave(c)
       ELSE Goto(c, "funder") /\ UNCHANGED mu
    /\ IF answered THEN UNCHANGED lapses ELSE Lapse(c)
    /\ UNCHANGED <<nonce, chainVars>>

CheckFunder(c) ==
    /\ pc[c] = "funder"
    /\ IF funderBal <= topUpWei THEN Leave(c) ELSE Goto(c, "nonce") /\ UNCHANGED mu
    /\ UNCHANGED <<nonce, chainVars, lapses>>

\* A plausible slip: the last used nonce instead of the next one.
ReadLastNonce(c) ==
    /\ pc[c] = "nonce"
    /\ nonce' = [nonce EXCEPT ![c] = PendingNonceAt - 1]
    /\ Goto(c, "send")
    /\ UNCHANGED <<mu, chainVars, lapses>>

\* buildAndSend up to the signature.
ReadNonce(c) ==
    /\ pc[c] = "nonce"
    /\ nonce' = [nonce EXCEPT ![c] = PendingNonceAt]
    /\ Goto(c, "send")
    /\ UNCHANGED <<mu, chainVars, lapses>>

\* The node takes the transaction: a new nonce, or one it replaces.
Accepted(c) ==
    LET tx == [call |-> c, account |-> AccountOf[c]]
    IN  /\ nonce[c] >= NextNonce
        /\ funderBal >= topUpWei + GasCost
        /\ pool' = IF nonce[c] = PendingNonceAt THEN Append(pool, tx)
                   ELSE [pool EXCEPT ![nonce[c] - NextNonce + 1] = tx]

\* SendTransaction, answered.
Send(c) ==
    /\ pc[c] = "send"
    /\ Accepted(c)
    /\ Goto(c, "wait")
    /\ UNCHANGED <<mu, nonce, balance, funderBal, mined, lapses>>

\* SendTransaction whose answer is an error although the node has the top-up.
SendLost(c) ==
    /\ pc[c] = "send"
    /\ Accepted(c)
    /\ Leave(c)
    /\ Lapse(c)
    /\ UNCHANGED <<nonce, balance, funderBal, mined>>

IsMined(c) == \E i \in 1..Len(mined) : mined[i].call = c

\* WaitForReceipt finds the receipt, reverted or not: the call returns.
Receipt(c) ==
    /\ pc[c] = "wait"
    /\ IsMined(c)
    /\ Leave(c)
    /\ UNCHANGED <<nonce, chainVars, lapses>>

\* WaitForReceipt's window expires.
ReceiptTimeout(c) ==
    /\ pc[c] = "wait"
    /\ Leave(c)
    /\ Lapse(c)
    /\ UNCHANGED <<nonce, chainVars>>

\* A plausible slip: an error path without the Unlock.
FailLocked(c) ==
    /\ pc[c] \in {"start", "funder", "nonce", "send"}
    /\ Goto(c, "returned")
    /\ UNCHANGED <<mu, nonce, chainVars, lapses>>

\* An error of a call made before the top-up is sent.
Fail(c) ==
    /\ pc[c] \in {"start", "funder", "nonce", "send"}
    /\ Goto(c, "returned")
    /\ mu' = IF mu = c THEN Free ELSE mu
    /\ UNCHANGED <<nonce, chainVars, lapses>>

-----------------------------------------------------------------------------
(* The chain.                                                              *)

\* The funder's oldest pending top-up is executed; it may revert.
Mine(ok) ==
    /\ pool # << >>
    /\ funderBal >= topUpWei + GasCost
    /\ LET tx == Head(pool)
       IN  /\ mined' = Append(mined, tx)
           /\ balance' = IF ok THEN [balance EXCEPT ![tx.account] = @ + topUpWei] ELSE balance
    /\ funderBal' = funderBal - GasCost - (IF ok THEN topUpWei ELSE 0)
    /\ pool' = Tail(pool)
    /\ UNCHANGED <<pc, mu, nonce, lapses>>

\* An agent pays for gas.
Burn(a) ==
    /\ balance[a] > 0
    /\ balance' = [balance EXCEPT ![a] = @ - 1]
    /\ UNCHANGED <<pc, mu, nonce, funderBal, mined, pool, lapses>>

Step(c) ==
    \/ CheckBalance(c)
    \/ \E answered \in BOOLEAN : Recheck(c, answered)
    \/ CheckFunder(c)
    \/ ReadNonce(c)
    \/ Send(c)
    \/ SendLost(c)
    \/ Receipt(c)
    \/ ReceiptTimeout(c)
    \/ Fail(c)

Next ==
    \/ \E c \in Calls : Lock(c) \/ Step(c)
    \/ \E ok \in BOOLEAN : Mine(ok)
    \/ \E a \in Accounts : Burn(a)

\* A call runs until it returns (the receipt wait has a deadline), and Go's
\* mutex hands itself to a waiter that has waited too long.
Fairness == \A c \in Calls : WF_vars(Step(c)) /\ SF_vars(Lock(c))

Spec == Init /\ [][Next]_vars /\ Fairness

-----------------------------------------------------------------------------
TypeOK ==
    /\ pc \in [Calls -> Locations]
    /\ mu \in Calls \cup {Free}
    /\ nonce \in [Calls -> Nat]
    /\ balance \in [Accounts -> Nat]
    /\ funderBal \in Nat
    /\ mined \in Seq(TopUps)
    /\ pool \in Seq(TopUps)
    /\ lapses \in [Accounts -> Nat]

\* Whoever is past the lock holds it, and nobody else does.
LockDiscipline == \A c \in Calls : mu = c <=> pc[c] \in Critical

\* "serialize funding so concurrent top-ups don't race the funder nonce"
\* (gasfunder.go): between PendingNonceAt and SendTransaction of one call no
\* other top-up takes the nonce, so no top-up replaces or is refused for another.
NonceStaysFresh == \A c \in Calls : pc[c] = "send" => nonce[c] = PendingNonceAt

PendingFor(a) == Cardinality({i \in 1..Len(pool) : pool[i].account = a})

\* Concurrent calls for one agent do not each top it up: what the agent has and
\* what is on its way stays below the minimum plus one top-up, plus one for every
\* top-up that was left behind (timeout, lost answer) or sent although the second
\* balance read failed (gasfunder.go, EnsureGas).
TopUpsJustified ==
    \A a \in Accounts :
        balance[a] + topUpWei * PendingFor(a)
            < minBalanceWei + topUpWei * (1 + lapses[a])

\* Every call of EnsureGas returns: nobody keeps the mutex, whichever way the
\* calls before it ended.
EnsureGasReturns == \A c \in Calls : <>(pc[c] = "returned")
=============================================================================
