----------------------------- MODULE AgentWallet -----------------------------
(***************************************************************************)
(* The wallet of one agent: Authorizer, Spender and EventLoop around one   *)
(* AuthorizationStore, against the chain.                                  *)
(***************************************************************************)
EXTENDS Spender, EventLoop, FiniteSetsExt

vars == <<envVars, authVars, spendVars, loopVars>>

Init == EnvInit /\ AuthInit /\ SpendInit /\ LoopInit

Environs ==
    /\ (EnvNext /\ UNCHANGED authVars) \/ AuthNext
    /\ UNCHANGED <<spendVars, loopVars>>

Spending == SpendNext /\ UNCHANGED loopVars

Watching == LoopNext /\ UNCHANGED spendVars

Next == Environs \/ Spending \/ Watching

\* Every call of Spend runs until it returns: its RPC calls answer or fail and
\* WaitForReceipt has a deadline.  Run ticks for ever.
Fairness ==
    /\ \A c \in Spends : WF_vars(SpendStep(c) /\ UNCHANGED loopVars)
    /\ WF_vars(LoopStep /\ UNCHANGED spendVars)

Spec == Init /\ [][Next]_vars /\ Fairness

\* A deployment that does not run the event loop.
SpendSpec ==
    /\ Init
    /\ [][Environs \/ Spending]_vars
    /\ \A c \in Spends : WF_vars(SpendStep(c) /\ UNCHANGED loopVars)

-----------------------------------------------------------------------------
PermitTxs ==
    [kind: {"permit"}, call: Spends, id: Ids, amount: Nat, expiration: Nat, sig: Signatures]
TransferTxs == [kind: {"transfer"}, call: Spends, id: Ids, amount: Nat]
Txs == PermitTxs \cup TransferTxs

PermitLogs == [event: {"Permit"}, id: Ids, amount: Nat, expiration: Nat]
LockdownLogs == [event: {"Lockdown"}, id: Triples, topics: Nat]
TransferLogs == [event: {"Transfer"}, id: Ids, amount: Nat, tx: TransferTxs]
Logs == PermitLogs \cup LockdownLogs \cup TransferLogs

Jobs == [id: Ids, amount: Nat, expiration: Nat, sig: Signatures, atoms: Amounts, now: Nat]

Ticks == [at: {"idle", "permit2", "transfers"}, logs: SUBSET Nat, from: Nat, to: Nat]

EnvTypeOK ==
    /\ clock \in StartTime..MaxTime
    /\ allowance \in [Triples -> [amount: Nat, expiration: Nat, nonce: Nat]]
    /\ acctNonce \in Nat
    /\ pool \subseteq [nonce: Nat, tx: Txs]
    /\ blocks \in Seq([tx: Txs \cup {NoTx}, ok: BOOLEAN, log: Logs \cup {NoLog}])
    /\ head >= 1
    /\ credited \subseteq TransferTxs

AuthTypeOK ==
    /\ rows \in Tables
    /\ authHead \in [Ids -> 0..head]

SpendTypeOK ==
    /\ pc \in [Spends -> {"idle"} \cup Running \cup Returned]
    /\ job \in [Spends -> Jobs \cup {NoJob}]
    /\ \A c \in Spends : pc[c] # "idle" => job[c] \in Jobs
    /\ acct \in [Spends -> Nat]

LoopTypeOK ==
    /\ watermark \in 0..head
    /\ tick \in Ticks /\ tick.to <= head
    /\ faults \in 0..MaxFaults
    /\ origin \in 0..watermark
    /\ seen \in 0..head
    /\ skipped \subseteq 1..head

TypeOK == EnvTypeOK /\ AuthTypeOK /\ SpendTypeOK /\ LoopTypeOK

Spendable(id) == rows[id] # NoRow /\ rows[id].sig # NoSig /\ ~rows[id].locked

\* The loop has met the log of block b and its store call did not fail.
Met(b) ==
    /\ b <= seen \/ b <= watermark
    /\ b \notin skipped
    /\ blocks[b].log # NoLog

\* Once the loop has met a Lockdown of four topics, no row of that owner, agent
\* and token is spendable - signed and unlocked - unless it was submitted again
\* after the Lockdown: neither the refresh of an observed Permit, nor a block
\* range read twice after an interrupted tick, nor the cap on the range lets one
\* through (listener.go, Tick and applyPermit2; store.go, Upsert and MarkLocked).
\* Of a Lockdown with any other number of topics, such as the two of the canonical
\* Permit2, nothing is claimed: DecodeLockdown refuses it and the row stays
\* spendable, see EventsReconciled.
LockdownHolds ==
    \A b \in (origin + 1)..head : \A id \in Ids :
        (/\ Met(b)
         /\ blocks[b].log.event = "Lockdown"
         /\ blocks[b].log.topics = 4
         /\ blocks[b].log.id = Triple(id)
         /\ id.agent \in OurAgents
         /\ Spendable(id))
            => authHead[id] >= b

\* Once the loop has met a Permit of one of our agents there is a row for it, and
\* unless it was submitted again since, the row has the amount and the expiration
\* the chain has recorded: no submission that was cached before, no range read
\* twice, no later Lockdown, spend or undecodable log leaves it with others
\* (listener.go, Tick and applyPermit2; store.go, Upsert).
PermitsHold ==
    \A b \in (origin + 1)..head : \A id \in Ids :
        (/\ Met(b)
         /\ blocks[b].log.event = "Permit"
         /\ blocks[b].log.id = id
         /\ id.agent \in OurAgents)
            => /\ rows[id] # NoRow
               /\ \/ authHead[id] >= b
                  \/ /\ rows[id].amount = blocks[b].log.amount
                     /\ rows[id].expiration = blocks[b].log.expiration

\* The permit() a Spend has in flight is the one its owner signed: the row may
\* have been refreshed, locked or bumped since the Spend copied it, but the copy
\* is of one moment (spend.go, Spend and sendPermit).
SubmittedPermitIsSigned ==
    \A e \in pool :
        e.tx.kind = "permit" => Permits(e.tx.id, e.tx.amount, e.tx.expiration, e.tx.sig)

Bumped(c) == pc[c] \in {"credit", "done"}

\* The books match the chain: a row's SpentAtoms is the sum of the Spends that
\* were recorded on it, each of them and each credited transfer is mined and did
\* not revert, whatever was submitted, observed, replaced in the pool or timed
\* out in the meantime (spend.go, Spend; store.go, Upsert).
SpentIsSettled ==
    /\ \A id \in Ids : rows[id] # NoRow =>
          rows[id].spent =
              MapThenSumSet(LAMBDA c : job[c].atoms,
                            {c \in Spends : Bumped(c) /\ job[c].id = id})
    /\ \A c \in Spends : Bumped(c) => HasReceipt(TransferTx(c), TRUE)
    /\ \A tx \in credited : HasReceipt(tx, TRUE)

\* Every Spend returns, whatever becomes of its transactions: the receipt waits
\* have a deadline (spend.go, Spend; rpc.go, WaitForReceipt).
SpendReturns == \A c \in Spends : (pc[c] \in Running) ~> (pc[c] \in Returned)

\* Every block is eventually behind the watermark, whatever the cap, the
\* backfill and a bounded number of interrupted ticks (listener.go, Tick).
LoopCatchesUp ==
    \A b \in 1..(1 + MaxForeign + 2 * Cardinality(Spends)) : (head >= b) ~> (watermark >= b)

-----------------------------------------------------------------------------
(* What the repository says and the code does not do.                      *)

\* "ErrAllowanceExceeded is returned when a spend would exceed the remaining
\* Permit2 allowance recorded on the authorization" (spend.go): no row is ever
\* spent beyond its amount.
SpentWithinAllowance ==
    \A id \in Ids : rows[id] # NoRow => rows[id].spent <= rows[id].amount

\* A blank signature is "for event-sourced rows" (store.go): a row that was
\* submitted with its signature keeps one.
SubmittedKeepsSignature ==
    [][\A id \in Ids : (rows[id] # NoRow /\ rows[id].sig # NoSig)
                           => rows'[id].sig # NoSig]_vars

\* "EventLoop polls Permit2 (Permit+Lockdown) and optionally USDC Transfer
\* (to=treasury) events and reconciles the AuthorizationStore" (listener.go): a
\* log the loop is done with has taken effect.  A Lockdown of one of our agents
\* has locked the rows submitted before it; a Transfer whose owner has an active
\* row is credited.
EventsReconciled ==
    [][\A b \in tick.logs :
          LET log == blocks[b].log
          IN  (tick'.at = tick.at /\ b \notin tick'.logs) =>
              /\ (log.event = "Lockdown" /\ log.id.agent \in OurAgents) =>
                    \A id \in Ids :
                        (rows[id] # NoRow /\ Triple(id) = log.id /\ authHead[id] < b)
                            => rows'[id].locked
              /\ (/\ log.event = "Transfer"
                  /\ \E id \in Ids : /\ Active(rows, id, clock)
                                      /\ id.owner = log.id.owner
                                      /\ id.token = log.id.token) =>
                    log.tx \in credited']_vars
=============================================================================
