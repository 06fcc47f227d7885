-------------------------- MODULE AgentWalletProofs --------------------------
(***************************************************************************)
(* The wallet caches and submits only what owners signed, a decoded        *)
(* Lockdown and an observed Permit hold, the books match the chain and no  *)
(* Transfer is reconciled: for any owners, agents, tokens, permits,        *)
(* amounts and numbers of Spends, blocks and faults.                       *)
(***************************************************************************)
EXTENDS AgentWallet, FiniteSetTheorems, WellFoundedInduction, TLAPS

-----------------------------------------------------------------------------
(* The store's operators.                                                  *)

\* An answer that is not an error is one of the candidates, and it is signed
\* when a signature is required.
LEMMA PickActiveAnswers ==
    ASSUME NEW table, NEW cands, NEW requireSig \in BOOLEAN,
           NEW answer \in pickActive(table, cands, requireSig) \ Errors
    PROVE  /\ answer \in cands
           /\ requireSig => table[answer].sig # NoSig
  BY DEF pickActive, MostRecent, WithSignature, Errors

LEMMA ActiveForAgentAnswers ==
    ASSUME NEW agent, NEW now, NEW id \in ActiveForAgent(rows, agent, now) \ Errors
    PROVE  id \in Ids /\ rows[id] # NoRow /\ rows[id].sig # NoSig
<1> DEFINE cands == {i \in Ids : Active(rows, i, now) /\ i.agent = agent}
<1>1. id \in pickActive(rows, cands, TRUE) \ Errors
  BY DEF ActiveForAgent
<1>2. id \in cands /\ rows[id].sig # NoSig
  <2> HIDE DEF cands
  <2> QED
    BY <1>1, PickActiveAnswers
<1> QED
  BY <1>2 DEF Active

LEMMA ActiveForOwnerAnswers ==
    ASSUME NEW owner, NEW token, NEW now,
           NEW id \in ActiveForOwner(rows, owner, token, now) \ Errors
    PROVE  id \in Ids
<1> DEFINE cands ==
      {i \in Ids : Active(rows, i, now) /\ i.owner = owner /\ i.token = token}
<1>1. id \in pickActive(rows, cands, FALSE) \ Errors
  BY DEF ActiveForOwner
<1>2. id \in cands
  <2> HIDE DEF cands
  <2> QED
    BY <1>1, PickActiveAnswers
<1> QED
  BY <1>2

\* An Upsert touches one row and keeps the amount, the expiration, the
\* signature and the lock of the row it is given.
LEMMA UpsertEffect ==
    ASSUME rows \in Tables, NEW id \in Ids, NEW a \in Authorization
    PROVE  /\ Upsert(rows, id, a) \in Tables
           /\ \A other \in Ids \ {id} : Upsert(rows, id, a)[other] = rows[other]
           /\ LET new == Upsert(rows, id, a)[id]
              IN  /\ new \in Authorization
                  /\ new.amount = a.amount /\ new.expiration = a.expiration
                  /\ new.sig = a.sig /\ new.locked = a.locked
<1> DEFINE new == IF rows[id] = NoRow THEN a ELSE Refreshed(rows[id], a)
<1>1. Upsert(rows, id, a) = [rows EXCEPT ![id] = new]
  BY DEF Upsert
<1>2. rows[id] = NoRow \/ rows[id] \in Authorization
  BY DEF Tables
<1>3. /\ new \in Authorization
      /\ new.amount = a.amount /\ new.expiration = a.expiration
      /\ new.sig = a.sig /\ new.locked = a.locked
  BY <1>2 DEF Refreshed, Authorization
<1> HIDE DEF new
<1>4. [rows EXCEPT ![id] = new] \in Tables
  BY <1>3 DEF Tables
<1>5. /\ [rows EXCEPT ![id] = new][id] = new
      /\ \A other \in Ids \ {id} : [rows EXCEPT ![id] = new][other] = rows[other]
  BY DEF Tables
<1> QED
  BY <1>1, <1>3, <1>4, <1>5

\* What a row says of its permit, apart from the spend.
SamePermit(r, old) ==
    /\ (r = NoRow) <=> (old = NoRow)
    /\ old # NoRow => /\ r.amount = old.amount /\ r.expiration = old.expiration
                      /\ r.sig = old.sig

LEMMA BumpSpentEffect ==
    ASSUME rows \in Tables, NEW id \in Ids, NEW add \in Nat
    PROVE  /\ BumpSpent(rows, id, add) \in Tables
           /\ \A other \in Ids :
                 /\ SamePermit(BumpSpent(rows, id, add)[other], rows[other])
                 /\ rows[other] # NoRow =>
                       BumpSpent(rows, id, add)[other].locked = rows[other].locked
<1>1. CASE rows[id] = NoRow
  BY <1>1 DEF BumpSpent, SamePermit
<1>2. CASE rows[id] # NoRow
  <2> DEFINE new == [rows[id] EXCEPT !.spent = @ + add]
  <2>1. rows[id] \in Authorization
    BY <1>2 DEF Tables
  <2>2. /\ new \in Authorization /\ new # NoRow
        /\ new.amount = rows[id].amount /\ new.expiration = rows[id].expiration
        /\ new.sig = rows[id].sig /\ new.locked = rows[id].locked
    <3>1. new \in Authorization
      BY <2>1 DEF Authorization
    <3> QED
      BY <2>1, <3>1, RowAssumption DEF Authorization
  <2>3. BumpSpent(rows, id, add) = [rows EXCEPT ![id] = new]
    BY <1>2 DEF BumpSpent
  <2> HIDE DEF new
  <2>4. [rows EXCEPT ![id] = new] \in Tables
    BY <2>2 DEF Tables
  <2>5. \A other \in Ids :
          [rows EXCEPT ![id] = new][other] = IF other = id THEN new ELSE rows[other]
    BY DEF Tables
  <2> QED
    BY <1>2, <2>2, <2>3, <2>4, <2>5 DEF SamePermit
<1> QED
  BY <1>1, <1>2

LEMMA MarkLockedEffect ==
    ASSUME rows \in Tables, NEW owner, NEW agent, NEW token
    PROVE  LET after == MarkLocked(rows, owner, agent, token)
           IN  /\ after \in Tables
               /\ \A id \in Ids :
                     /\ SamePermit(after[id], rows[id])
                     /\ rows[id] # NoRow =>
                           after[id].locked = (rows[id].locked \/ Locks(id, owner, agent, token))
<1> DEFINE after == MarkLocked(rows, owner, agent, token)
<1> SUFFICES ASSUME NEW id \in Ids
             PROVE  /\ after[id] \in Authorization \cup {NoRow}
                    /\ SamePermit(after[id], rows[id])
                    /\ rows[id] # NoRow =>
                          after[id].locked = (rows[id].locked \/ Locks(id, owner, agent, token))
  BY DEF MarkLocked, Tables
<1>1. after[id] = IF rows[id] # NoRow /\ Locks(id, owner, agent, token)
                  THEN [rows[id] EXCEPT !.locked = TRUE] ELSE rows[id]
  BY DEF MarkLocked
<1>2. rows[id] # NoRow => rows[id] \in Authorization
  BY DEF Tables
<1>3. CASE rows[id] # NoRow /\ Locks(id, owner, agent, token)
  <2>1. /\ after[id] \in Authorization
        /\ after[id].amount = rows[id].amount /\ after[id].expiration = rows[id].expiration
        /\ after[id].sig = rows[id].sig /\ after[id].locked = TRUE
    BY <1>1, <1>2, <1>3 DEF Authorization
  <2> QED
    BY <2>1, <1>3, RowAssumption DEF SamePermit
<1>4. CASE ~(rows[id] # NoRow /\ Locks(id, owner, agent, token))
  <2>1. after[id] = rows[id]
    BY <1>1, <1>4
  <2>2. rows[id] # NoRow => rows[id].locked \in BOOLEAN
    BY <1>2 DEF Authorization
  <2>3. rows[id] # NoRow => ~Locks(id, owner, agent, token)
    BY <1>4
  <2> QED
    BY <1>2, <2>1, <2>2, <2>3, Zenon DEF SamePermit
<1> QED
  BY <1>3, <1>4

-----------------------------------------------------------------------------
(* Types.                                                                  *)

\* What a tick under way holds: blocks of its range, which starts after the
\* watermark, with the logs of the phase it is in.
TickReads ==
    tick.at # "idle" =>
        /\ tick.from = watermark + 1 /\ tick.from <= tick.to
        /\ tick.logs \subseteq tick.from..tick.to
        /\ tick.at = "permit2" =>
              \A b \in tick.logs : blocks[b].log \in PermitLogs \cup LockdownLogs
        /\ tick.at = "transfers" => \A b \in tick.logs : blocks[b].log \in TransferLogs

TInv == TypeOK /\ TickReads

Blocks == [tx: Txs \cup {NoTx}, ok: BOOLEAN, log: Logs \cup {NoLog}]

LEMMA InitTypes == Init => TInv
<1> SUFFICES ASSUME Init PROVE TInv
  OBVIOUS
<1> USE DEF Init
<1>1. EnvTypeOK /\ head = 1
  <2>1. Genesis \in Blocks
    BY DEF Genesis, Blocks
  <2>2. blocks \in Seq(Blocks) /\ Len(blocks) = 1
    BY <2>1 DEF EnvInit
  <2>3. allowance \in [Triples -> [amount: Nat, expiration: Nat, nonce: Nat]]
    BY DEF EnvInit
  <2> QED
    BY <2>2, <2>3, EnvironmentAssumption DEF EnvInit, EnvTypeOK, head, Blocks
<1>2. AuthTypeOK
  BY <1>1 DEF AuthInit, AuthTypeOK, Tables
<1>3. SpendTypeOK
  BY DEF SpendInit, SpendTypeOK
<1>4. LoopTypeOK
  BY <1>1, LoopAssumption DEF LoopInit, LoopTypeOK, Idle, Ticks
<1>5. TickReads
  BY DEF LoopInit, Idle, TickReads
<1> QED
  BY <1>1, <1>2, <1>3, <1>4, <1>5 DEF TInv, TypeOK

\* The chain only grows.
Grows ==
    /\ head' \in Nat /\ head' >= head
    /\ \A b \in 1..head : blocks'[b] = blocks[b]

LEMMA AppendGrows ==
    ASSUME EnvTypeOK, NEW b \in Blocks, blocks' = Append(blocks, b)
    PROVE  Grows /\ blocks' \in Seq(Blocks) /\ head' = head + 1
<1>1. blocks \in Seq(Blocks)
  BY DEF EnvTypeOK, Blocks
<1> QED
  BY <1>1 DEF Grows, head

LEMMA SameGrows ==
    ASSUME EnvTypeOK, UNCHANGED blocks
    PROVE  Grows /\ blocks' \in Seq(Blocks) /\ head' = head
  BY DEF Grows, EnvTypeOK, head, Blocks

LEMMA PermitTyped ==
    ASSUME EnvTypeOK, NEW id \in Ids, NEW amount \in Nat, NEW expiration \in Nat
    PROVE  /\ Triple(id) \in Triples
           /\ PermitLog(id, amount, expiration) \in PermitLogs
           /\ AfterPermit(id, amount, expiration)
                 \in [Triples -> [amount: Nat, expiration: Nat, nonce: Nat]]
<1>1. Triple(id) \in Triples
  BY DEF Triple, Triples, Ids
<1>2. id.nonce + 1 \in Nat
  <2>1. id.nonce \in Nonces
    BY DEF Ids
  <2>2. id.nonce \in Nat
    BY <2>1, EnvironmentAssumption
  <2> QED
    BY <2>2
<1> QED
  BY <1>1, <1>2 DEF PermitLog, PermitLogs, AfterPermit, EnvTypeOK

LEMMA EnvStepTypes ==
    ASSUME EnvTypeOK, EnvNext
    PROVE  EnvTypeOK' /\ Grows
<1>1. ASSUME NEW funded \in BOOLEAN, Mine(funded) PROVE EnvTypeOK' /\ Grows
  <2>1. PICK e \in pool :
            /\ e.nonce = acctNonce
            /\ LET tx == e.tx
                   ok == Succeeds(tx) /\ (tx.kind = "transfer" => funded)
               IN  /\ blocks' = Append(blocks,
                        [tx |-> tx, ok |-> ok,
                         log |-> IF ~ok THEN NoLog
                                 ELSE IF tx.kind = "permit"
                                      THEN PermitLog(tx.id, tx.amount, tx.expiration)
                                      ELSE TransferLog(tx)])
                   /\ allowance' =
                        IF ~ok THEN allowance
                        ELSE IF tx.kind = "permit"
                             THEN AfterPermit(tx.id, tx.amount, tx.expiration)
                             ELSE [allowance EXCEPT ![Triple(tx.id)].amount = @ - tx.amount]
            /\ pool' = pool \ {e}
            /\ acctNonce' = acctNonce + 1
            /\ UNCHANGED <<clock, credited>>
    BY <1>1 DEF Mine
  <2> DEFINE tx == e.tx
             ok == Succeeds(tx) /\ (tx.kind = "transfer" => funded)
             log == IF ~ok THEN NoLog
                    ELSE IF tx.kind = "permit"
                         THEN PermitLog(tx.id, tx.amount, tx.expiration)
                         ELSE TransferLog(tx)
  <2>2. tx \in Txs
    BY DEF EnvTypeOK
  <2>3. ok \in BOOLEAN
    BY DEF Succeeds, PermitOK, Permits, TransferOK
  <2>4. /\ log \in Logs \cup {NoLog}
        /\ allowance' \in [Triples -> [amount: Nat, expiration: Nat, nonce: Nat]]
    <3>1. CASE ~ok
      BY <2>1, <3>1 DEF EnvTypeOK
    <3>2. CASE ok /\ tx \in PermitTxs
      <4>1. /\ tx.kind = "permit"
            /\ tx.id \in Ids /\ tx.amount \in Nat /\ tx.expiration \in Nat
        BY <3>2 DEF PermitTxs
      <4>2. /\ log = PermitLog(tx.id, tx.amount, tx.expiration)
            /\ allowance' = AfterPermit(tx.id, tx.amount, tx.expiration)
        BY <2>1, <3>2, <4>1
      <4> QED
        BY <4>1, <4>2, PermitTyped DEF Logs
    <3>3. CASE ok /\ tx \in TransferTxs
      <4>1. tx.kind = "transfer" /\ tx.id \in Ids /\ tx.amount \in Nat
        BY <3>3 DEF TransferTxs
      <4>2. /\ log = TransferLog(tx)
            /\ allowance' = [allowance EXCEPT ![Triple(tx.id)].amount = @ - tx.amount]
        BY <2>1, <3>3, <4>1
      <4>3. TransferLog(tx) \in TransferLogs
        BY <3>3, <4>1 DEF TransferLog, TransferLogs
      <4>4. Triple(tx.id) \in Triples
        BY <4>1 DEF Triple, Triples, Ids
      <4>5. tx.amount <= allowance[Triple(tx.id)].amount
        BY <3>3, <4>1 DEF Succeeds, TransferOK
      <4>6. allowance' \in [Triples -> [amount: Nat, expiration: Nat, nonce: Nat]]
        <5>1. allowance[Triple(tx.id)] \in [amount: Nat, expiration: Nat, nonce: Nat]
          BY <4>4 DEF EnvTypeOK
        <5>2. allowance[Triple(tx.id)].amount - tx.amount \in Nat
          BY <4>1, <4>5, <5>1
        <5>3. [allowance[Triple(tx.id)] EXCEPT !.amount = @ - tx.amount]
                 \in [amount: Nat, expiration: Nat, nonce: Nat]
          BY <5>1, <5>2
        <5> QED
          BY <4>2, <4>4, <5>3 DEF EnvTypeOK
      <4> QED
        BY <4>2, <4>3, <4>6 DEF Logs
    <3> QED
      BY <2>2, <3>1, <3>2, <3>3 DEF Txs
  <2>5. blocks' = Append(blocks, [tx |-> tx, ok |-> ok, log |-> log])
    BY <2>1
  <2> HIDE DEF ok, log, tx
  <2>6. [tx |-> tx, ok |-> ok, log |-> log] \in Blocks
    BY <2>2, <2>3, <2>4 DEF Blocks
  <2>7. Grows /\ blocks' \in Seq(Blocks) /\ head' = head + 1
    BY <2>5, <2>6, AppendGrows
  <2> QED
    BY <2>1, <2>4, <2>7 DEF EnvTypeOK, Blocks, head
<1>2. ASSUME NEW s \in Signatures, ForeignPermit(s) PROVE EnvTypeOK' /\ Grows
  <2> DEFINE id == [owner |-> s.signer, agent |-> s.agent, token |-> s.token, nonce |-> s.nonce]
             b == [tx |-> NoTx, ok |-> TRUE, log |-> PermitLog(id, s.amount, s.expiration)]
  <2>1. id \in Ids /\ s.amount \in Nat /\ s.expiration \in Nat
    BY EnvironmentAssumption DEF Ids
  <2>2. /\ allowance' = AfterPermit(id, s.amount, s.expiration)
        /\ blocks' = Append(blocks, b)
        /\ UNCHANGED <<clock, acctNonce, pool, credited>>
    BY <1>2 DEF ForeignPermit
  <2> HIDE DEF id
  <2>3. /\ PermitLog(id, s.amount, s.expiration) \in PermitLogs
        /\ allowance' \in [Triples -> [amount: Nat, expiration: Nat, nonce: Nat]]
    BY <2>1, <2>2, PermitTyped
  <2>4. b \in Blocks
    BY <2>3 DEF Blocks, Logs
  <2> HIDE DEF b
  <2>5. Grows /\ blocks' \in Seq(Blocks) /\ head' = head + 1
    BY <2>2, <2>4, AppendGrows
  <2> QED
    BY <2>2, <2>3, <2>5 DEF EnvTypeOK, Blocks, head
<1>3. ASSUME NEW triple \in Triples, NEW topics \in LockdownTopics, Lockdown(triple, topics)
      PROVE  EnvTypeOK' /\ Grows
  <2> DEFINE b == [tx |-> NoTx, ok |-> TRUE, log |-> LockdownLog(triple, topics)]
  <2>1. b \in Blocks
    BY EnvironmentAssumption DEF Blocks, Logs, LockdownLog, LockdownLogs
  <2>2. /\ allowance' = [allowance EXCEPT ![triple].amount = 0]
        /\ blocks' = Append(blocks, b)
        /\ UNCHANGED <<clock, acctNonce, pool, credited>>
    BY <1>3 DEF Lockdown
  <2> HIDE DEF b
  <2>3. allowance' \in [Triples -> [amount: Nat, expiration: Nat, nonce: Nat]]
    BY <2>2 DEF EnvTypeOK
  <2>4. Grows /\ blocks' \in Seq(Blocks) /\ head' = head + 1
    BY <2>1, <2>2, AppendGrows
  <2> QED
    BY <2>2, <2>3, <2>4 DEF EnvTypeOK, Blocks, head
<1>4. CASE AdvanceClock
  BY <1>4, EnvironmentAssumption, SameGrows DEF AdvanceClock, EnvTypeOK, head
<1> QED
  BY <1>1, <1>2, <1>3, <1>4 DEF EnvNext

LEMMA KeepsLoop ==
    ASSUME TInv, Grows, UNCHANGED loopVars
    PROVE  LoopTypeOK' /\ TickReads'
<1> USE DEF TInv, TypeOK, LoopTypeOK, loopVars
<1>1. head \in Nat
  BY DEF EnvTypeOK, head
<1>2. LoopTypeOK'
  <2>1. 0..head \subseteq 0..head' /\ 1..head \subseteq 1..head'
    BY <1>1 DEF Grows
  <2>2. tick'.to <= head'
    BY <1>1 DEF Grows, Ticks
  <2> QED
    BY <2>1, <2>2
<1>3. ASSUME tick.at # "idle", NEW b \in tick.logs PROVE blocks'[b] = blocks[b]
  <2>1. b \in 1..head
    BY <1>1, <1>3 DEF TickReads, Ticks
  <2> QED
    BY <2>1 DEF Grows
<1>4. TickReads'
  BY <1>3 DEF TickReads
<1> QED
  BY <1>2, <1>4

LEMMA KeepsAuth ==
    ASSUME TInv, Grows, rows' \in Tables, UNCHANGED authHead
    PROVE  AuthTypeOK'
<1>1. head \in Nat /\ head' \in Nat /\ head <= head'
  BY DEF TInv, TypeOK, EnvTypeOK, head, Grows
<1>2. 0..head \subseteq 0..head'
  BY <1>1
<1> QED
  BY <1>2 DEF TInv, TypeOK, AuthTypeOK

LEMMA KeepsEnv ==
    ASSUME TInv, UNCHANGED <<clock, chainVars>>, credited' \subseteq TransferTxs
    PROVE  EnvTypeOK' /\ Grows
<1>1. Grows /\ head' = head
  BY SameGrows DEF TInv, TypeOK, chainVars
<1> QED
  BY <1>1 DEF TInv, TypeOK, EnvTypeOK, chainVars

\* The row VerifyAndCache stores for accepted parameters and signature.
Submitted(p, s) ==
    [amount |-> p.amount, expiration |-> p.expiration, sig |-> s, spent |-> 0,
     revoked |-> FALSE, locked |-> FALSE, created |-> clock]

LEMMA SubmittedTyped ==
    ASSUME TInv, NEW p \in Params, NEW s \in Signatures
    PROVE  Submitted(p, s) \in Authorization
<1>1. clock \in Nat
  BY EnvironmentAssumption DEF TInv, TypeOK, EnvTypeOK
<1> QED
  BY <1>1, AuthorizerAssumption DEF Submitted, Authorization

LEMMA AuthStepTypes ==
    ASSUME TInv, AuthNext
    PROVE  AuthTypeOK'
<1>1. PICK p \in Params, s \in Signatures, owner \in Owners, agent \in Agents :
          VerifyAndCache(p, s, owner, agent)
  BY DEF AuthNext
<1> DEFINE id == [owner |-> owner, agent |-> p.agent, token |-> p.token, nonce |-> p.nonce]
<1>2. id \in Ids
  BY AuthorizerAssumption DEF Ids
<1>3. /\ rows' = Upsert(rows, id, Submitted(p, s))
      /\ authHead' = [authHead EXCEPT ![id] = head]
      /\ UNCHANGED envVars
  BY <1>1 DEF VerifyAndCache, Submitted
<1> HIDE DEF id
<1>4. rows \in Tables /\ authHead \in [Ids -> 0..head]
  BY DEF TInv, TypeOK, AuthTypeOK
<1>5. rows' \in Tables
  BY <1>2, <1>3, <1>4, SubmittedTyped, UpsertEffect
<1>6. head \in Nat /\ head' = head
  BY <1>3 DEF TInv, TypeOK, EnvTypeOK, head, envVars
<1>7. authHead' \in [Ids -> 0..head]
  BY <1>2, <1>3, <1>4, <1>6
<1> QED
  BY <1>5, <1>6, <1>7 DEF AuthTypeOK

-----------------------------------------------------------------------------
(* The steps of a Spend.                                                   *)

\* A running call goes on.
LEMMA MoveTypes ==
    ASSUME SpendTypeOK, NEW c \in Spends, pc[c] # "idle",
           NEW where \in Running \cup Returned, Goto(c, where),
           UNCHANGED job, acct' \in [Spends -> Nat]
    PROVE  SpendTypeOK'
<1>1. pc' \in [Spends -> {"idle"} \cup Running \cup Returned]
  BY DEF SpendTypeOK, Goto
<1>2. ASSUME NEW d \in Spends, pc'[d] # "idle" PROVE job'[d] \in Jobs
  BY <1>2 DEF SpendTypeOK, Goto
<1> QED
  BY <1>1, <1>2 DEF SpendTypeOK

LEMMA TxTyped ==
    ASSUME SpendTypeOK, NEW c \in Spends, pc[c] # "idle"
    PROVE  /\ job[c] \in Jobs
           /\ PermitTx(c) \in PermitTxs
           /\ TransferTx(c) \in TransferTxs
<1>1. job[c] \in Jobs
  BY DEF SpendTypeOK
<1>2. job[c].atoms \in Nat
  BY <1>1, SpenderAssumption DEF Jobs
<1> QED
  BY <1>1, <1>2 DEF Jobs, PermitTx, EncodePermitCall, PermitTxs, TransferTx,
                    EncodeTransferFromCall, TransferTxs

SpendTyped == EnvTypeOK' /\ Grows /\ rows' \in Tables /\ authHead' = authHead /\ SpendTypeOK'

LEMMA QuietTypes ==
    ASSUME TInv, SpendTypeOK', UNCHANGED <<envVars, authVars>>
    PROVE  SpendTyped
<1>1. EnvTypeOK' /\ Grows
  BY KeepsEnv DEF TInv, TypeOK, EnvTypeOK, envVars, chainVars
<1> QED
  BY <1>1 DEF SpendTyped, TInv, TypeOK, AuthTypeOK, authVars

LEMMA BuildTypes ==
    ASSUME TInv, NEW c \in Spends, NEW here, NEW tx, NEW next \in Running,
           here # "idle", Build(c, here, tx, next)
    PROVE  SpendTyped
<1>1. PICK n \in acctNonce..(acctNonce + Cardinality(pool)) :
          acct' = [acct EXCEPT ![c] = n]
  BY DEF Build
<1>2. n \in Nat
  BY <1>1 DEF TInv, TypeOK, EnvTypeOK
<1>3. acct' \in [Spends -> Nat]
  BY <1>1, <1>2 DEF TInv, TypeOK, SpendTypeOK
<1>4. PICK where \in {next, "failed"} : Goto(c, where)
  BY DEF Build
<1>5. where \in Running \cup Returned
  BY DEF Returned
<1>6. SpendTypeOK'
  BY <1>3, <1>4, <1>5, MoveTypes DEF Build, TInv, TypeOK
<1> QED
  BY <1>6, QuietTypes DEF Build

LEMMA SendTypes ==
    ASSUME TInv, NEW c \in Spends, NEW here, NEW tx \in Txs, NEW next \in Running,
           here # "idle", Send(c, here, tx, next)
    PROVE  SpendTyped
<1>1. PICK where \in {next, "failed"} : Goto(c, where)
  BY DEF Send
<1>2. where \in Running \cup Returned
  BY DEF Returned
<1>3. acct' = acct /\ job' = job /\ authVars' = authVars
  BY DEF Send
<1>4. SpendTypeOK'
  BY <1>1, <1>2, <1>3, MoveTypes DEF Send, TInv, TypeOK, SpendTypeOK
<1>5. pool' \subseteq [nonce: Nat, tx: Txs]
  BY DEF Send, TInv, TypeOK, EnvTypeOK, SpendTypeOK
<1>6. Grows /\ head' = head
  BY SameGrows DEF Send, TInv, TypeOK
<1>7. EnvTypeOK'
  BY <1>5, <1>6 DEF Send, TInv, TypeOK, EnvTypeOK
<1> QED
  BY <1>3, <1>4, <1>6, <1>7 DEF SpendTyped, TInv, TypeOK, AuthTypeOK, authVars

LEMMA ReceiptTypes ==
    ASSUME TInv, NEW c \in Spends, NEW here, NEW tx, NEW next \in Running,
           here # "idle", Receipt(c, here, tx, next)
    PROVE  SpendTyped
<1>1. PICK where \in {next, "failed"} : Goto(c, where)
  BY DEF Receipt
<1>2. where \in Running \cup Returned
  BY DEF Returned
<1>3. SpendTypeOK'
  BY <1>1, <1>2, MoveTypes DEF Receipt, TInv, TypeOK, SpendTypeOK
<1> QED
  BY <1>3, QuietTypes DEF Receipt

LEMMA BeginTypes ==
    ASSUME TInv, NEW c \in Spends, NEW atoms \in Amounts, Begin(c, atoms)
    PROVE  SpendTyped
<1>1. PICK id \in ActiveForAgent(rows, Agent, clock) \ Errors :
          job' = [job EXCEPT ![c] =
              [id |-> id, amount |-> rows[id].amount, expiration |-> rows[id].expiration,
               sig |-> rows[id].sig, atoms |-> atoms, now |-> clock]]
  BY DEF Begin
<1>2. id \in Ids /\ rows[id] # NoRow /\ rows[id].sig # NoSig
  BY ActiveForAgentAnswers
<1>3. rows[id] \in Authorization
  BY <1>2 DEF TInv, TypeOK, AuthTypeOK, Tables
<1>4. clock \in Nat
  BY EnvironmentAssumption DEF TInv, TypeOK, EnvTypeOK
<1> DEFINE new == [id |-> id, amount |-> rows[id].amount, expiration |-> rows[id].expiration,
                   sig |-> rows[id].sig, atoms |-> atoms, now |-> clock]
<1>5. new \in Jobs
  BY <1>2, <1>3, <1>4 DEF Authorization, Jobs
<1>6. job' = [job EXCEPT ![c] = new]
  BY <1>1
<1> HIDE DEF new
<1>7. /\ pc' = [pc EXCEPT ![c] = "allowance"]
      /\ acct' = acct /\ UNCHANGED <<envVars, authVars>>
  BY DEF Begin, Goto
<1>8. SpendTypeOK'
  <2>1. pc' \in [Spends -> {"idle"} \cup Running \cup Returned]
    BY <1>7 DEF TInv, TypeOK, SpendTypeOK, Running
  <2>2. job' \in [Spends -> Jobs \cup {NoJob}]
    BY <1>5, <1>6 DEF TInv, TypeOK, SpendTypeOK
  <2>3. ASSUME NEW d \in Spends, pc'[d] # "idle" PROVE job'[d] \in Jobs
    BY <1>5, <1>6, <1>7, <2>3 DEF TInv, TypeOK, SpendTypeOK
  <2> QED
    BY <1>7, <2>1, <2>2, <2>3 DEF TInv, TypeOK, SpendTypeOK
<1> QED
  BY <1>7, <1>8, QuietTypes

LEMMA SpendNextTypes ==
    ASSUME TInv, SpendNext
    PROVE  SpendTyped
<1>1. PICK c \in Spends :
          \/ \E atoms \in Amounts : Begin(c, atoms)
          \/ SpendStep(c)
          \/ Fail(c)
  BY DEF SpendNext
<1> USE DEF Running, Returned
<1>2. SpendTypeOK /\ acct \in [Spends -> Nat]
  BY DEF TInv, TypeOK, SpendTypeOK
<1>3. CASE \E atoms \in Amounts : Begin(c, atoms)
  BY <1>3, BeginTypes
<1>4. ASSUME NEW answered \in BOOLEAN, CheckAllowance(c, answered) PROVE SpendTyped
  <2>1. PICK where \in {"transfer", "permit"} : Goto(c, where)
    BY <1>4 DEF CheckAllowance
  <2>2. SpendTypeOK'
    BY <1>2, <1>4, <2>1, MoveTypes DEF CheckAllowance
  <2> QED
    BY <1>4, <2>2, QuietTypes DEF CheckAllowance
<1>5. CASE \/ Build(c, "permit", PermitTx(c), "permit_send")
           \/ Build(c, "transfer", TransferTx(c), "transfer_send")
  BY <1>5, BuildTypes
<1>6. CASE \/ Send(c, "permit_send", PermitTx(c), "permit_wait")
           \/ Send(c, "transfer_send", TransferTx(c), "transfer_wait")
  <2>1. PermitTx(c) \in Txs /\ TransferTx(c) \in Txs
    BY <1>2, <1>6, TxTyped DEF Send, Txs
  <2>2. CASE Send(c, "permit_send", PermitTx(c), "permit_wait")
    BY <2>1, <2>2, SendTypes DEF Waiting
  <2>3. CASE Send(c, "transfer_send", TransferTx(c), "transfer_wait")
    BY <2>1, <2>3, SendTypes DEF Waiting
  <2> QED
    BY <1>6, <2>2, <2>3
<1>7. CASE \/ Receipt(c, "permit_wait", PermitTx(c), "transfer")
           \/ Receipt(c, "transfer_wait", TransferTx(c), "bump")
  BY <1>7, ReceiptTypes
<1>8. CASE ReceiptTimeout(c) \/ Fail(c)
  <2>1. SpendTypeOK'
    BY <1>2, <1>8, MoveTypes DEF ReceiptTimeout, Fail, Waiting
  <2> QED
    BY <1>8, <2>1, QuietTypes DEF ReceiptTimeout, Fail
<1>9. CASE Bump(c)
  <2>1. pc[c] # "idle" /\ Goto(c, "credit") /\ job' = job /\ acct' = acct
    BY <1>9 DEF Bump
  <2>2. SpendTypeOK'
    BY <1>2, <2>1, MoveTypes
  <2>3. job[c].id \in Ids /\ job[c].atoms \in Nat
    <3>1. job[c] \in Jobs
      BY <1>2, <2>1, TxTyped
    <3> QED
      BY <3>1, SpenderAssumption DEF Jobs
  <2>4. rows' \in Tables
    BY <1>9, <2>3, BumpSpentEffect DEF Bump, TInv, TypeOK, AuthTypeOK
  <2>5. EnvTypeOK' /\ Grows
    BY <1>9, KeepsEnv DEF Bump, TInv, TypeOK, EnvTypeOK, envVars, chainVars
  <2> QED
    BY <1>9, <2>2, <2>4, <2>5 DEF Bump, SpendTyped
<1>10. ASSUME NEW ok \in BOOLEAN, Credit(c, ok) PROVE SpendTyped
  <2>1. pc[c] # "idle" /\ Goto(c, "done") /\ job' = job /\ acct' = acct
    BY <1>10 DEF Credit
  <2>2. SpendTypeOK'
    BY <1>2, <2>1, MoveTypes
  <2>3. TransferTx(c) \in TransferTxs
    BY <1>2, <2>1, TxTyped
  <2>4. credited' \subseteq TransferTxs
    BY <1>10, <2>3 DEF Credit, TInv, TypeOK, EnvTypeOK
  <2>5. EnvTypeOK' /\ Grows
    BY <1>10, <2>4, KeepsEnv DEF Credit
  <2> QED
    BY <1>10, <2>2, <2>5 DEF Credit, SpendTyped, TInv, TypeOK, AuthTypeOK, authVars
<1> QED
  BY <1>1, <1>3, <1>4, <1>5, <1>6, <1>7, <1>8, <1>9, <1>10 DEF SpendStep

-----------------------------------------------------------------------------
(* The steps of a tick.                                                    *)

LoopTyped ==
    EnvTypeOK' /\ Grows /\ rows' \in Tables /\ authHead' = authHead
        /\ LoopTypeOK' /\ TickReads'

\* The row an observed Permit of block b stores.
Observed(log, b) ==
    [amount |-> log.amount, expiration |-> log.expiration, sig |-> NoSig,
     spent |-> 0, revoked |-> FALSE, locked |-> FALSE, created |-> b]

LEMMA AppliedCases ==
    ASSUME NEW log, NEW b
    PROVE  \/ log.id.agent \notin OurAgents /\ Applied(log, b) = rows
           \/ Undecodable(log) /\ Applied(log, b) = rows
           \/ /\ log.id.agent \in OurAgents /\ log.event = "Permit"
              /\ Applied(log, b) = Upsert(rows, log.id, Observed(log, b))
           \/ /\ log.id.agent \in OurAgents /\ log.event # "Permit"
              /\ Applied(log, b) = MarkLocked(rows, log.id.owner, log.id.agent, log.id.token)
  BY DEF Applied, Observed

LEMMA ObservedTyped ==
    ASSUME NEW log \in PermitLogs, NEW b \in Nat
    PROVE  log.id \in Ids /\ Observed(log, b) \in Authorization
  BY DEF PermitLogs, Observed, Authorization

LEMMA AppliedTyped ==
    ASSUME rows \in Tables, NEW b \in Nat, NEW log \in PermitLogs \cup LockdownLogs
    PROVE  Applied(log, b) \in Tables
<1>1. CASE log.event = "Permit"
  <2>1. log \in PermitLogs
    BY <1>1 DEF LockdownLogs
  <2> QED
    BY <1>1, <2>1, AppliedCases, ObservedTyped, UpsertEffect
<1>2. CASE log.event # "Permit"
  BY <1>2, AppliedCases, MarkLockedEffect
<1> QED
  BY <1>1, <1>2

\* A tick's blocks are blocks of the chain.
LEMMA TickBlocks ==
    ASSUME TInv, tick.at # "idle", NEW b \in tick.logs
    PROVE  b \in 1..head /\ b > watermark
  BY DEF TInv, TypeOK, EnvTypeOK, LoopTypeOK, TickReads, Ticks, head

LEMMA FilterTyped ==
    ASSUME EnvTypeOK, NEW from \in Nat \ {0}, NEW to \in Nat, to <= head, NEW events
    PROVE  /\ FilterLogs(events, from, to) \subseteq from..to
           /\ FilterLogs(events, from, to) \in SUBSET Nat
           /\ \A b \in FilterLogs(events, from, to) :
                 blocks[b].log \in Logs /\ blocks[b].log.event \in events
<1>1. ASSUME NEW b \in FilterLogs(events, from, to)
      PROVE  /\ b \in from..to /\ blocks[b].log \in Logs
             /\ blocks[b].log.event \in events
  <2>1. b \in from..to /\ blocks[b].log # NoLog /\ blocks[b].log.event \in events
    BY <1>1 DEF FilterLogs
  <2>2. b \in 1..Len(blocks)
    <3>1. Len(blocks) \in Nat /\ to <= Len(blocks)
      BY DEF head, EnvTypeOK
    <3> QED
      BY <2>1, <3>1
  <2>3. blocks \in Seq(Blocks)
    BY DEF EnvTypeOK, Blocks
  <2>4. blocks[b] \in Blocks
    BY <2>2, <2>3
  <2> QED
    BY <2>1, <2>4 DEF Blocks
<1> QED
  BY <1>1

LEMMA KindOfLog ==
    ASSUME NEW log \in Logs
    PROVE  /\ log.event \in {"Permit", "Lockdown"} => log \in PermitLogs \cup LockdownLogs
           /\ log.event \in {"Transfer"} => log \in TransferLogs
  BY DEF Logs, PermitLogs, LockdownLogs, TransferLogs

\* What applyTransfer does for the log of block b, with or without a ledger.
TransferApplied(b) ==
    /\ tick' = [tick EXCEPT !.logs = @ \ {b}]
    /\ credited' = credited \/ credited' = credited \cup {blocks[b].log.tx}
    /\ \/ rows' = rows
       \/ \E id \in Ids : rows' = BumpSpent(rows, id, blocks[b].log.amount)

LEMMA TransferCases ==
    ASSUME NEW booked \in BOOLEAN, NEW bumped \in BOOLEAN, ApplyTransfer(booked, bumped)
    PROVE  \E b \in tick.logs : TransferApplied(b)
<1>1. PICK b \in tick.logs :
        \E answer \in ActiveForOwner(rows, blocks[b].log.id.owner, blocks[b].log.id.token, MaxInt64) :
            /\ tick' = [tick EXCEPT !.logs = @ \ {b}]
            /\ credited' = credited \/ credited' = credited \cup {blocks[b].log.tx}
            /\ \/ rows' = rows
               \/ /\ answer \notin Errors
                  /\ rows' = BumpSpent(rows, answer, blocks[b].log.amount)
  BY DEF ApplyTransfer
<1> QED
  BY <1>1, ActiveForOwnerAnswers DEF TransferApplied

LEMMA LoopNextTypes ==
    ASSUME TInv, LoopNext
    PROVE  LoopTyped
<1> USE DEF TInv, TypeOK
<1>0. /\ head \in Nat /\ head >= 1 /\ head = Len(blocks)
      /\ watermark \in Nat /\ watermark <= head
      /\ rows \in Tables
  BY DEF EnvTypeOK, LoopTypeOK, AuthTypeOK, head
<1>1. ASSUME UNCHANGED envVars PROVE EnvTypeOK' /\ Grows /\ head' = head /\ blocks' = blocks
  <2>1. EnvTypeOK' /\ Grows
    BY <1>1, KeepsEnv DEF EnvTypeOK, envVars, chainVars
  <2> QED
    BY <1>1, <2>1 DEF envVars, head
<1>2. CASE TickStart
  <2> DEFINE wm == IF watermark = 0 THEN SeedBlock ELSE watermark
             from == FirstBlock(wm)
             to == LastBlock(from)
             logs == FilterLogs({"Permit", "Lockdown"}, from, to)
  <2>1. /\ watermark' = wm
        /\ origin' = IF watermark = 0 THEN wm ELSE origin
        /\ tick' = IF wm >= head THEN Idle
                   ELSE [at |-> "permit2", from |-> from, to |-> to, logs |-> logs]
        /\ UNCHANGED <<envVars, authVars, faults, seen, skipped>>
    BY <1>2 DEF TickStart
  <2>2. wm \in Nat /\ wm <= head
    BY <1>0, LoopAssumption DEF SeedBlock
  <2> HIDE DEF wm
  <2>3. from \in Nat \ {0} /\ from = wm + 1
    BY <2>2 DEF FirstBlock
  <2> HIDE DEF from
  <2>4. wm < head => to \in Nat /\ to <= head /\ from <= to
    BY <1>0, <2>2, <2>3, LoopAssumption DEF LastBlock
  <2> HIDE DEF to
  <2>5. ASSUME wm < head
        PROVE  /\ logs \subseteq from..to /\ logs \in SUBSET Nat
               /\ \A b \in logs : blocks[b].log \in PermitLogs \cup LockdownLogs
    BY <2>3, <2>4, <2>5, FilterTyped, KindOfLog
  <2> HIDE DEF logs
  <2>6. EnvTypeOK' /\ Grows /\ head' = head /\ blocks' = blocks
    BY <1>1, <2>1
  <2>7. LoopTypeOK'
    <3>1. tick' \in Ticks /\ tick'.to <= head'
      <4>1. CASE wm >= head
        BY <1>0, <2>1, <2>6, <4>1 DEF Idle, Ticks
      <4>2. CASE wm < head
        <5>1. tick' = [at |-> "permit2", from |-> from, to |-> to, logs |-> logs]
          BY <1>0, <2>1, <2>2, <4>2
        <5> QED
          BY <2>3, <2>4, <2>5, <2>6, <4>2, <5>1 DEF Ticks
      <4> QED
        BY <1>0, <2>2, <4>1, <4>2
    <3>2. watermark' \in 0..head'
      BY <1>0, <2>1, <2>2, <2>6
    <3>3. origin' \in 0..watermark'
      <4>1. CASE watermark = 0
        BY <2>1, <2>2, <4>1
      <4>2. CASE watermark # 0
        BY <2>1, <4>2 DEF LoopTypeOK, wm
      <4> QED
        BY <4>1, <4>2
    <3> QED
      BY <2>1, <2>6, <3>1, <3>2, <3>3 DEF LoopTypeOK
  <2>8. TickReads'
    <3>1. CASE wm >= head
      BY <2>1, <3>1 DEF Idle, TickReads
    <3>2. CASE wm < head
      <4>1. tick' = [at |-> "permit2", from |-> from, to |-> to, logs |-> logs]
        BY <1>0, <2>1, <2>2, <3>2
      <4> QED
        BY <2>1, <2>3, <2>4, <2>5, <2>6, <3>2, <4>1 DEF TickReads
    <3> QED
      BY <1>0, <2>2, <3>1, <3>2
  <2> QED
    BY <1>0, <2>1, <2>6, <2>7, <2>8 DEF LoopTyped, authVars
<1>3. ASSUME NEW stored \in BOOLEAN, ApplyPermit2(stored) PROVE LoopTyped
  <2>1. PICK b \in tick.logs :
            /\ rows' = IF stored THEN Applied(blocks[b].log, b) ELSE rows
            /\ seen' = IF b > seen THEN b ELSE seen
            /\ skipped' = IF stored THEN skipped \ {b} ELSE skipped \cup {b}
            /\ tick' = [tick EXCEPT !.logs = @ \ {b}]
    BY <1>3 DEF ApplyPermit2
  <2>2. /\ tick.at = "permit2"
        /\ faults' = IF stored THEN faults ELSE faults + 1
        /\ stored \/ faults < MaxFaults
        /\ UNCHANGED <<envVars, authHead, watermark, origin>>
    BY <1>3 DEF ApplyPermit2
  <2>3. b \in 1..head
    BY <2>2, TickBlocks
  <2>4. EnvTypeOK' /\ Grows /\ head' = head /\ blocks' = blocks
    BY <1>1, <2>2
  <2>5. blocks[b].log \in PermitLogs \cup LockdownLogs
    BY <2>2 DEF TickReads
  <2>6. rows' \in Tables
    BY <1>0, <2>1, <2>3, <2>5, AppliedTyped
  <2>7. /\ tick' \in Ticks /\ tick'.at = tick.at /\ tick'.from = tick.from
        /\ tick'.to = tick.to /\ tick'.logs \subseteq tick.logs
    BY <2>1 DEF LoopTypeOK, Ticks
  <2>8. LoopTypeOK'
    BY <1>0, <2>1, <2>2, <2>3, <2>4, <2>7, LoopAssumption DEF LoopTypeOK
  <2>9. TickReads'
    BY <2>2, <2>4, <2>7 DEF TickReads
  <2> QED
    BY <2>2, <2>4, <2>6, <2>8, <2>9 DEF LoopTyped
<1>4. ASSUME NEW answered \in BOOLEAN, FilterTransfers(answered) PROVE LoopTyped
  <2> DEFINE found == FilterLogs({"Transfer"}, tick.from, tick.to)
  <2>1. /\ tick.at = "permit2"
        /\ tick' = [tick EXCEPT !.at = "transfers", !.logs = IF answered THEN found ELSE {}]
        /\ UNCHANGED <<envVars, authVars, watermark, faults, origin, seen, skipped>>
    BY <1>4 DEF FilterTransfers
  <2>2. /\ tick.from = watermark + 1 /\ tick.from \in Nat \ {0}
        /\ tick.to \in Nat /\ tick.to <= head
    BY <1>0, <2>1 DEF TickReads, LoopTypeOK, Ticks
  <2>3. /\ found \subseteq tick.from..tick.to /\ found \in SUBSET Nat
        /\ \A b \in found : blocks[b].log \in TransferLogs
    BY <2>2, FilterTyped, KindOfLog
  <2> HIDE DEF found
  <2>4. /\ tick' \in Ticks /\ tick'.at = "transfers" /\ tick'.from = tick.from
        /\ tick'.to = tick.to /\ tick'.logs \in {found, {}}
    BY <2>1, <2>3 DEF LoopTypeOK, Ticks
  <2>5. EnvTypeOK' /\ Grows /\ head' = head /\ blocks' = blocks
    BY <1>1, <2>1
  <2>6. LoopTypeOK'
    BY <2>1, <2>2, <2>4, <2>5 DEF LoopTypeOK
  <2>7. TickReads'
    BY <2>1, <2>2, <2>3, <2>4, <2>5 DEF TickReads
  <2> QED
    BY <1>0, <2>1, <2>5, <2>6, <2>7 DEF LoopTyped, authVars
<1>5. ASSUME NEW booked \in BOOLEAN, NEW bumped \in BOOLEAN, ApplyTransfer(booked, bumped)
      PROVE  LoopTyped
  <2>1. PICK b \in tick.logs : TransferApplied(b)
    BY <1>5, TransferCases
  <2>2. /\ tick.at = "transfers"
        /\ UNCHANGED <<clock, chainVars, authHead, watermark, faults, origin, seen, skipped>>
    BY <1>5 DEF ApplyTransfer
  <2>3. blocks[b].log \in TransferLogs
    BY <2>2 DEF TickReads
  <2>4. credited' \subseteq TransferTxs
    BY <2>1, <2>3 DEF TransferApplied, EnvTypeOK, TransferLogs
  <2>5. EnvTypeOK' /\ Grows
    BY <2>2, <2>4, KeepsEnv
  <2>6. head' = head /\ blocks' = blocks
    BY <2>2 DEF head, chainVars
  <2>7. rows' \in Tables
    <3>1. blocks[b].log.amount \in Nat
      BY <2>3 DEF TransferLogs
    <3> QED
      BY <1>0, <2>1, <3>1, BumpSpentEffect DEF TransferApplied
  <2>8. /\ tick' \in Ticks /\ tick'.at = tick.at /\ tick'.from = tick.from
        /\ tick'.to = tick.to /\ tick'.logs \subseteq tick.logs
    BY <2>1 DEF TransferApplied, LoopTypeOK, Ticks
  <2>9. LoopTypeOK'
    BY <2>2, <2>6, <2>8 DEF LoopTypeOK
  <2>10. TickReads'
    BY <2>2, <2>6, <2>8 DEF TickReads
  <2> QED
    BY <2>2, <2>5, <2>7, <2>9, <2>10 DEF LoopTyped
<1>6. CASE CommitWatermark \/ TickAbort
  <2>1. /\ tick' = Idle
        /\ UNCHANGED <<envVars, authVars, origin, seen, skipped>>
        /\ \/ faults' = faults
           \/ faults < MaxFaults /\ faults' = faults + 1
    BY <1>6 DEF CommitWatermark, TickAbort
  <2>2. watermark' \in 0..head /\ watermark' >= watermark
    <3>1. CASE CommitWatermark
      <4>1. tick.at = "transfers" /\ watermark' = tick.to
        BY <3>1 DEF CommitWatermark
      <4> QED
        BY <1>0, <4>1 DEF LoopTypeOK, Ticks, TickReads
    <3>2. CASE TickAbort
      BY <1>0, <3>2 DEF TickAbort
    <3> QED
      BY <1>6, <3>1, <3>2
  <2>3. EnvTypeOK' /\ Grows /\ head' = head
    BY <1>1, <2>1
  <2>4. Idle \in Ticks /\ Idle.to = 0 /\ Idle.at = "idle"
    BY DEF Idle, Ticks
  <2>5. LoopTypeOK'
    BY <1>0, <2>1, <2>2, <2>3, <2>4, LoopAssumption DEF LoopTypeOK
  <2>6. TickReads'
    BY <2>1, <2>4 DEF TickReads
  <2> QED
    BY <1>0, <2>1, <2>3, <2>5, <2>6 DEF LoopTyped, authVars
<1> QED
  BY <1>2, <1>3, <1>4, <1>5, <1>6 DEF LoopNext, LoopStep

LEMMA TypeStep == TInv /\ [Next]_vars => TInv'
<1> SUFFICES ASSUME TInv, [Next]_vars PROVE TInv'
  OBVIOUS
<1>0. rows \in Tables
  BY DEF TInv, TypeOK, AuthTypeOK
<1>1. CASE UNCHANGED vars
  <2>1. UNCHANGED <<envVars, authVars, spendVars, loopVars>>
    BY <1>1 DEF vars
  <2>2. SpendTypeOK'
    BY <2>1 DEF TInv, TypeOK, SpendTypeOK, spendVars
  <2>3. EnvTypeOK' /\ Grows
    BY <2>1, <2>2, QuietTypes DEF SpendTyped
  <2>4. AuthTypeOK' /\ LoopTypeOK' /\ TickReads'
    BY <1>0, <2>1, <2>3, KeepsAuth, KeepsLoop DEF authVars
  <2> QED
    BY <2>2, <2>3, <2>4 DEF TInv, TypeOK
<1>2. CASE EnvNext /\ UNCHANGED <<authVars, spendVars, loopVars>>
  <2>1. EnvTypeOK' /\ Grows
    BY <1>2, EnvStepTypes DEF TInv, TypeOK
  <2>2. AuthTypeOK' /\ LoopTypeOK' /\ TickReads'
    BY <1>0, <1>2, <2>1, KeepsAuth, KeepsLoop DEF authVars
  <2>3. SpendTypeOK'
    BY <1>2 DEF TInv, TypeOK, SpendTypeOK, spendVars
  <2> QED
    BY <2>1, <2>2, <2>3 DEF TInv, TypeOK
<1>3. CASE AuthNext /\ UNCHANGED <<spendVars, loopVars>>
  <2>1. UNCHANGED envVars
    BY <1>3 DEF AuthNext, VerifyAndCache
  <2>2. EnvTypeOK' /\ Grows
    BY <2>1, KeepsEnv DEF TInv, TypeOK, EnvTypeOK, envVars, chainVars
  <2>3. AuthTypeOK' /\ LoopTypeOK' /\ TickReads'
    BY <1>3, <2>2, AuthStepTypes, KeepsLoop
  <2>4. SpendTypeOK'
    BY <1>3 DEF TInv, TypeOK, SpendTypeOK, spendVars
  <2> QED
    BY <2>2, <2>3, <2>4 DEF TInv, TypeOK
<1>4. CASE Spending
  <2>1. SpendTyped /\ UNCHANGED loopVars
    BY <1>4, SpendNextTypes DEF Spending
  <2>2. AuthTypeOK' /\ LoopTypeOK' /\ TickReads'
    BY <2>1, KeepsAuth, KeepsLoop DEF SpendTyped
  <2> QED
    BY <2>1, <2>2 DEF SpendTyped, TInv, TypeOK
<1>5. CASE Watching
  <2>1. LoopTyped /\ UNCHANGED spendVars
    BY <1>5, LoopNextTypes DEF Watching
  <2>2. AuthTypeOK'
    BY <2>1, KeepsAuth DEF LoopTyped
  <2>3. SpendTypeOK'
    BY <2>1 DEF TInv, TypeOK, SpendTypeOK, spendVars
  <2> QED
    BY <2>1, <2>2, <2>3 DEF LoopTyped, TInv, TypeOK
<1> QED
  BY <1>1, <1>2, <1>3, <1>4, <1>5 DEF Next, Environs

\* Every value of the wallet's and the chain's state keeps its type: the cached
\* rows stay rows, an allowance never goes below zero, the watermark never
\* passes the head of the chain and no tick reads beyond it (listener.go, Tick;
\* store.go; spend.go).
THEOREM TypeCorrect == Spec => []TypeOK
<1>1. TInv => TypeOK
  BY DEF TInv
<1> QED
  BY <1>1, InitTypes, TypeStep, PTL DEF Spec

-----------------------------------------------------------------------------
(* What a step does to one row.                                            *)

\* The permit, and the lock if there is one, stay.
Kept(id) ==
    /\ SamePermit(rows'[id], rows[id])
    /\ rows[id] # NoRow /\ rows[id].locked => rows'[id].locked
    /\ authHead'[id] = authHead[id]

\* A verified submission.
Resigned(id) ==
    /\ rows'[id] # NoRow
    /\ Permits(id, rows'[id].amount, rows'[id].expiration, rows'[id].sig)
    /\ authHead'[id] = head

\* An observed Permit.
Blanked(id) ==
    /\ rows'[id] # NoRow /\ rows'[id].sig = NoSig
    /\ tick.at = "permit2"
    /\ \E b \in tick.logs :
          /\ blocks[b].log.event = "Permit" /\ blocks[b].log.id = id
          /\ rows'[id].amount = blocks[b].log.amount
          /\ rows'[id].expiration = blocks[b].log.expiration

RowStep(id) == Kept(id) \/ Resigned(id) \/ Blanked(id)

LEMMA SameRows ==
    ASSUME UNCHANGED authVars, NEW id
    PROVE  Kept(id)
  BY DEF authVars, Kept, SamePermit

LEMMA BumpedRows ==
    ASSUME TInv, NEW bumpId \in Ids, NEW add \in Nat, NEW id \in Ids,
           rows' = BumpSpent(rows, bumpId, add), authHead' = authHead
    PROVE  Kept(id)
<1>1. rows \in Tables
  BY DEF TInv, TypeOK, AuthTypeOK
<1>2. /\ SamePermit(rows'[id], rows[id])
      /\ rows[id] # NoRow => rows'[id].locked = rows[id].locked
  BY <1>1, BumpSpentEffect
<1> QED
  BY <1>2 DEF Kept

LEMMA AuthRowStep ==
    ASSUME TInv, AuthNext, NEW row \in Ids
    PROVE  RowStep(row)
<1>1. PICK p \in Params, s \in Signatures, owner \in Owners, agent \in Agents :
          VerifyAndCache(p, s, owner, agent)
  BY DEF AuthNext
<1> DEFINE id == [owner |-> owner, agent |-> p.agent, token |-> p.token, nonce |-> p.nonce]
<1>2. id \in Ids
  BY AuthorizerAssumption DEF Ids
<1>3. /\ rows' = Upsert(rows, id, Submitted(p, s))
      /\ authHead' = [authHead EXCEPT ![id] = head]
  BY <1>1 DEF VerifyAndCache, Submitted
<1>4. BuildPermit2TypedData(p) = BuildPermit2TypedData(s) /\ s.signer = owner
  BY <1>1, AuthorizerAssumption DEF VerifyAndCache, RecoverTypedDataSigner
<1>5. Permits(id, p.amount, p.expiration, s)
  BY <1>4 DEF BuildPermit2TypedData, Permits
<1> HIDE DEF id
<1>6. /\ rows'[id].amount = p.amount /\ rows'[id].expiration = p.expiration
      /\ rows'[id].sig = s /\ rows'[id] # NoRow
      /\ \A other \in Ids \ {id} : rows'[other] = rows[other]
  <2>1. rows \in Tables
    BY DEF TInv, TypeOK, AuthTypeOK
  <2>2. /\ rows'[id] \in Authorization
        /\ rows'[id].amount = Submitted(p, s).amount
        /\ rows'[id].expiration = Submitted(p, s).expiration
        /\ rows'[id].sig = Submitted(p, s).sig
        /\ \A other \in Ids \ {id} : rows'[other] = rows[other]
    BY <1>2, <1>3, <2>1, SubmittedTyped, UpsertEffect
  <2> QED
    BY <2>2, RowAssumption DEF Submitted
<1>7. authHead \in [Ids -> 0..head]
  BY DEF TInv, TypeOK, AuthTypeOK
<1>8. CASE row = id
  BY <1>2, <1>3, <1>5, <1>6, <1>7, <1>8 DEF RowStep, Resigned
<1>9. CASE row # id
  <2>1. rows'[row] = rows[row] /\ authHead'[row] = authHead[row]
    BY <1>3, <1>6, <1>7, <1>9
  <2> QED
    BY <2>1 DEF RowStep, Kept, SamePermit
<1> QED
  BY <1>8, <1>9

LEMMA SpendRowStep ==
    ASSUME TInv, SpendNext, NEW id \in Ids
    PROVE  RowStep(id)
<1>1. PICK c \in Spends : UNCHANGED authVars \/ Bump(c)
  BY DEF SpendNext, SpendStep, Begin, CheckAllowance, Build, Send, Receipt,
         ReceiptTimeout, Credit, Fail
<1>2. CASE UNCHANGED authVars
  BY <1>2, SameRows DEF RowStep
<1>3. CASE Bump(c)
  <2>1. pc[c] # "idle" /\ SpendTypeOK
    BY <1>3 DEF Bump, TInv, TypeOK
  <2>2. job[c] \in Jobs
    BY <2>1, TxTyped
  <2>3. job[c].id \in Ids /\ job[c].atoms \in Nat
    BY <2>2, SpenderAssumption DEF Jobs
  <2> QED
    BY <1>3, <2>3, BumpedRows DEF Bump, RowStep
<1> QED
  BY <1>1, <1>2, <1>3

LEMMA AppliedRowStep ==
    ASSUME TInv, tick.at = "permit2", NEW b \in tick.logs, NEW id \in Ids,
           rows' = Applied(blocks[b].log, b), authHead' = authHead
    PROVE  /\ RowStep(id)
           /\ (/\ blocks[b].log.event = "Lockdown" /\ blocks[b].log.topics = 4
               /\ blocks[b].log.id = Triple(id)
               /\ id.agent \in OurAgents /\ rows'[id] # NoRow) => rows'[id].locked
           /\ (/\ blocks[b].log.event = "Permit" /\ blocks[b].log.id = id
               /\ id.agent \in OurAgents)
                 => /\ rows'[id] # NoRow
                    /\ rows'[id].amount = blocks[b].log.amount
                    /\ rows'[id].expiration = blocks[b].log.expiration
<1> DEFINE log == blocks[b].log
<1>0. /\ rows \in Tables /\ b \in Nat
      /\ log \in PermitLogs \cup LockdownLogs
  <2>1. b \in 1..head
    BY TickBlocks
  <2> QED
    BY <2>1 DEF TInv, TypeOK, AuthTypeOK, TickReads
<1> HIDE DEF log
<1> SUFFICES /\ RowStep(id)
             /\ (/\ log.event = "Lockdown" /\ log.topics = 4 /\ log.id = Triple(id)
                 /\ id.agent \in OurAgents /\ rows'[id] # NoRow) => rows'[id].locked
             /\ (log.event = "Permit" /\ log.id = id /\ id.agent \in OurAgents)
                   => /\ rows'[id] # NoRow
                      /\ rows'[id].amount = log.amount
                      /\ rows'[id].expiration = log.expiration
  BY DEF log
<1>1. rows' = Applied(log, b)
  BY DEF log
<1>2. CASE log.id.agent \notin OurAgents /\ rows' = rows
  <2>1. log.id = Triple(id) => log.id.agent = id.agent
    BY DEF Triple
  <2> QED
    BY <1>2, <2>1 DEF RowStep, Kept, SamePermit
<1>3. CASE Undecodable(log) /\ rows' = rows
  <2>1. log.event = "Lockdown" /\ log.topics # 4
    BY <1>3 DEF Undecodable, DecodeLockdown
  <2> QED
    BY <1>3, <2>1 DEF RowStep, Kept, SamePermit
<1>4. CASE log.event = "Permit" /\ rows' = Upsert(rows, log.id, Observed(log, b))
  <2>1. log \in PermitLogs
    BY <1>0, <1>4 DEF LockdownLogs
  <2>2. log.id \in Ids /\ Observed(log, b) \in Authorization
    BY <1>0, <2>1, ObservedTyped
  <2>3. /\ rows'[log.id] \in Authorization
        /\ rows'[log.id].sig = Observed(log, b).sig
        /\ rows'[log.id].amount = Observed(log, b).amount
        /\ rows'[log.id].expiration = Observed(log, b).expiration
        /\ \A other \in Ids \ {log.id} : rows'[other] = rows[other]
    BY <1>0, <1>4, <2>2, UpsertEffect
  <2>4. /\ rows'[log.id] # NoRow /\ rows'[log.id].sig = NoSig
        /\ rows'[log.id].amount = log.amount
        /\ rows'[log.id].expiration = log.expiration
    BY <2>3, RowAssumption DEF Observed
  <2>5. CASE id = log.id
    <3>1. Blanked(id)
      BY <1>4, <2>4, <2>5 DEF Blanked, log
    <3> QED
      BY <1>4, <2>4, <2>5, <3>1 DEF RowStep
  <2>6. CASE id # log.id
    <3>1. rows'[id] = rows[id]
      BY <2>3, <2>6
    <3> QED
      BY <1>4, <2>6, <3>1 DEF RowStep, Kept, SamePermit
  <2> QED
    BY <2>5, <2>6
<1>5. CASE log.event # "Permit"
           /\ rows' = MarkLocked(rows, log.id.owner, log.id.agent, log.id.token)
  <2>1. /\ SamePermit(rows'[id], rows[id])
        /\ rows[id] # NoRow =>
              rows'[id].locked =
                 (rows[id].locked \/ Locks(id, log.id.owner, log.id.agent, log.id.token))
    BY <1>0, <1>5, MarkLockedEffect
  <2>2. rows[id] # NoRow => rows[id].locked \in BOOLEAN
    BY <1>0 DEF Tables, Authorization
  <2>3. Kept(id)
    BY <2>1, <2>2 DEF Kept
  <2>4. log.id = Triple(id) => Locks(id, log.id.owner, log.id.agent, log.id.token)
    BY DEF Triple, Locks
  <2> QED
    BY <1>5, <2>1, <2>3, <2>4 DEF RowStep, SamePermit
<1> QED
  BY <1>1, <1>2, <1>3, <1>4, <1>5, AppliedCases

LEMMA LoopRowStep ==
    ASSUME TInv, LoopNext, NEW id \in Ids
    PROVE  RowStep(id)
<1>1. CASE UNCHANGED authVars
  BY <1>1, SameRows DEF RowStep
<1>2. ASSUME NEW stored \in BOOLEAN, ApplyPermit2(stored) PROVE RowStep(id)
  <2>1. PICK b \in tick.logs : rows' = IF stored THEN Applied(blocks[b].log, b) ELSE rows
    BY <1>2 DEF ApplyPermit2
  <2>2. tick.at = "permit2" /\ authHead' = authHead
    BY <1>2 DEF ApplyPermit2
  <2>3. CASE stored
    BY <2>1, <2>2, <2>3, AppliedRowStep
  <2>4. CASE ~stored
    BY <2>1, <2>2, <2>4, SameRows DEF authVars, RowStep
  <2> QED
    BY <2>3, <2>4
<1>3. ASSUME NEW booked \in BOOLEAN, NEW bumped \in BOOLEAN, ApplyTransfer(booked, bumped)
      PROVE  RowStep(id)
  <2>1. PICK b \in tick.logs : TransferApplied(b)
    BY <1>3, TransferCases
  <2>2. tick.at = "transfers" /\ authHead' = authHead
    BY <1>3 DEF ApplyTransfer
  <2>3. CASE rows' = rows
    BY <2>2, <2>3, SameRows DEF authVars, RowStep
  <2>4. CASE \E other \in Ids : rows' = BumpSpent(rows, other, blocks[b].log.amount)
    <3>1. blocks[b].log.amount \in Nat
      BY <2>2 DEF TInv, TickReads, TransferLogs
    <3> QED
      BY <2>2, <2>4, <3>1, BumpedRows DEF RowStep
  <2> QED
    BY <2>1, <2>3, <2>4 DEF TransferApplied
<1> QED
  BY <1>1, <1>2, <1>3
     DEF LoopNext, LoopStep, TickStart, FilterTransfers, CommitWatermark, TickAbort

LEMMA RowSteps ==
    ASSUME TInv, Next, NEW id \in Ids
    PROVE  RowStep(id)
<1>1. CASE UNCHANGED authVars
  BY <1>1, SameRows DEF RowStep
<1> QED
  BY <1>1, AuthRowStep, SpendRowStep, LoopRowStep DEF Next, Environs, Spending, Watching

-----------------------------------------------------------------------------
(* What is cached, copied and submitted was signed.                        *)

\* The copy a Spend works on was signed: the link between the row it was taken
\* from and the permit() it submits later, when the row may have changed.
JobsSigned ==
    \A c \in Spends :
        pc[c] # "idle" =>
            Permits(job[c].id, job[c].amount, job[c].expiration, job[c].sig)

SInv == TInv /\ CachedPermitIsSigned /\ JobsSigned /\ SubmittedPermitIsSigned

LEMMA InitSigned == Init => SInv
<1> SUFFICES ASSUME Init PROVE SInv
  OBVIOUS
<1>1. CachedPermitIsSigned
  BY DEF Init, AuthInit, CachedPermitIsSigned
<1>2. JobsSigned
  BY DEF Init, SpendInit, JobsSigned
<1>3. SubmittedPermitIsSigned
  BY DEF Init, EnvInit, SubmittedPermitIsSigned
<1> QED
  BY <1>1, <1>2, <1>3, InitTypes DEF SInv

LEMMA CachedStep ==
    ASSUME SInv, Next
    PROVE  CachedPermitIsSigned'
<1> SUFFICES ASSUME NEW id \in Ids, rows'[id] # NoRow, rows'[id].sig # NoSig
             PROVE  Permits(id, rows'[id].amount, rows'[id].expiration, rows'[id].sig)
  BY DEF CachedPermitIsSigned, Permits
<1>1. Kept(id) \/ Resigned(id)
  BY RowSteps DEF SInv, RowStep, Blanked
<1>2. CASE Kept(id)
  <2>1. /\ rows[id] # NoRow /\ rows'[id].amount = rows[id].amount
        /\ rows'[id].expiration = rows[id].expiration /\ rows'[id].sig = rows[id].sig
    BY <1>2 DEF Kept, SamePermit
  <2> QED
    BY <2>1 DEF SInv, CachedPermitIsSigned, Permits
<1>3. CASE Resigned(id)
  BY <1>3 DEF Resigned
<1> QED
  BY <1>1, <1>2, <1>3

\* A running call keeps its copy and sends only what it was made from.
SendsItsOwn(c) ==
    /\ job' = job
    /\ pc[c] # "idle"
    /\ \A d \in Spends \ {c} : pc'[d] = pc[d]
    /\ \/ pool' = pool
       \/ \E n : pool' \subseteq pool \cup {[nonce |-> n, tx |-> PermitTx(c)]}
       \/ \E n : pool' \subseteq pool \cup {[nonce |-> n, tx |-> TransferTx(c)]}

LEMMA SpendSteps ==
    ASSUME TInv, SpendNext
    PROVE  \E c \in Spends : (\E atoms \in Amounts : Begin(c, atoms)) \/ SendsItsOwn(c)
<1>1. PICK c \in Spends :
          \/ \E atoms \in Amounts : Begin(c, atoms)
          \/ SpendStep(c)
          \/ Fail(c)
  BY DEF SpendNext
<1>2. pc \in [Spends -> {"idle"} \cup Running \cup Returned]
  BY DEF TInv, TypeOK, SpendTypeOK
<1> USE DEF Goto, SendsItsOwn, envVars
<1>3. CASE \E answered \in BOOLEAN : CheckAllowance(c, answered)
  BY <1>2, <1>3 DEF CheckAllowance
<1>4. CASE \/ Build(c, "permit", PermitTx(c), "permit_send")
           \/ Build(c, "transfer", TransferTx(c), "transfer_send")
  BY <1>2, <1>4 DEF Build
<1>5. CASE Send(c, "permit_send", PermitTx(c), "permit_wait")
  <2>1. \/ pool' = pool
        \/ pool' \subseteq pool \cup {[nonce |-> acct[c], tx |-> PermitTx(c)]}
    BY <1>5 DEF Send
  <2>2. job' = job /\ pc[c] # "idle" /\ \A d \in Spends \ {c} : pc'[d] = pc[d]
    BY <1>2, <1>5 DEF Send
  <2> QED
    BY <2>1, <2>2
<1>6. CASE Send(c, "transfer_send", TransferTx(c), "transfer_wait")
  <2>1. \/ pool' = pool
        \/ pool' \subseteq pool \cup {[nonce |-> acct[c], tx |-> TransferTx(c)]}
    BY <1>6 DEF Send
  <2>2. job' = job /\ pc[c] # "idle" /\ \A d \in Spends \ {c} : pc'[d] = pc[d]
    BY <1>2, <1>6 DEF Send
  <2> QED
    BY <2>1, <2>2
<1>7. CASE \/ Receipt(c, "permit_wait", PermitTx(c), "transfer")
           \/ Receipt(c, "transfer_wait", TransferTx(c), "bump")
  BY <1>2, <1>7 DEF Receipt
<1>8. CASE ReceiptTimeout(c) \/ Fail(c)
  BY <1>2, <1>8 DEF ReceiptTimeout, Fail, Waiting, Running
<1>9. CASE Bump(c)
  BY <1>2, <1>9 DEF Bump
<1>10. CASE \E ok \in BOOLEAN : Credit(c, ok)
  BY <1>2, <1>10 DEF Credit, chainVars
<1> QED
  BY <1>1, <1>3, <1>4, <1>5, <1>6, <1>7, <1>8, <1>9, <1>10 DEF SpendStep

LEMMA SpendSigned ==
    ASSUME SInv, SpendNext
    PROVE  JobsSigned' /\ SubmittedPermitIsSigned'
<1>1. PICK c \in Spends : (\E atoms \in Amounts : Begin(c, atoms)) \/ SendsItsOwn(c)
  BY SpendSteps DEF SInv
<1>2. ASSUME NEW atoms \in Amounts, Begin(c, atoms)
      PROVE  JobsSigned' /\ SubmittedPermitIsSigned'
  <2>1. PICK id \in ActiveForAgent(rows, Agent, clock) \ Errors :
          job' = [job EXCEPT ![c] =
              [id |-> id, amount |-> rows[id].amount, expiration |-> rows[id].expiration,
               sig |-> rows[id].sig, atoms |-> atoms, now |-> clock]]
    BY <1>2 DEF Begin
  <2>2. id \in Ids /\ rows[id] # NoRow /\ rows[id].sig # NoSig
    BY ActiveForAgentAnswers
  <2>3. Permits(id, rows[id].amount, rows[id].expiration, rows[id].sig)
    BY <2>2 DEF SInv, CachedPermitIsSigned
  <2>4. pc' = [pc EXCEPT ![c] = "allowance"] /\ pool' = pool
    BY <1>2 DEF Begin, Goto, envVars
  <2>5. ASSUME NEW d \in Spends, pc'[d] # "idle"
        PROVE  Permits(job'[d].id, job'[d].amount, job'[d].expiration, job'[d].sig)
    <3>1. CASE d = c
      <4>1. /\ job'[d].id = id /\ job'[d].amount = rows[id].amount
            /\ job'[d].expiration = rows[id].expiration /\ job'[d].sig = rows[id].sig
        BY <2>1, <3>1 DEF SInv, TInv, TypeOK, SpendTypeOK
      <4> QED
        BY <2>3, <4>1
    <3>2. CASE d # c
      <4>1. job'[d] = job[d] /\ pc[d] # "idle"
        BY <2>1, <2>4, <2>5, <3>2 DEF SInv, TInv, TypeOK, SpendTypeOK
      <4> QED
        BY <4>1 DEF SInv, JobsSigned
    <3> QED
      BY <3>1, <3>2
  <2>6. JobsSigned'
    BY <2>5 DEF JobsSigned, Permits
  <2> QED
    BY <2>4, <2>6 DEF SInv, SubmittedPermitIsSigned, Permits
<1>3. CASE SendsItsOwn(c)
  <2>1. JobsSigned'
    BY <1>3 DEF SInv, SendsItsOwn, JobsSigned, Permits
  <2>2. Permits(job[c].id, job[c].amount, job[c].expiration, job[c].sig)
    BY <1>3 DEF SInv, SendsItsOwn, JobsSigned
  <2>3. ASSUME NEW e \in pool', e.tx.kind = "permit"
        PROVE  Permits(e.tx.id, e.tx.amount, e.tx.expiration, e.tx.sig)
    <3>1. e \in pool \/ e.tx = PermitTx(c) \/ e.tx = TransferTx(c)
      BY <1>3 DEF SendsItsOwn
    <3>2. CASE e \in pool
      BY <2>3, <3>2 DEF SInv, SubmittedPermitIsSigned
    <3>3. CASE e.tx = PermitTx(c)
      BY <2>2, <3>3 DEF PermitTx, EncodePermitCall
    <3>4. CASE e.tx = TransferTx(c)
      BY <2>3, <3>4 DEF TransferTx, EncodeTransferFromCall
    <3> QED
      BY <3>1, <3>2, <3>3, <3>4
  <2>4. SubmittedPermitIsSigned'
    BY <2>3 DEF SubmittedPermitIsSigned, Permits
  <2> QED
    BY <2>1, <2>4
<1> QED
  BY <1>1, <1>2, <1>3

LEMMA SignedStep == SInv /\ [Next]_vars => SInv'
<1> SUFFICES ASSUME SInv, [Next]_vars PROVE SInv'
  OBVIOUS
<1>1. TInv'
  BY TypeStep DEF SInv
<1>2. ASSUME UNCHANGED spendVars, pool' \subseteq pool
      PROVE  JobsSigned' /\ SubmittedPermitIsSigned'
  BY <1>2 DEF SInv, JobsSigned, SubmittedPermitIsSigned, spendVars, Permits
<1>3. CASE UNCHANGED vars
  <2>1. CachedPermitIsSigned'
    BY <1>3 DEF SInv, CachedPermitIsSigned, Permits, vars, authVars
  <2> QED
    BY <1>1, <1>2, <1>3, <2>1 DEF SInv, vars, envVars
<1>4. CASE Next
  <2>1. CachedPermitIsSigned'
    BY <1>4, CachedStep
  <2>2. CASE Environs
    <3>1. pool' \subseteq pool
      BY <2>2 DEF Environs, EnvNext, Mine, ForeignPermit, Lockdown, AdvanceClock,
                  AuthNext, VerifyAndCache, envVars
    <3> QED
      BY <1>1, <1>2, <2>1, <2>2, <3>1 DEF Environs, SInv
  <2>3. CASE Spending
    BY <1>1, <2>1, <2>3, SpendSigned DEF Spending, SInv
  <2>4. CASE Watching
    <3>1. pool' = pool
      BY <2>4 DEF Watching, LoopNext, LoopStep, TickStart, ApplyPermit2, FilterTransfers,
                  ApplyTransfer, CommitWatermark, TickAbort, envVars, chainVars
    <3> QED
      BY <1>1, <1>2, <2>1, <2>4, <3>1 DEF Watching, SInv
  <2> QED
    BY <1>4, <2>2, <2>3, <2>4 DEF Next
<1> QED
  BY <1>3, <1>4

\* A cached row with a signature is what its owner signed, after any mix of
\* submissions and observed Permits (authorize.go, VerifyAndCache; listener.go,
\* applyPermit2; store.go, Upsert).
THEOREM CachedIsSigned == Spec => []CachedPermitIsSigned
<1>1. SInv => CachedPermitIsSigned
  BY DEF SInv
<1> QED
  BY <1>1, InitSigned, SignedStep, PTL DEF Spec

\* A permit() in flight is what its owner signed, however many Spends run and
\* whatever happened to the row after it was copied (spend.go, Spend).
THEOREM SubmittedIsSigned == Spec => []SubmittedPermitIsSigned
<1>1. SInv => SubmittedPermitIsSigned
  BY DEF SInv
<1> QED
  BY <1>1, InitSigned, SignedStep, PTL DEF Spec

-----------------------------------------------------------------------------
(* What the loop has met.                                                  *)

\* A block in the hands of a tick has a log.
TickLogged == tick.at # "idle" => \A b \in tick.logs : blocks[b].log # NoLog

\* The tick's blocks still have their logs.
LEMMA TickLogs ==
    ASSUME TInv, TickLogged, [Next]_vars
    PROVE  TickLogged'
<1>0. EnvTypeOK /\ LoopTypeOK /\ TickReads /\ head \in Nat
  BY DEF TInv, TypeOK, EnvTypeOK, head
<1>1. ASSUME UNCHANGED loopVars, Grows PROVE TickLogged'
  <2> SUFFICES ASSUME tick.at # "idle", NEW b \in tick.logs PROVE blocks'[b].log # NoLog
    BY <1>1 DEF TickLogged, loopVars
  <2>1. b \in 1..head
    BY TickBlocks
  <2> QED
    BY <1>1, <2>1 DEF Grows, TickLogged
<1>2. CASE UNCHANGED vars
  BY <1>2 DEF vars, loopVars, envVars, TickLogged
<1>3. CASE Environs
  <2>1. Grows
    BY <1>0, <1>3, EnvStepTypes, SameGrows DEF Environs, AuthNext, VerifyAndCache, envVars
  <2> QED
    BY <1>1, <1>3, <2>1 DEF Environs
<1>4. CASE Spending
  BY <1>1, <1>4, SpendNextTypes DEF Spending, SpendTyped
<1>5. CASE Watching
  <2>0. LoopNext
    BY <1>5 DEF Watching
  <2>1. CASE TickStart
    BY <2>1 DEF TickStart, FilterLogs, Idle, TickLogged, envVars
  <2>2. ASSUME NEW stored \in BOOLEAN, ApplyPermit2(stored) PROVE TickLogged'
    <3>1. tick.at # "idle" /\ tick'.logs \subseteq tick.logs /\ blocks' = blocks
      BY <1>0, <2>2 DEF ApplyPermit2, envVars, LoopTypeOK, Ticks
    <3> QED
      BY <3>1 DEF TickLogged
  <2>3. ASSUME NEW answered \in BOOLEAN, FilterTransfers(answered) PROVE TickLogged'
    <3>1. tick'.logs \subseteq FilterLogs({"Transfer"}, tick.from, tick.to) /\ blocks' = blocks
      BY <1>0, <2>3 DEF FilterTransfers, envVars, LoopTypeOK, Ticks
    <3> QED
      BY <3>1 DEF TickLogged, FilterLogs
  <2>4. ASSUME NEW booked \in BOOLEAN, NEW bumped \in BOOLEAN, ApplyTransfer(booked, bumped)
        PROVE  TickLogged'
    <3>1. tick.at # "idle" /\ tick'.logs \subseteq tick.logs /\ blocks' = blocks
      BY <1>0, <2>4 DEF ApplyTransfer, chainVars, LoopTypeOK, Ticks
    <3> QED
      BY <3>1 DEF TickLogged
  <2>5. CASE CommitWatermark \/ TickAbort
    BY <2>5 DEF CommitWatermark, TickAbort, Idle, TickLogged
  <2> QED
    BY <2>0, <2>1, <2>2, <2>3, <2>4, <2>5 DEF LoopNext, LoopStep
<1> QED
  BY <1>2, <1>3, <1>4, <1>5 DEF Next

Permit2At(b) == blocks[b].log # NoLog /\ blocks[b].log.event \in {"Permit", "Lockdown"}

\* A tick has met every Permit2 log of its range that is not waiting in it.
TickCovers ==
    /\ tick.at = "permit2" =>
          \A b \in tick.from..tick.to : Permit2At(b) => b \in tick.logs \/ b <= seen
    /\ tick.at = "transfers" =>
          \A b \in tick.from..tick.to : Permit2At(b) => b <= seen

\* The step applies the log of block b.
Applies(b) ==
    /\ tick.at = "permit2" /\ b \in tick.logs
    /\ rows' = Applied(blocks[b].log, b) /\ authHead' = authHead

\* What the loop has met after a step it had met before, or the step applies it;
\* and the tick under way still covers its range.
MetBefore ==
    \A b \in (origin' + 1)..head' :
        Permit2At(b)' /\ Met(b)' =>
            /\ b \in (origin + 1)..head /\ blocks'[b] = blocks[b]
            /\ Met(b) \/ Applies(b)

\* The loop stands still.
LEMMA MetElsewhere ==
    ASSUME TInv, TickCovers, Grows, UNCHANGED loopVars
    PROVE  MetBefore /\ TickCovers'
<1>1. /\ head \in Nat /\ head' \in Nat /\ origin \in Nat
      /\ seen \in Nat /\ seen <= head /\ watermark \in Nat /\ watermark <= head
      /\ tick \in Ticks /\ tick.to <= head
  BY DEF TInv, TypeOK, EnvTypeOK, LoopTypeOK, head, Grows
<1>2. UNCHANGED <<watermark, tick, origin, seen, skipped>>
  BY DEF loopVars
<1>3. MetBefore
  <2> SUFFICES ASSUME NEW b \in (origin + 1)..head', Met(b)'
               PROVE  b \in (origin + 1)..head /\ blocks'[b] = blocks[b] /\ Met(b)
    BY <1>2 DEF MetBefore
  <2>1. b <= seen \/ b <= watermark
    BY <1>2 DEF Met
  <2>2. b \in (origin + 1)..head /\ b \in 1..head
    BY <1>1, <2>1
  <2>3. blocks'[b] = blocks[b]
    BY <2>2 DEF Grows
  <2> QED
    BY <1>2, <2>2, <2>3 DEF Met
<1>4. TickCovers'
  <2>1. ASSUME tick.at # "idle", NEW b \in tick.from..tick.to
        PROVE  Permit2At(b)' <=> Permit2At(b)
    <3>1. b \in 1..head
      BY <1>1, <2>1 DEF TInv, TickReads, Ticks
    <3> QED
      BY <3>1 DEF Permit2At, Grows
  <2> QED
    BY <1>2, <2>1 DEF TickCovers
<1> QED
  BY <1>3, <1>4

LEMMA MetWatched ==
    ASSUME TInv, TickCovers, LoopNext
    PROVE  MetBefore /\ TickCovers'
<1>0. /\ head \in Nat /\ head >= 1 /\ origin \in Nat /\ origin <= watermark
      /\ seen \in Nat /\ seen <= head /\ watermark \in Nat /\ watermark <= head
      /\ tick \in Ticks /\ tick.to <= head
  BY DEF TInv, TypeOK, EnvTypeOK, LoopTypeOK, head
<1>1. blocks' = blocks /\ head' = head
  BY DEF LoopNext, LoopStep, TickStart, ApplyPermit2, FilterTransfers, ApplyTransfer,
         CommitWatermark, TickAbort, envVars, chainVars, head
<1>2. \A b : Permit2At(b)' <=> Permit2At(b)
  BY <1>1 DEF Permit2At
\* It is enough to look at what the step has just met.
<1>3. ASSUME origin' \in Nat, origin' >= origin,
             \A b \in (origin' + 1)..head :
                 (Permit2At(b) /\ b \notin skipped' /\ (b <= seen' \/ b <= watermark'))
                     => (b \notin skipped /\ (b <= seen \/ b <= watermark)) \/ Applies(b)
      PROVE  MetBefore
  <2> SUFFICES ASSUME NEW b \in (origin' + 1)..head, Permit2At(b), Met(b)'
               PROVE  b \in (origin + 1)..head /\ (Met(b) \/ Applies(b))
    BY <1>1, <1>2 DEF MetBefore
  <2>1. \A o \in Nat : o >= origin => (o + 1)..head \subseteq (origin + 1)..head
    BY <1>0
  <2>2. b \in (origin + 1)..head
    BY <1>3, <2>1
  <2> QED
    BY <1>3, <2>2 DEF Met, Permit2At
<1>4. ASSUME UNCHANGED <<watermark, origin, seen, skipped>> PROVE MetBefore
  BY <1>0, <1>3, <1>4
<1>5. CASE TickStart
  <2> DEFINE wm == IF watermark = 0 THEN SeedBlock ELSE watermark
             from == FirstBlock(wm)
             to == LastBlock(from)
             logs == FilterLogs({"Permit", "Lockdown"}, from, to)
  <2>1. /\ watermark' = wm
        /\ origin' = IF watermark = 0 THEN wm ELSE origin
        /\ tick' = IF wm >= head THEN Idle
                   ELSE [at |-> "permit2", from |-> from, to |-> to, logs |-> logs]
        /\ seen' = seen /\ skipped' = skipped
    BY <1>5 DEF TickStart
  <2>2. wm \in Nat /\ (watermark # 0 => wm = watermark)
    BY <1>0, LoopAssumption DEF SeedBlock
  <2>3. ASSUME NEW b \in from..to, Permit2At(b) PROVE b \in logs
    BY <2>3 DEF Permit2At, FilterLogs
  <2> HIDE DEF wm, from, to, logs
  <2>4. MetBefore
    BY <1>0, <1>3, <2>1, <2>2
  <2>5. TickCovers'
    <3>1. CASE tick' = Idle
      BY <3>1 DEF Idle, TickCovers
    <3>2. CASE tick' = [at |-> "permit2", from |-> from, to |-> to, logs |-> logs]
      BY <1>2, <2>3, <3>2 DEF TickCovers
    <3> QED
      BY <2>1, <3>1, <3>2
  <2> QED
    BY <2>4, <2>5
<1>6. ASSUME NEW stored \in BOOLEAN, ApplyPermit2(stored) PROVE MetBefore /\ TickCovers'
  <2>1. PICK b \in tick.logs :
            /\ NextLog(b)
            /\ rows' = IF stored THEN Applied(blocks[b].log, b) ELSE rows
            /\ seen' = IF b > seen THEN b ELSE seen
            /\ skipped' = IF stored THEN skipped \ {b} ELSE skipped \cup {b}
            /\ tick' = [tick EXCEPT !.logs = @ \ {b}]
    BY <1>6 DEF ApplyPermit2
  <2>2. /\ tick.at = "permit2"
        /\ authHead' = authHead /\ watermark' = watermark /\ origin' = origin
    BY <1>6 DEF ApplyPermit2
  <2>3. b \in 1..head /\ b > watermark
    BY <2>2, TickBlocks
  <2>4. tick.from = watermark + 1 /\ tick.to \in Nat /\ b <= tick.to
    BY <1>0, <2>2, <2>3 DEF TInv, TickReads, Ticks
  <2>5. ASSUME NEW x \in (origin + 1)..head, Permit2At(x),
               x \notin skipped', x <= seen' \/ x <= watermark'
        PROVE  (x \notin skipped /\ (x <= seen \/ x <= watermark)) \/ Applies(x)
    <3>1. CASE x = b
      <4>1. stored /\ rows' = Applied(blocks[b].log, b)
        BY <2>1, <2>5, <3>1
      <4> QED
        BY <2>2, <3>1, <4>1 DEF Applies
    <3>2. CASE x # b
      <4>1. x \notin skipped
        BY <2>1, <2>5, <3>2
      <4>2. CASE x <= seen \/ x <= watermark
        BY <4>1, <4>2
      <4>3. CASE ~(x <= seen \/ x <= watermark)
        <5>1. x < b /\ x > watermark /\ x > seen
          BY <1>0, <2>1, <2>2, <2>3, <2>5, <3>2, <4>3
        <5>2. x \in tick.from..tick.to
          BY <1>0, <2>3, <2>4, <5>1
        <5>3. x \notin tick.logs
          BY <1>0, <2>1, <2>3, <5>1 DEF NextLog
        <5>4. x <= seen
          BY <2>2, <2>5, <5>2, <5>3 DEF TickCovers
        <5> QED
          BY <4>3, <5>4
      <4> QED
        BY <4>2, <4>3
    <3> QED
      BY <3>1, <3>2
  <2>6. MetBefore
    BY <1>0, <1>3, <2>2, <2>5
  <2>7. /\ tick'.at = tick.at /\ tick'.from = tick.from /\ tick'.to = tick.to
        /\ tick'.logs = tick.logs \ {b}
    BY <1>0, <2>1 DEF Ticks
  <2>8. b <= seen' /\ seen <= seen' /\ seen' \in Nat
    BY <1>0, <2>1, <2>3
  <2>9. ASSUME NEW x \in tick.from..tick.to, Permit2At(x)
        PROVE  x \in tick'.logs \/ x <= seen'
    <3>1. x \in tick.logs \/ x <= seen
      BY <2>2, <2>9 DEF TickCovers
    <3> QED
      BY <1>0, <2>4, <2>7, <2>8, <3>1
  <2>10. TickCovers'
    BY <1>2, <2>2, <2>7, <2>9 DEF TickCovers
  <2> QED
    BY <2>6, <2>10
<1>7. ASSUME NEW answered \in BOOLEAN, FilterTransfers(answered)
      PROVE  MetBefore /\ TickCovers'
  <2>1. /\ tick.at = "permit2" /\ tick.logs = {} /\ seen' = seen
        /\ tick'.at = "transfers" /\ tick'.from = tick.from /\ tick'.to = tick.to
    BY <1>0, <1>7 DEF FilterTransfers, Ticks
  <2>2. MetBefore
    BY <1>4, <1>7 DEF FilterTransfers
  <2>3. TickCovers'
    BY <1>2, <2>1 DEF TickCovers
  <2> QED
    BY <2>2, <2>3
<1>8. ASSUME NEW booked \in BOOLEAN, NEW bumped \in BOOLEAN, ApplyTransfer(booked, bumped)
      PROVE  MetBefore /\ TickCovers'
  <2>1. /\ tick.at = "transfers" /\ seen' = seen
        /\ tick'.at = tick.at /\ tick'.from = tick.from /\ tick'.to = tick.to
    BY <1>0, <1>8 DEF ApplyTransfer, Ticks
  <2>2. MetBefore
    BY <1>4, <1>8 DEF ApplyTransfer
  <2>3. TickCovers'
    BY <1>2, <2>1 DEF TickCovers
  <2> QED
    BY <2>2, <2>3
<1>9. CASE CommitWatermark
  <2>1. /\ tick.at = "transfers" /\ watermark' = tick.to /\ tick' = Idle
        /\ origin' = origin /\ seen' = seen /\ skipped' = skipped
    BY <1>9 DEF CommitWatermark
  <2>2. /\ tick.from = watermark + 1 /\ tick.to \in Nat
    BY <1>0, <2>1 DEF TInv, TickReads, Ticks
  <2>3. ASSUME NEW x \in (origin + 1)..head, Permit2At(x), x <= tick.to
        PROVE  x <= seen \/ x <= watermark
    <3>1. CASE x <= watermark
      BY <3>1
    <3>2. CASE x > watermark
      <4>1. x \in tick.from..tick.to
        BY <1>0, <2>2, <2>3, <3>2
      <4> QED
        BY <2>1, <2>3, <4>1 DEF TickCovers
    <3> QED
      BY <1>0, <3>1, <3>2
  <2>4. MetBefore
    BY <1>0, <1>3, <2>1, <2>3
  <2>5. TickCovers'
    BY <2>1 DEF Idle, TickCovers
  <2> QED
    BY <2>4, <2>5
<1>10. CASE TickAbort
  <2>1. MetBefore
    BY <1>4, <1>10 DEF TickAbort
  <2>2. TickCovers'
    BY <1>10 DEF TickAbort, Idle, TickCovers
  <2> QED
    BY <2>1, <2>2
<1> QED
  BY <1>5, <1>6, <1>7, <1>8, <1>9, <1>10 DEF LoopNext, LoopStep

\* What every step does to the rows, the chain and what the loop has met.
LEMMA MetStep ==
    ASSUME TInv, TickCovers, [Next]_vars
    PROVE  Grows /\ MetBefore /\ TickCovers' /\ \A id \in Ids : RowStep(id)
<1>1. CASE UNCHANGED vars
  <2>1. UNCHANGED <<blocks, authVars, loopVars>>
    BY <1>1 DEF vars, envVars
  <2>2. Grows
    BY <2>1, SameGrows DEF TInv, TypeOK
  <2>3. \A id \in Ids : RowStep(id)
    BY <2>1, SameRows DEF RowStep
  <2> QED
    BY <2>1, <2>2, <2>3, MetElsewhere
<1>2. CASE Next
  <2>1. \A id \in Ids : RowStep(id)
    BY <1>2, RowSteps
  <2>2. CASE Environs
    <3>1. Grows
      <4>1. CASE EnvNext
        BY <4>1, EnvStepTypes DEF TInv, TypeOK
      <4>2. CASE AuthNext
        BY <4>2, SameGrows DEF AuthNext, VerifyAndCache, envVars, TInv, TypeOK
      <4> QED
        BY <2>2, <4>1, <4>2 DEF Environs
    <3> QED
      BY <2>1, <2>2, <3>1, MetElsewhere DEF Environs
  <2>3. CASE Spending
    <3>1. Grows
      BY <2>3, SpendNextTypes DEF Spending, SpendTyped
    <3> QED
      BY <2>1, <2>3, <3>1, MetElsewhere DEF Spending
  <2>4. CASE Watching
    <3>1. Grows
      BY <2>4, LoopNextTypes DEF Watching, LoopTyped
    <3> QED
      BY <2>1, <2>4, <3>1, MetWatched DEF Watching
  <2> QED
    BY <1>2, <2>2, <2>3, <2>4 DEF Next
<1> QED
  BY <1>1, <1>2

-----------------------------------------------------------------------------
(* A Lockdown the loop has met and can decode holds.                       *)

LInv == TInv /\ TickCovers /\ LockdownHolds

LEMMA InitLockdown == Init => LInv
<1> SUFFICES ASSUME Init PROVE LInv
  OBVIOUS
<1>1. \A id \in Ids : ~Spendable(id)
  BY DEF Init, AuthInit, Spendable
<1>2. LockdownHolds
  BY <1>1 DEF LockdownHolds
<1>3. TickCovers
  BY DEF Init, LoopInit, Idle, TickCovers
<1> QED
  BY <1>2, <1>3, InitTypes DEF LInv

LEMMA LockdownStep == LInv /\ [Next]_vars => LInv'
<1> SUFFICES ASSUME LInv, [Next]_vars PROVE LInv'
  OBVIOUS
<1>1. TInv /\ TickCovers /\ TInv'
  BY TypeStep DEF LInv
<1>2. Grows /\ MetBefore /\ TickCovers' /\ \A id \in Ids : RowStep(id)
  BY <1>1, MetStep
<1>3. LockdownHolds'
  <2> SUFFICES ASSUME NEW b \in (origin' + 1)..head', NEW id \in Ids,
                      Met(b)', blocks'[b].log.event = "Lockdown",
                      blocks'[b].log.topics = 4, blocks'[b].log.id = Triple(id),
                      id.agent \in OurAgents, Spendable(id)'
               PROVE  authHead'[id] >= b
    BY DEF LockdownHolds, Triple
  <2>1. /\ b \in (origin + 1)..head /\ blocks'[b] = blocks[b]
        /\ Met(b) \/ Applies(b)
    BY <1>2 DEF MetBefore, Permit2At, Met
  <2>2. head \in Nat /\ origin \in Nat
    BY DEF LInv, TInv, TypeOK, EnvTypeOK, LoopTypeOK, head
  <2>3. CASE Applies(b)
    <3>1. rows'[id] # NoRow => rows'[id].locked
      BY <1>1, <2>1, <2>3, AppliedRowStep DEF Applies
    <3> QED
      BY <3>1 DEF Spendable
  <2>4. CASE Met(b) /\ Kept(id)
    <3>1. Spendable(id)
      BY <2>4 DEF Kept, SamePermit, Spendable
    <3>2. authHead[id] >= b
      BY <2>1, <2>4, <3>1 DEF LInv, LockdownHolds
    <3> QED
      BY <2>4, <3>2 DEF Kept
  <2>5. CASE Resigned(id)
    BY <2>1, <2>2, <2>5 DEF Resigned
  <2>6. CASE Blanked(id)
    BY <2>6 DEF Blanked, Spendable
  <2> QED
    BY <1>2, <2>1, <2>3, <2>4, <2>5, <2>6 DEF RowStep
<1> QED
  BY <1>1, <1>2, <1>3 DEF LInv

\* A Lockdown of four topics that the loop has met holds until the owner's
\* permit is submitted again, for any cap, backfill, number of blocks and of
\* interrupted ticks, whatever other Lockdowns, with fewer topics, the loop could
\* not decode (listener.go, Tick, applyPermit2 and DecodeLockdown; store.go,
\* Upsert and MarkLocked).
THEOREM LockdownsHold == Spec => []LockdownHolds
<1>1. LInv => LockdownHolds
  BY DEF LInv
<1> QED
  BY <1>1, InitLockdown, LockdownStep, PTL DEF Spec

-----------------------------------------------------------------------------
(* A Permit the loop has met holds.                                        *)

PermitAt(b, id) ==
    blocks[b].log # NoLog /\ blocks[b].log.event = "Permit" /\ blocks[b].log.id = id

\* The contract takes a nonce once, so that no two Permits are for one row.
NoncesUsed ==
    \A b \in 1..head : \A id \in Ids :
        PermitAt(b, id) => allowance[Triple(id)].nonce > id.nonce

PermitsOnce ==
    \A b, x \in 1..head : \A id \in Ids : PermitAt(b, id) /\ PermitAt(x, id) => b = x

PInv == TInv /\ TickCovers /\ TickLogged /\ NoncesUsed /\ PermitsOnce /\ PermitsHold

LEMMA InitPermits == Init => PInv
<1> SUFFICES ASSUME Init PROVE PInv
  OBVIOUS
<1>1. \A b \in 1..head : blocks[b].log = NoLog
  BY DEF Init, EnvInit, Genesis, head
<1>2. NoncesUsed /\ PermitsOnce
  BY <1>1 DEF NoncesUsed, PermitsOnce, PermitAt
<1>3. TInv
  BY InitTypes
<1>4. PermitsHold
  <2>1. origin \in Nat /\ head \in Nat
    BY <1>3 DEF TInv, TypeOK, EnvTypeOK, LoopTypeOK, head
  <2>2. \A b \in (origin + 1)..head : b \in 1..head
    BY <2>1
  <2> QED
    BY <1>1, <2>2 DEF PermitsHold, Met
<1>5. TickCovers /\ TickLogged
  BY DEF Init, LoopInit, Idle, TickCovers, TickLogged
<1> QED
  BY <1>2, <1>3, <1>4, <1>5 DEF PInv

\* Nonces of the contract only rise, and a block that is not a new Permit keeps
\* both invariants.
NoncesRise == \A t \in Triples : allowance'[t].nonce >= allowance[t].nonce

LEMMA OldPermits ==
    ASSUME TInv, TInv', NoncesUsed, PermitsOnce, Grows, NoncesRise,
           \A b \in (head + 1)..head' : \A id \in Ids : ~PermitAt(b, id)'
    PROVE  NoncesUsed' /\ PermitsOnce'
<1>1. head \in Nat /\ head' \in Nat
  BY DEF TInv, TypeOK, EnvTypeOK, head
<1>2. ASSUME NEW b \in 1..head', NEW id \in Ids, PermitAt(b, id)'
      PROVE  b \in 1..head /\ PermitAt(b, id)
  <2>1. b \in 1..head \/ b \in (head + 1)..head'
    BY <1>1
  <2>2. b \in 1..head
    BY <1>2, <2>1
  <2> QED
    BY <1>2, <2>2 DEF Grows, PermitAt
<1>3. ASSUME NEW b \in 1..head', NEW id \in Ids, PermitAt(b, id)'
      PROVE  allowance'[Triple(id)].nonce > id.nonce
  <2>1. Triple(id) \in Triples /\ id.nonce \in Nat
    BY EnvironmentAssumption DEF Triple, Triples, Ids
  <2>2. allowance[Triple(id)].nonce > id.nonce
    BY <1>2, <1>3 DEF NoncesUsed
  <2>3. allowance'[Triple(id)].nonce >= allowance[Triple(id)].nonce
    BY <2>1 DEF NoncesRise
  <2>4. allowance'[Triple(id)].nonce \in Nat /\ allowance[Triple(id)].nonce \in Nat
    BY <2>1 DEF TInv, TypeOK, EnvTypeOK
  <2> QED
    BY <2>1, <2>2, <2>3, <2>4
<1>4. NoncesUsed'
  BY <1>3 DEF NoncesUsed, Triple
<1>5. PermitsOnce'
  BY <1>2 DEF PermitsOnce
<1> QED
  BY <1>4, <1>5

\* A permit() that succeeds.
LEMMA NewPermit ==
    ASSUME TInv, TInv', NoncesUsed, PermitsOnce, NEW id \in Ids, NEW amount \in Nat,
           NEW expiration \in Nat, NEW tx \in Txs \cup {NoTx},
           allowance[Triple(id)].nonce = id.nonce,
           allowance' = AfterPermit(id, amount, expiration),
           blocks' = Append(blocks, [tx |-> tx, ok |-> TRUE,
                                     log |-> PermitLog(id, amount, expiration)])
    PROVE  NoncesUsed' /\ PermitsOnce'
<1>1. /\ blocks \in Seq(Blocks) /\ head = Len(blocks) /\ head \in Nat
      /\ allowance \in [Triples -> [amount: Nat, expiration: Nat, nonce: Nat]]
  BY DEF TInv, TypeOK, EnvTypeOK, Blocks, head
<1> DEFINE new == [tx |-> tx, ok |-> TRUE, log |-> PermitLog(id, amount, expiration)]
<1>2. new \in Blocks /\ new.log.id = id
  <2>1. PermitLog(id, amount, expiration) \in PermitLogs
    BY PermitTyped DEF TInv, TypeOK
  <2> QED
    BY <2>1 DEF Blocks, Logs, PermitLog
<1> HIDE DEF new
<1>3. /\ head' = head + 1 /\ blocks'[head + 1] = new
      /\ \A i \in 1..head : blocks'[i] = blocks[i]
  BY <1>1, <1>2 DEF head, new
<1>4. \A i \in 1..head' : i \in 1..head \/ i = head + 1
  BY <1>1, <1>3
<1>5. Triple(id) \in Triples /\ id.nonce \in Nat
  BY EnvironmentAssumption DEF Triple, Triples, Ids
<1>6. /\ allowance'[Triple(id)].nonce = id.nonce + 1
      /\ \A t \in Triples \ {Triple(id)} : allowance'[t] = allowance[t]
  BY <1>1, <1>5 DEF AfterPermit
<1>7. \A i \in 1..head : ~PermitAt(i, id)
  BY <1>5 DEF NoncesUsed
<1>8. ASSUME NEW i \in 1..head', NEW other \in Ids, PermitAt(i, other)'
      PROVE  \/ i \in 1..head /\ PermitAt(i, other)
             \/ i = head + 1 /\ other = id
  BY <1>2, <1>3, <1>4, <1>8 DEF PermitAt
<1>9. ASSUME NEW i \in 1..head', NEW other \in Ids, PermitAt(i, other)'
      PROVE  allowance'[Triple(other)].nonce > other.nonce
  <2>1. CASE i = head + 1 /\ other = id
    BY <1>5, <1>6, <2>1
  <2>2. CASE i \in 1..head /\ PermitAt(i, other)
    <3>1. Triple(other) \in Triples /\ other.nonce \in Nat
      BY EnvironmentAssumption DEF Triple, Triples, Ids
    <3>2. allowance[Triple(other)].nonce > other.nonce
      BY <2>2 DEF NoncesUsed
    <3>3. allowance[Triple(other)].nonce \in Nat
      BY <1>1, <3>1
    <3>4. CASE Triple(other) = Triple(id)
      BY <1>5, <1>6, <3>1, <3>2, <3>3, <3>4
    <3>5. CASE Triple(other) # Triple(id)
      BY <1>6, <3>1, <3>2, <3>5
    <3> QED
      BY <3>4, <3>5
  <2> QED
    BY <1>8, <1>9, <2>1, <2>2
<1>10. NoncesUsed'
  BY <1>9 DEF NoncesUsed, Triple
<1>11. PermitsOnce'
  BY <1>7, <1>8 DEF PermitsOnce
<1> QED
  BY <1>10, <1>11

\* The chain grows by a block whose log is not a Permit.
LEMMA OtherBlock ==
    ASSUME TInv, TInv', NoncesUsed, PermitsOnce, NoncesRise, NEW new \in Blocks,
           blocks' = Append(blocks, new),
           new.log = NoLog \/ new.log.event # "Permit"
    PROVE  NoncesUsed' /\ PermitsOnce'
<1>1. blocks \in Seq(Blocks) /\ head = Len(blocks) /\ head \in Nat /\ EnvTypeOK
  BY DEF TInv, TypeOK, EnvTypeOK, Blocks, head
<1>2. head' = head + 1 /\ blocks'[head + 1] = new
  BY <1>1 DEF head
<1>3. Grows
  BY <1>1, AppendGrows
<1>4. \A b \in (head + 1)..head' : b = head + 1
  BY <1>1, <1>2
<1>5. \A b \in (head + 1)..head' : \A id \in Ids : ~PermitAt(b, id)'
  BY <1>2, <1>4 DEF PermitAt
<1> QED
  BY <1>3, <1>5, OldPermits

LEMMA EnvPermits ==
    ASSUME TInv, TInv', NoncesUsed, PermitsOnce, EnvNext
    PROVE  NoncesUsed' /\ PermitsOnce'
<1>0. /\ EnvTypeOK
      /\ allowance \in [Triples -> [amount: Nat, expiration: Nat, nonce: Nat]]
  BY DEF TInv, TypeOK, EnvTypeOK
<1>1. ASSUME NEW funded \in BOOLEAN, Mine(funded) PROVE NoncesUsed' /\ PermitsOnce'
  <2>1. PICK e \in pool :
            LET tx == e.tx
                ok == Succeeds(tx) /\ (tx.kind = "transfer" => funded)
            IN  /\ blocks' = Append(blocks,
                     [tx |-> tx, ok |-> ok,
                      log |-> IF ~ok THEN NoLog
                              ELSE IF tx.kind = "permit"
                                   THEN PermitLog(tx.id, tx.amount, tx.expiration)
                                   ELSE TransferLog(tx)])
                /\ allowance' =
                     IF ~ok THEN allowance
                     ELSE IF tx.kind = "permit"
                          THEN AfterPermit(tx.id, tx.amount, tx.expiration)
                          ELSE [allowance EXCEPT ![Triple(tx.id)].amount = @ - tx.amount]
    BY <1>1 DEF Mine
  <2> DEFINE tx == e.tx
             ok == Succeeds(tx) /\ (tx.kind = "transfer" => funded)
  <2>2. tx \in Txs
    BY <1>0 DEF EnvTypeOK
  <2>3. ok \in BOOLEAN
    BY DEF Succeeds, PermitOK, Permits, TransferOK
  <2>4. CASE ~ok
    <3>1. ok = FALSE
      BY <2>3, <2>4
    <3>2. blocks' = Append(blocks, [tx |-> tx, ok |-> FALSE, log |-> NoLog])
      BY <2>1, <3>1
    <3>3. allowance' = allowance
      BY <2>1, <2>4
    <3> HIDE DEF ok, tx
    <3>4. [tx |-> tx, ok |-> FALSE, log |-> NoLog] \in Blocks
      BY <2>2 DEF Blocks
    <3>5. NoncesRise
      BY <1>0, <3>3 DEF NoncesRise
    <3> QED
      BY <3>2, <3>4, <3>5, OtherBlock
  <2>5. CASE ok /\ tx \in PermitTxs
    <3>1. /\ tx.kind = "permit"
          /\ tx.id \in Ids /\ tx.amount \in Nat /\ tx.expiration \in Nat
      BY <2>5 DEF PermitTxs
    <3>2. ok = TRUE
      BY <2>3, <2>5
    <3>3. /\ blocks' = Append(blocks, [tx |-> tx, ok |-> TRUE,
                                       log |-> PermitLog(tx.id, tx.amount, tx.expiration)])
          /\ allowance' = AfterPermit(tx.id, tx.amount, tx.expiration)
      BY <2>1, <3>1, <3>2
    <3>4. allowance[Triple(tx.id)].nonce = tx.id.nonce
      BY <2>5, <3>1 DEF Succeeds, PermitOK
    <3> HIDE DEF ok, tx
    <3> QED
      BY <2>2, <3>1, <3>3, <3>4, NewPermit
  <2>6. CASE ok /\ tx \in TransferTxs
    <3>1. tx.kind = "transfer" /\ tx.id \in Ids /\ tx.amount \in Nat
      BY <2>6 DEF TransferTxs
    <3>2. ok = TRUE
      BY <2>3, <2>6
    <3>3. /\ blocks' = Append(blocks, [tx |-> tx, ok |-> TRUE, log |-> TransferLog(tx)])
          /\ allowance' = [allowance EXCEPT ![Triple(tx.id)].amount = @ - tx.amount]
      BY <2>1, <3>1, <3>2
    <3> HIDE DEF ok, tx
    <3>4. TransferLog(tx) \in TransferLogs /\ TransferLog(tx).event = "Transfer"
      BY <2>6, <3>1 DEF TransferLog, TransferLogs
    <3> DEFINE new == [tx |-> tx, ok |-> TRUE, log |-> TransferLog(tx)]
    <3>5. new \in Blocks /\ new.log.event # "Permit"
      BY <2>2, <3>4 DEF Blocks, Logs
    <3>6. NoncesRise
      BY <1>0, <3>3 DEF NoncesRise
    <3> HIDE DEF new
    <3>7. blocks' = Append(blocks, new)
      BY <3>3 DEF new
    <3> QED
      BY <3>5, <3>6, <3>7, OtherBlock
  <2> QED
    BY <2>2, <2>4, <2>5, <2>6 DEF Txs
<1>2. ASSUME NEW s \in Signatures, ForeignPermit(s) PROVE NoncesUsed' /\ PermitsOnce'
  <2> DEFINE id == [owner |-> s.signer, agent |-> s.agent, token |-> s.token, nonce |-> s.nonce]
  <2>1. id \in Ids /\ s.amount \in Nat /\ s.expiration \in Nat
    BY EnvironmentAssumption DEF Ids
  <2>2. /\ blocks' = Append(blocks, [tx |-> NoTx, ok |-> TRUE,
                                     log |-> PermitLog(id, s.amount, s.expiration)])
        /\ allowance' = AfterPermit(id, s.amount, s.expiration)
        /\ allowance[Triple(id)].nonce = id.nonce
    BY <1>2 DEF ForeignPermit, PermitOK
  <2> HIDE DEF id
  <2> QED
    BY <2>1, <2>2, NewPermit
<1>3. ASSUME NEW triple \in Triples, NEW topics \in LockdownTopics, Lockdown(triple, topics)
      PROVE  NoncesUsed' /\ PermitsOnce'
  <2> DEFINE new == [tx |-> NoTx, ok |-> TRUE, log |-> LockdownLog(triple, topics)]
  <2>1. new \in Blocks
    BY EnvironmentAssumption DEF Blocks, Logs, LockdownLog, LockdownLogs
  <2>2. new.log.event # "Permit"
    BY DEF LockdownLog
  <2>3. /\ blocks' = Append(blocks, new)
        /\ allowance' = [allowance EXCEPT ![triple].amount = 0]
    BY <1>3 DEF Lockdown
  <2> HIDE DEF new
  <2>4. NoncesRise
    BY <1>0, <2>3 DEF NoncesRise
  <2> QED
    BY <2>1, <2>2, <2>3, <2>4, OtherBlock
<1>4. CASE AdvanceClock
  BY <1>4 DEF AdvanceClock, NoncesUsed, PermitsOnce, PermitAt, Triple, head
<1> QED
  BY <1>1, <1>2, <1>3, <1>4 DEF EnvNext

LEMMA PermitsStep == PInv /\ [Next]_vars => PInv'
<1> SUFFICES ASSUME PInv, [Next]_vars PROVE PInv'
  OBVIOUS
<1>1. TInv /\ TickCovers /\ TickLogged /\ NoncesUsed /\ PermitsOnce /\ TInv'
  BY TypeStep DEF PInv
<1>2. Grows /\ MetBefore /\ TickCovers' /\ \A id \in Ids : RowStep(id)
  BY <1>1, MetStep
<1>3. NoncesUsed' /\ PermitsOnce'
  <2>1. CASE UNCHANGED <<allowance, blocks>>
    BY <1>1, <2>1 DEF NoncesUsed, PermitsOnce, PermitAt, Triple, head
  <2>2. CASE EnvNext
    BY <1>1, <2>2, EnvPermits
  <2>3. UNCHANGED <<allowance, blocks>> \/ EnvNext
    <3>1. CASE UNCHANGED vars
      BY <3>1 DEF vars, envVars
    <3>2. CASE Environs
      BY <3>2 DEF Environs, AuthNext, VerifyAndCache, envVars
    <3>3. CASE Spending
      BY <3>3 DEF Spending, SpendNext, SpendStep, Begin, CheckAllowance, Build, Send, Receipt,
                  ReceiptTimeout, Bump, Credit, Fail, envVars, chainVars
    <3>4. CASE Watching
      BY <3>4 DEF Watching, LoopNext, LoopStep, TickStart, ApplyPermit2, FilterTransfers,
                  ApplyTransfer, CommitWatermark, TickAbort, envVars, chainVars
    <3> QED
      BY <3>1, <3>2, <3>3, <3>4 DEF Next
  <2> QED
    BY <2>1, <2>2, <2>3
<1>4. PermitsHold'
  <2> SUFFICES ASSUME NEW b \in (origin' + 1)..head', NEW id \in Ids,
                      Met(b)', PermitAt(b, id)', id.agent \in OurAgents
               PROVE  /\ rows'[id] # NoRow
                      /\ \/ authHead'[id] >= b
                         \/ /\ rows'[id].amount = blocks'[b].log.amount
                            /\ rows'[id].expiration = blocks'[b].log.expiration
    BY DEF PermitsHold, PermitAt, Met
  <2>1. /\ b \in (origin + 1)..head /\ blocks'[b] = blocks[b]
        /\ Met(b) \/ Applies(b)
    BY <1>2 DEF MetBefore, Permit2At, PermitAt
  <2>2. b \in 1..head /\ b <= head
    <3>1. head \in Nat /\ origin \in Nat
      BY DEF PInv, TInv, TypeOK, EnvTypeOK, LoopTypeOK, head
    <3> QED
      BY <2>1, <3>1
  <2>3. PermitAt(b, id)
    BY <2>1 DEF PermitAt
  <2>4. CASE Applies(b)
    <3>1. /\ rows'[id] # NoRow
          /\ rows'[id].amount = blocks[b].log.amount
          /\ rows'[id].expiration = blocks[b].log.expiration
      BY <1>1, <2>3, <2>4, AppliedRowStep DEF Applies, PermitAt
    <3> QED
      BY <2>1, <3>1
  <2>5. CASE Met(b) /\ Kept(id)
    <3>1. /\ rows[id] # NoRow
          /\ \/ authHead[id] >= b
             \/ /\ rows[id].amount = blocks[b].log.amount
                /\ rows[id].expiration = blocks[b].log.expiration
      BY <2>1, <2>3, <2>5 DEF PInv, PermitsHold, PermitAt
    <3> QED
      BY <2>1, <2>5, <3>1 DEF Kept, SamePermit
  <2>6. CASE Resigned(id)
    BY <2>2, <2>6 DEF Resigned
  <2>7. CASE Blanked(id)
    <3>1. PICK x \in tick.logs :
            /\ tick.at = "permit2"
            /\ blocks[x].log.event = "Permit" /\ blocks[x].log.id = id
            /\ rows'[id].amount = blocks[x].log.amount
            /\ rows'[id].expiration = blocks[x].log.expiration
      BY <2>7 DEF Blanked
    <3>2. x \in 1..head /\ PermitAt(x, id)
      BY <1>1, <3>1, TickBlocks DEF TickLogged, PermitAt
    <3>3. x = b
      BY <1>1, <2>2, <2>3, <3>2 DEF PermitsOnce
    <3> QED
      BY <2>1, <2>7, <3>1, <3>3 DEF Blanked
  <2> QED
    BY <1>2, <2>1, <2>4, <2>5, <2>6, <2>7 DEF RowStep
<1>5. TickLogged'
  BY <1>1, TickLogs
<1> QED
  BY <1>1, <1>2, <1>3, <1>4, <1>5 DEF PInv

\* The row of a Permit the loop has met exists and, unless it was submitted again
\* since, holds the amount and the expiration of the chain, for any cap, backfill,
\* number of blocks, of Spends and of interrupted ticks (listener.go, Tick and
\* applyPermit2; store.go, Upsert).  It rests on the contract's taking a nonce
\* once: a second Permit for the row would have other numbers.
THEOREM ObservedPermitsHold == Spec => []PermitsHold
<1>1. PInv => PermitsHold
  BY DEF PInv
<1> QED
  BY <1>1, InitPermits, PermitsStep, PTL DEF Spec

-----------------------------------------------------------------------------
(* Sums over sets of Spends.  What a sum is does not follow from its        *)
(* definition alone: that the recursive function exists, and that it does   *)
(* not depend on the order of the calls, takes an induction on their        *)
(* number.                                                                  *)

\* What the Spends S with the copies j add up to.
SumOfAtoms(j, S) == MapThenSumSet(LAMBDA c : j[c].atoms, S)

Pick(s) == CHOOSE x \in s : TRUE

\* g adds over the subsets of S, one call after the other.
PickAdds(g, j, s) == IF s = {} THEN 0 ELSE j[Pick(s)].atoms + g[s \ {Pick(s)}]

Adds(g, j, S) == g = [s \in SUBSET S |-> PickAdds(g, j, s)]

LEMMA LeastNatural == ASSUME NEW T \in SUBSET Nat, T # {} PROVE \E x \in T : \A y \in T : x <= y
<1> DEFINE R == OpToRel(<, Nat)
<1>1. IsWellFoundedOn(R, Nat)
  BY NatLessThanWellFounded
<1>2. \A x, y \in Nat : <<x, y>> \in R <=> x < y
  BY DEF OpToRel
<1> HIDE DEF R
<1>3. PICK x \in T : \A y \in T : ~(<<y, x>> \in R)
  BY <1>1, WFMin
<1>4. ASSUME NEW y \in T PROVE x <= y
  <2>1. ~(<<y, x>> \in R) /\ x \in Nat /\ y \in Nat
    BY <1>3
  <2> QED
    BY <1>2, <2>1
<1> QED
  BY <1>4

LEMMA NatInductive ==
    ASSUME NEW S \in SUBSET Nat, 0 \in S, \A n \in S : n + 1 \in S PROVE S = Nat
<1> SUFFICES ASSUME Nat \ S # {} PROVE FALSE
  OBVIOUS
<1>1. PICK x \in Nat \ S : \A y \in Nat \ S : x <= y
  BY LeastNatural
<1>2. x # 0 /\ x - 1 \in Nat /\ x - 1 \notin Nat \ S
  BY <1>1
<1>3. (x - 1) + 1 \in S
  BY <1>2
<1> QED
  BY <1>1, <1>3

LEMMA SumIsFold == ASSUME NEW j, NEW S PROVE SumOfAtoms(j, S) = (CHOOSE g : Adds(g, j, S))[S]
  BY DEF SumOfAtoms, MapThenSumSet, MapThenFoldSet, Adds, PickAdds, Pick

LEMMA Picked == ASSUME NEW s, s # {} PROVE Pick(s) \in s
  BY DEF Pick

LEMMA Smaller ==
    ASSUME NEW s, IsFiniteSet(s), NEW x \in s
    PROVE  /\ IsFiniteSet(s \ {x}) /\ Cardinality(s) \in Nat
           /\ Cardinality(s \ {x}) + 1 = Cardinality(s)
<1>1. Cardinality(s) \in Nat
  BY FS_CardinalityType
<1>2. IsFiniteSet(s \ {x}) /\ Cardinality(s \ {x}) = Cardinality(s) - 1
  BY FS_RemoveElement
<1> QED
  BY <1>1, <1>2

\* There is such a g: it is extended from the sets of n calls to those of n + 1.
LEMMA AddsExists ==
    ASSUME NEW j, NEW S, IsFiniteSet(S)
    PROVE  \E g : Adds(g, j, S)
<1> DEFINE D(n) == {s \in SUBSET S : Cardinality(s) <= n}
           Rec(g, n) == g = [s \in D(n) |-> PickAdds(g, j, s)]
           G == {n \in Nat : \E g : Rec(g, n)}
<1>0. \A s \in SUBSET S : IsFiniteSet(s) /\ Cardinality(s) \in Nat /\ Cardinality(s) <= Cardinality(S)
  BY FS_Subset, FS_CardinalityType
<1>1. 0 \in G
  <2>1. D(0) = {{}}
    BY <1>0, FS_EmptySet
  <2> DEFINE g == [s \in {{}} |-> 0]
  <2>2. Rec(g, 0)
    BY <2>1 DEF PickAdds
  <2> QED
    BY <2>2
<1>2. ASSUME NEW n \in G PROVE n + 1 \in G
  <2>1. PICK g : Rec(g, n)
    BY <1>2
  <2> DEFINE h == [s \in D(n + 1) |-> IF s \in D(n) THEN g[s] ELSE j[Pick(s)].atoms + g[s \ {Pick(s)}]]
  <2>2. ASSUME NEW s \in D(n + 1)
        PROVE  h[s] = PickAdds(h, j, s)
    <3>1. CASE s = {}
      <4>1. s \in D(n)
        BY <3>1, FS_EmptySet
      <4> QED
        BY <2>1, <3>1, <4>1 DEF PickAdds
    <3>2. CASE s # {}
      <4>1. Pick(s) \in s
        BY <3>2, Picked
      <4>2. Cardinality(s \ {Pick(s)}) + 1 = Cardinality(s) /\ Cardinality(s \ {Pick(s)}) \in Nat
        BY <1>0, <4>1, Smaller
      <4>3. s \ {Pick(s)} \in D(n) /\ s \ {Pick(s)} \in D(n + 1)
        BY <4>2
      <4>4. h[s \ {Pick(s)}] = g[s \ {Pick(s)}]
        BY <4>3
      <4>5. CASE s \in D(n)
        BY <2>1, <3>2, <4>4, <4>5 DEF PickAdds
      <4>6. CASE s \notin D(n)
        BY <3>2, <4>4, <4>6 DEF PickAdds
      <4> QED
        BY <4>5, <4>6
    <3> QED
      BY <3>1, <3>2
  <2>3. Rec(h, n + 1)
    <3> HIDE DEF D
    <3>1. h = [s \in D(n + 1) |-> h[s]]
      OBVIOUS
    <3> HIDE DEF h
    <3> QED
      BY <2>2, <3>1
  <2>4. \E f : Rec(f, n + 1)
    BY <2>3
  <2>5. n + 1 \in Nat
    OBVIOUS
  <2> HIDE DEF h, Rec
  <2> QED
    BY <2>4, <2>5
<1>3. G = Nat
  <2>1. G \in SUBSET Nat
    OBVIOUS
  <2> HIDE DEF G
  <2> QED
    BY <1>1, <1>2, <2>1, NatInductive
<1>4. PICK g : Rec(g, Cardinality(S))
  BY <1>3, FS_CardinalityType
<1>5. D(Cardinality(S)) = SUBSET S
  BY <1>0
<1> QED
  BY <1>4, <1>5 DEF Adds

LEMMA LeastSubset ==
    ASSUME NEW S, IsFiniteSet(S), NEW T \in SUBSET (SUBSET S), T # {}
    PROVE  \E s \in T : \A x \in s : s \ {x} \notin T
<1> DEFINE N == {Cardinality(s) : s \in T}
<1>0. \A s \in T : IsFiniteSet(s) /\ Cardinality(s) \in Nat
  BY FS_Subset, FS_CardinalityType
<1>1. PICK n \in N : \A m \in N : n <= m
  <2>1. N \in SUBSET Nat /\ N # {}
    BY <1>0
  <2> HIDE DEF N
  <2> QED
    BY <2>1, LeastNatural
<1>2. PICK s \in T : n = Cardinality(s)
  BY <1>1
<1>3. ASSUME NEW x \in s, s \ {x} \in T PROVE FALSE
  <2>1. Cardinality(s \ {x}) + 1 = Cardinality(s) /\ Cardinality(s \ {x}) \in Nat
    BY <1>0, <1>3, Smaller
  <2>2. Cardinality(s) <= Cardinality(s \ {x})
    BY <1>1, <1>2, <1>3
  <2> QED
    BY <2>1, <2>2
<1> QED
  BY <1>3

LEMMA AddsValue ==
    ASSUME NEW j, NEW S, NEW g, Adds(g, j, S), NEW s \in SUBSET S
    PROVE  g[s] = PickAdds(g, j, s)
  BY DEF Adds

LEMMA AddsNat ==
    ASSUME NEW j, NEW S, IsFiniteSet(S), \A x \in S : j[x].atoms \in Nat,
           NEW g, Adds(g, j, S)
    PROVE  \A s \in SUBSET S : g[s] \in Nat
<1>0. \A s \in SUBSET S : g[s] = PickAdds(g, j, s)
  BY AddsValue
<1> DEFINE T == {s \in SUBSET S : g[s] \notin Nat}
<1> SUFFICES ASSUME T # {} PROVE FALSE
  OBVIOUS
<1>1. PICK s \in T : \A x \in s : s \ {x} \notin T
  BY LeastSubset
<1>2. g[s] = PickAdds(g, j, s)
  BY <1>0
<1>3. s # {}
  BY <1>2 DEF PickAdds
<1>4. Pick(s) \in s
  BY <1>3, Picked
<1>5. j[Pick(s)].atoms \in Nat /\ g[s \ {Pick(s)}] \in Nat
  BY <1>1, <1>4
<1>6. g[s] \in Nat
  BY <1>2, <1>3, <1>5 DEF PickAdds
<1> QED
  BY <1>6

\* The order in which the calls are added does not matter.
LEMMA AddsAny ==
    ASSUME NEW j, NEW S, IsFiniteSet(S), \A x \in S : j[x].atoms \in Nat,
           NEW g, Adds(g, j, S)
    PROVE  \A s \in SUBSET S : \A x \in s : g[s] = j[x].atoms + g[s \ {x}]
<1> DEFINE T == {s \in SUBSET S : \E x \in s : g[s] # j[x].atoms + g[s \ {x}]}
<1> SUFFICES ASSUME T # {} PROVE FALSE
  OBVIOUS
<1>1. PICK s \in T : \A x \in s : s \ {x} \notin T
  BY LeastSubset
<1>2. PICK x \in s : g[s] # j[x].atoms + g[s \ {x}]
  BY <1>1
<1> DEFINE y == Pick(s)
<1>3. y \in s /\ g[s] = j[y].atoms + g[s \ {y}]
  BY <1>2, AddsValue, Picked DEF PickAdds
<1> HIDE DEF y
<1>4. x # y
  BY <1>2, <1>3
<1> DEFINE rest == s \ {x, y}
<1>5. (s \ {y}) \ {x} = rest /\ (s \ {x}) \ {y} = rest
  OBVIOUS
<1>6. g[s \ {y}] = j[x].atoms + g[rest]
  BY <1>1, <1>3, <1>4, <1>5
<1>7. g[s \ {x}] = j[y].atoms + g[rest]
  BY <1>1, <1>3, <1>4, <1>5
<1>8. g[rest] \in Nat /\ j[x].atoms \in Nat /\ j[y].atoms \in Nat
  <2>1. rest \in SUBSET S
    OBVIOUS
  <2> QED
    BY <1>3, <2>1, AddsNat
<1> QED
  BY <1>2, <1>3, <1>6, <1>7, <1>8

LEMMA AddsSame ==
    ASSUME NEW j, NEW S, IsFiniteSet(S), NEW g, Adds(g, j, S),
           NEW k, NEW R, NEW h, Adds(h, k, R), S \subseteq R,
           \A x \in S : j[x].atoms = k[x].atoms
    PROVE  \A s \in SUBSET S : g[s] = h[s]
<1> DEFINE T == {s \in SUBSET S : g[s] # h[s]}
<1> SUFFICES ASSUME T # {} PROVE FALSE
  OBVIOUS
<1>1. PICK s \in T : \A x \in s : s \ {x} \notin T
  BY LeastSubset
<1>2. g[s] = PickAdds(g, j, s)
  <2>1. s \in SUBSET S
    OBVIOUS
  <2> HIDE DEF T
  <2> QED
    BY <2>1, AddsValue
<1>3. h[s] = PickAdds(h, k, s)
  <2>1. s \in SUBSET R
    OBVIOUS
  <2> HIDE DEF T
  <2> QED
    BY <2>1, AddsValue
<1>4. s # {} => j[Pick(s)].atoms = k[Pick(s)].atoms /\ g[s \ {Pick(s)}] = h[s \ {Pick(s)}]
  BY <1>1, Picked
<1> QED
  BY <1>1, <1>2, <1>3, <1>4 DEF PickAdds

LEMMA SumAdds ==
    ASSUME NEW j, NEW S, IsFiniteSet(S)
    PROVE  \E g : Adds(g, j, S) /\ SumOfAtoms(j, S) = g[S]
  BY SumIsFold, AddsExists

LEMMA SumEmpty == ASSUME NEW j PROVE SumOfAtoms(j, {}) = 0
<1>1. PICK g : Adds(g, j, {}) /\ SumOfAtoms(j, {}) = g[{}]
  BY SumAdds, FS_EmptySet
<1> QED
  BY <1>1, AddsValue DEF PickAdds

LEMMA SumSame ==
    ASSUME NEW j, NEW k, NEW S, IsFiniteSet(S), \A x \in S : j[x].atoms = k[x].atoms
    PROVE  SumOfAtoms(j, S) = SumOfAtoms(k, S)
<1>1. PICK g : Adds(g, j, S) /\ SumOfAtoms(j, S) = g[S]
  BY SumAdds
<1>2. PICK h : Adds(h, k, S) /\ SumOfAtoms(k, S) = h[S]
  BY SumAdds
<1>3. \A s \in SUBSET S : g[s] = h[s]
  BY <1>1, <1>2, AddsSame
<1> QED
  BY <1>1, <1>2, <1>3

LEMMA SumPlus ==
    ASSUME NEW j, NEW S, IsFiniteSet(S), NEW c, c \notin S,
           \A x \in S \cup {c} : j[x].atoms \in Nat
    PROVE  SumOfAtoms(j, S \cup {c}) = SumOfAtoms(j, S) + j[c].atoms
<1> DEFINE R == S \cup {c}
<1>0. IsFiniteSet(R) /\ R \ {c} = S /\ c \in R /\ S \subseteq R
  BY FS_AddElement
<1> HIDE DEF R
<1>1. PICK g : Adds(g, j, S) /\ SumOfAtoms(j, S) = g[S]
  BY SumAdds
<1>2. PICK h : Adds(h, j, R) /\ SumOfAtoms(j, R) = h[R]
  BY <1>0, SumAdds
<1>3. h[R] = j[c].atoms + h[S]
  BY <1>0, <1>2, AddsAny DEF R
<1>4. h[S] = g[S]
  BY <1>0, <1>1, <1>2, AddsSame
<1>5. h[S] \in Nat /\ j[c].atoms \in Nat
  BY <1>0, <1>2, AddsNat DEF R
<1> QED
  BY <1>1, <1>2, <1>3, <1>4, <1>5 DEF R

-----------------------------------------------------------------------------
(* The books match the chain.                                              *)

BumpedOn(id) == {c \in Spends : Bumped(c) /\ job[c].id = id}

SpentIsSum ==
    \A id \in Ids : rows[id] # NoRow => rows[id].spent = SumOfAtoms(job, BumpedOn(id))

\* No permit outlasts MaxInt64, on the chain or in the store, so that
\* applyTransfer never finds a row to bump.
LogsExpire ==
    \A b \in 1..head :
        blocks[b].log # NoLog /\ blocks[b].log \in PermitLogs
            => blocks[b].log.expiration <= MaxInt64

RowsExpire == \A id \in Ids : rows[id] # NoRow => rows[id].expiration <= MaxInt64

\* A call that got past its receipt still has it, and its row.
TransfersMined ==
    \A c \in Spends :
        pc[c] \in {"bump", "credit", "done"} => HasReceipt(TransferTx(c), TRUE)

JobsHaveRows == \A c \in Spends : pc[c] # "idle" => rows[job[c].id] # NoRow

FinitelyMany == IsFiniteSet({c \in Spends : Bumped(c)})

CreditedMined == \A tx \in credited : HasReceipt(tx, TRUE)

BooksInv ==
    /\ LogsExpire /\ TickLogged /\ RowsExpire
    /\ SpentIsSum /\ JobsHaveRows /\ FinitelyMany
    /\ TransfersMined /\ CreditedMined

LEMMA BooksAreSettled == ASSUME BooksInv PROVE SpentIsSettled
<1>1. ASSUME NEW id \in Ids, rows[id] # NoRow
      PROVE  rows[id].spent =
                 MapThenSumSet(LAMBDA c : job[c].atoms,
                               {c \in Spends : Bumped(c) /\ job[c].id = id})
  BY <1>1 DEF BooksInv, SpentIsSum, SumOfAtoms, BumpedOn, MapThenSumSet, MapThenFoldSet
<1>2. \A c \in Spends : Bumped(c) => HasReceipt(TransferTx(c), TRUE)
  BY DEF BooksInv, TransfersMined, Bumped
<1> QED
  BY <1>1, <1>2 DEF SpentIsSettled, BooksInv, CreditedMined

LEMMA InitBooks == Init => BooksInv
<1> SUFFICES ASSUME Init PROVE BooksInv
  OBVIOUS
<1>1. /\ rows = [id \in Ids |-> NoRow] /\ credited = {}
      /\ pc = [c \in Spends |-> "idle"]
  BY DEF Init, AuthInit, EnvInit, SpendInit
<1>2. LogsExpire /\ TickLogged
  <2>1. \A b \in 1..head : blocks[b].log = NoLog
    BY DEF Init, EnvInit, Genesis, head
  <2> QED
    BY <2>1 DEF LogsExpire, TickLogged, Init, LoopInit, Idle
<1>3. {c \in Spends : Bumped(c)} = {}
  BY <1>1 DEF Bumped
<1>4. FinitelyMany
  BY <1>3, FS_EmptySet DEF FinitelyMany
<1> QED
  BY <1>1, <1>2, <1>4
     DEF BooksInv, RowsExpire, SpentIsSum, JobsHaveRows, TransfersMined, CreditedMined

\* The chain's side of a step.
LEMMA ReceiptsStay ==
    ASSUME EnvTypeOK, Grows, NEW tx, HasReceipt(tx, TRUE)
    PROVE  \E b \in 1..head' : blocks'[b].tx = tx /\ blocks'[b].ok = TRUE
<1>1. PICK b \in 1..head : blocks[b].tx = tx /\ blocks[b].ok = TRUE
  BY DEF HasReceipt
<1>2. head \in Nat /\ head' \in Nat /\ head <= head'
  BY DEF EnvTypeOK, head, Grows
<1>3. b \in 1..head' /\ blocks'[b] = blocks[b]
  BY <1>2 DEF Grows
<1> QED
  BY <1>1, <1>3

LEMMA SameLogs ==
    ASSUME UNCHANGED blocks, LogsExpire
    PROVE  LogsExpire'
  BY DEF LogsExpire, head

LEMMA AppendedLog ==
    ASSUME EnvTypeOK, LogsExpire, NEW b \in Blocks, blocks' = Append(blocks, b),
           b.log # NoLog /\ b.log \in PermitLogs => b.log.expiration <= MaxInt64
    PROVE  LogsExpire'
<1>1. blocks \in Seq(Blocks) /\ head = Len(blocks)
  BY DEF EnvTypeOK, Blocks, head
<1>2. /\ head' = head + 1 /\ blocks'[head + 1] = b
      /\ \A i \in 1..head : blocks'[i] = blocks[i]
  BY <1>1 DEF head
<1>3. \A i \in 1..head' : i \in 1..head \/ i = head + 1
  BY <1>1, <1>2
<1> QED
  BY <1>2, <1>3 DEF LogsExpire

LEMMA EnvLogs ==
    ASSUME SInv, LogsExpire, EnvNext
    PROVE  LogsExpire'
<1>0. EnvTypeOK
  BY DEF SInv, TInv, TypeOK
<1>1. ASSUME NEW funded \in BOOLEAN, Mine(funded) PROVE LogsExpire'
  <2>1. PICK e \in pool :
            LET tx == e.tx
                ok == Succeeds(tx) /\ (tx.kind = "transfer" => funded)
            IN  blocks' = Append(blocks,
                    [tx |-> tx, ok |-> ok,
                     log |-> IF ~ok THEN NoLog
                             ELSE IF tx.kind = "permit"
                                  THEN PermitLog(tx.id, tx.amount, tx.expiration)
                                  ELSE TransferLog(tx)])
    BY <1>1 DEF Mine
  <2> DEFINE tx == e.tx
             ok == Succeeds(tx) /\ (tx.kind = "transfer" => funded)
             log == IF ~ok THEN NoLog
                    ELSE IF tx.kind = "permit"
                         THEN PermitLog(tx.id, tx.amount, tx.expiration)
                         ELSE TransferLog(tx)
  <2>2. tx \in Txs
    BY <1>0 DEF EnvTypeOK
  <2>3. ok \in BOOLEAN
    BY DEF Succeeds, PermitOK, Permits, TransferOK
  <2>4. log \in Logs \cup {NoLog} /\ (log # NoLog /\ log \in PermitLogs => log.expiration <= MaxInt64)
    <3>1. CASE ~ok
      BY <3>1
    <3>2. CASE ok /\ tx \in PermitTxs
      <4>1. /\ tx.kind = "permit"
            /\ tx.id \in Ids /\ tx.amount \in Nat /\ tx.expiration \in Nat /\ tx.sig \in Signatures
        BY <3>2 DEF PermitTxs
      <4>2. log = PermitLog(tx.id, tx.amount, tx.expiration)
        BY <3>2, <4>1
      <4>3. tx.expiration <= MaxInt64
        <5>1. Permits(tx.id, tx.amount, tx.expiration, tx.sig)
          BY <4>1 DEF SInv, SubmittedPermitIsSigned
        <5>2. tx.sig.expiration = tx.expiration
          BY <5>1 DEF Permits
        <5> QED
          BY <4>1, <5>2, LoopAssumption
      <4>4. PermitLog(tx.id, tx.amount, tx.expiration) \in PermitLogs
        BY <1>0, <4>1, PermitTyped
      <4>5. PermitLog(tx.id, tx.amount, tx.expiration).expiration = tx.expiration
        BY DEF PermitLog
      <4> HIDE DEF log, tx
      <4> QED
        BY <4>2, <4>3, <4>4, <4>5 DEF Logs
    <3>3. CASE ok /\ tx \in TransferTxs
      <4>1. tx.kind = "transfer" /\ tx.id \in Ids /\ tx.amount \in Nat
        BY <3>3 DEF TransferTxs
      <4>2. log = TransferLog(tx)
        BY <3>3, <4>1
      <4>3. TransferLog(tx) \in TransferLogs /\ TransferLog(tx).event = "Transfer"
        BY <3>3, <4>1 DEF TransferLog, TransferLogs
      <4>4. TransferLog(tx) \notin PermitLogs
        BY <4>3 DEF PermitLogs
      <4> HIDE DEF log, tx
      <4> QED
        BY <4>2, <4>3, <4>4 DEF Logs
    <3> QED
      BY <2>2, <3>1, <3>2, <3>3 DEF Txs
  <2>5. blocks' = Append(blocks, [tx |-> tx, ok |-> ok, log |-> log])
    BY <2>1
  <2> HIDE DEF ok, log, tx
  <2>6. [tx |-> tx, ok |-> ok, log |-> log] \in Blocks
    BY <2>2, <2>3, <2>4 DEF Blocks
  <2> QED
    BY <1>0, <2>4, <2>5, <2>6, AppendedLog
<1>2. ASSUME NEW s \in Signatures, ForeignPermit(s) PROVE LogsExpire'
  <2> DEFINE id == [owner |-> s.signer, agent |-> s.agent, token |-> s.token, nonce |-> s.nonce]
             log == PermitLog(id, s.amount, s.expiration)
             b == [tx |-> NoTx, ok |-> TRUE, log |-> log]
  <2>1. id \in Ids /\ s.amount \in Nat /\ s.expiration \in Nat
    BY EnvironmentAssumption DEF Ids
  <2>2. blocks' = Append(blocks, b)
    BY <1>2 DEF ForeignPermit
  <2> HIDE DEF id
  <2>3. log \in PermitLogs /\ log.expiration = s.expiration
    BY <1>0, <2>1, PermitTyped DEF PermitLog
  <2> HIDE DEF log
  <2>4. b \in Blocks /\ b.log = log
    BY <2>3 DEF Blocks, Logs
  <2> HIDE DEF b
  <2>5. b.log.expiration <= MaxInt64
    BY <2>3, <2>4, LoopAssumption
  <2> QED
    BY <1>0, <2>2, <2>4, <2>5, AppendedLog
<1>3. ASSUME NEW triple \in Triples, NEW topics \in LockdownTopics, Lockdown(triple, topics)
      PROVE  LogsExpire'
  <2> DEFINE b == [tx |-> NoTx, ok |-> TRUE, log |-> LockdownLog(triple, topics)]
  <2>1. b \in Blocks
    BY EnvironmentAssumption DEF Blocks, Logs, LockdownLog, LockdownLogs
  <2>2. b.log \notin PermitLogs
    BY DEF LockdownLog, PermitLogs
  <2>3. blocks' = Append(blocks, b)
    BY <1>3 DEF Lockdown
  <2> HIDE DEF b
  <2> QED
    BY <1>0, <2>1, <2>2, <2>3, AppendedLog
<1>4. CASE AdvanceClock
  BY <1>4, SameLogs DEF AdvanceClock
<1> QED
  BY <1>1, <1>2, <1>3, <1>4 DEF EnvNext

\* The store's side: a row appears with nothing spent, and only BumpSpent adds.
SpentKept(id) ==
    /\ rows[id] # NoRow => rows'[id] # NoRow /\ rows'[id].spent = rows[id].spent
    /\ rows[id] = NoRow /\ rows'[id] # NoRow => rows'[id].spent = 0

RowsKept ==
    \A id \in Ids : /\ SpentKept(id)
                    /\ rows'[id] # NoRow => rows'[id].expiration <= MaxInt64

LEMMA SameBooks == ASSUME UNCHANGED rows, RowsExpire PROVE RowsKept
  BY DEF RowsKept, SpentKept, RowsExpire

LEMMA UpsertSpent ==
    ASSUME rows \in Tables, RowsExpire, NEW id \in Ids, NEW a \in Authorization,
           a.spent = 0, a.expiration <= MaxInt64, rows' = Upsert(rows, id, a)
    PROVE  RowsKept
<1>1. /\ rows' \in Tables
      /\ \A other \in Ids \ {id} : rows'[other] = rows[other]
      /\ rows'[id] \in Authorization /\ rows'[id].expiration = a.expiration
  BY UpsertEffect
<1>2. rows'[id].spent = IF rows[id] = NoRow THEN 0 ELSE rows[id].spent
  <2>1. rows'[id] = IF rows[id] = NoRow THEN a ELSE Refreshed(rows[id], a)
    BY DEF Upsert, Tables
  <2>2. Refreshed(rows[id], a).spent = rows[id].spent
    BY DEF Refreshed, Authorization
  <2> QED
    BY <2>1, <2>2
<1>3. rows'[id] # NoRow
  BY <1>1, RowAssumption
<1> QED
  BY <1>1, <1>2, <1>3 DEF RowsKept, SpentKept, RowsExpire

LEMMA MarkLockedSpent ==
    ASSUME rows \in Tables, RowsExpire, NEW owner, NEW agent, NEW token,
           rows' = MarkLocked(rows, owner, agent, token)
    PROVE  RowsKept
<1> SUFFICES ASSUME NEW id \in Ids
             PROVE  /\ SpentKept(id)
                    /\ rows'[id] # NoRow => rows'[id].expiration <= MaxInt64
  BY DEF RowsKept
<1>1. SamePermit(rows'[id], rows[id])
  BY MarkLockedEffect
<1>2. rows[id] # NoRow => rows'[id].spent = rows[id].spent
  <2>1. rows'[id] = rows[id] \/ rows'[id] = [rows[id] EXCEPT !.locked = TRUE]
    BY DEF MarkLocked
  <2>2. rows[id] # NoRow => rows[id] \in Authorization
    BY DEF Tables
  <2> QED
    BY <2>1, <2>2 DEF Authorization
<1> QED
  BY <1>1, <1>2 DEF SpentKept, SamePermit, RowsExpire

LEMMA AuthBooks ==
    ASSUME TInv, RowsExpire, AuthNext
    PROVE  RowsKept
<1>1. PICK p \in Params, s \in Signatures, owner \in Owners, agent \in Agents :
          VerifyAndCache(p, s, owner, agent)
  BY DEF AuthNext
<1> DEFINE id == [owner |-> owner, agent |-> p.agent, token |-> p.token, nonce |-> p.nonce]
<1>2. id \in Ids
  BY AuthorizerAssumption DEF Ids
<1>3. rows' = Upsert(rows, id, Submitted(p, s))
  BY <1>1 DEF VerifyAndCache, Submitted
<1>4. BuildPermit2TypedData(p) = BuildPermit2TypedData(s)
  BY <1>1, AuthorizerAssumption DEF VerifyAndCache, RecoverTypedDataSigner
<1>5. p.expiration = s.expiration
  BY <1>4 DEF BuildPermit2TypedData
<1> HIDE DEF id
<1>6. Submitted(p, s).spent = 0 /\ Submitted(p, s).expiration <= MaxInt64
  BY <1>5, LoopAssumption DEF Submitted
<1>7. rows \in Tables /\ Submitted(p, s) \in Authorization
  BY SubmittedTyped DEF TInv, TypeOK, AuthTypeOK
<1> QED
  BY <1>2, <1>3, <1>6, <1>7, UpsertSpent

\* applyTransfer finds no row: it asks for one active at MaxInt64.
LEMMA NoneOutlasts ==
    ASSUME TInv, RowsExpire, NEW owner, NEW token,
           NEW answer \in ActiveForOwner(rows, owner, token, MaxInt64)
    PROVE  answer \in Errors
<1> DEFINE cands == {i \in Ids : Active(rows, i, MaxInt64) /\ i.owner = owner /\ i.token = token}
<1>1. cands = {}
  <2> SUFFICES ASSUME NEW i \in Ids, Active(rows, i, MaxInt64) PROVE FALSE
    OBVIOUS
  <2>1. rows[i] # NoRow /\ rows[i].expiration > MaxInt64
    BY DEF Active
  <2>2. rows[i].expiration \in Nat
    BY <2>1 DEF TInv, TypeOK, AuthTypeOK, Tables, Authorization
  <2> QED
    BY <2>1, <2>2, LoopAssumption DEF RowsExpire
<1>2. answer \in pickActive(rows, cands, FALSE)
  BY DEF ActiveForOwner
<1> HIDE DEF cands
<1> QED
  BY <1>1, <1>2 DEF pickActive, Errors

LEMMA LoopBooks ==
    ASSUME TInv, LogsExpire, TickLogged, RowsExpire, LoopNext
    PROVE  RowsKept /\ credited' = credited /\ blocks' = blocks
<1>0. rows \in Tables
  BY DEF TInv, TypeOK, AuthTypeOK
<1>1. CASE UNCHANGED <<envVars, authVars>>
  BY <1>1, SameBooks DEF envVars, authVars
<1>2. ASSUME NEW stored \in BOOLEAN, ApplyPermit2(stored)
      PROVE  RowsKept /\ credited' = credited /\ blocks' = blocks
  <2>1. PICK b \in tick.logs : rows' = IF stored THEN Applied(blocks[b].log, b) ELSE rows
    BY <1>2 DEF ApplyPermit2
  <2>2. tick.at = "permit2" /\ UNCHANGED envVars
    BY <1>2 DEF ApplyPermit2
  <2> DEFINE log == blocks[b].log
  <2>3. b \in 1..head /\ b \in Nat /\ log # NoLog /\ log \in PermitLogs \cup LockdownLogs
    <3>1. b \in 1..head
      BY <2>2, TickBlocks
    <3> QED
      BY <2>2, <3>1 DEF TInv, TickReads, TickLogged
  <2>4. log \in PermitLogs => log.expiration <= MaxInt64
    BY <2>3 DEF LogsExpire
  <2>5. CASE ~stored
    BY <2>1, <2>2, <2>5, SameBooks DEF envVars
  <2>6. CASE stored
    <3> SUFFICES RowsKept
      BY <2>2 DEF envVars
    <3>0. rows' = Applied(log, b)
      BY <2>1, <2>6
    <3> HIDE DEF log
    <3>1. CASE rows' = rows
      BY <3>1, SameBooks
    <3>2. CASE log.event = "Permit" /\ Applied(log, b) = Upsert(rows, log.id, Observed(log, b))
      <4>1. log \in PermitLogs
        BY <2>3, <3>2 DEF LockdownLogs
      <4>2. log.id \in Ids /\ Observed(log, b) \in Authorization
        BY <2>3, <4>1, ObservedTyped
      <4>3. Observed(log, b).spent = 0 /\ Observed(log, b).expiration <= MaxInt64
        BY <2>4, <4>1 DEF Observed
      <4> QED
        BY <1>0, <3>0, <3>2, <4>2, <4>3, UpsertSpent
    <3>3. CASE Applied(log, b) = MarkLocked(rows, log.id.owner, log.id.agent, log.id.token)
      BY <1>0, <3>0, <3>3, MarkLockedSpent
    <3> QED
      BY <3>0, <3>1, <3>2, <3>3, AppliedCases
  <2> QED
    BY <2>5, <2>6
<1>3. ASSUME NEW booked \in BOOLEAN, NEW bumped \in BOOLEAN, ApplyTransfer(booked, bumped)
      PROVE  RowsKept /\ credited' = credited /\ blocks' = blocks
  <2>1. PICK b \in tick.logs :
          \E answer \in ActiveForOwner(rows, blocks[b].log.id.owner, blocks[b].log.id.token, MaxInt64) :
             answer \in Errors => credited' = credited /\ rows' = rows
    BY <1>3 DEF ApplyTransfer
  <2>2. rows' = rows /\ credited' = credited
    BY <2>1, NoneOutlasts
  <2> QED
    BY <1>3, <2>2, SameBooks DEF ApplyTransfer, chainVars
<1> QED
  BY <1>1, <1>2, <1>3
     DEF LoopNext, LoopStep, TickStart, FilterTransfers, CommitWatermark, TickAbort

\* A step that leaves the Spends alone.
LEMMA OthersKeepBooks ==
    ASSUME TInv, BooksInv, Grows, RowsKept, UNCHANGED spendVars, credited' = credited
    PROVE  (RowsExpire /\ SpentIsSum /\ JobsHaveRows /\ FinitelyMany /\ TransfersMined /\ CreditedMined)'
<1>0. EnvTypeOK /\ SpendTypeOK /\ pc' = pc /\ job' = job
  BY DEF TInv, TypeOK, spendVars
<1>1. \A id : BumpedOn(id)' = BumpedOn(id)
  BY <1>0 DEF BumpedOn, Bumped
<1>2. ASSUME NEW id \in Ids, rows'[id] # NoRow
      PROVE  rows'[id].spent = SumOfAtoms(job, BumpedOn(id))
  <2>1. CASE rows[id] # NoRow
    BY <2>1 DEF RowsKept, SpentKept, BooksInv, SpentIsSum
  <2>2. CASE rows[id] = NoRow
    <3>1. BumpedOn(id) = {}
      BY <2>2 DEF BumpedOn, Bumped, BooksInv, JobsHaveRows
    <3> QED
      BY <1>2, <2>2, <3>1, SumEmpty DEF RowsKept, SpentKept
  <2> QED
    BY <2>1, <2>2
<1>3. SpentIsSum'
  BY <1>0, <1>1, <1>2 DEF SpentIsSum
<1>4. RowsExpire'
  BY DEF RowsKept, RowsExpire
<1>5. JobsHaveRows'
  <2> SUFFICES ASSUME NEW c \in Spends, pc[c] # "idle" PROVE rows'[job[c].id] # NoRow
    BY <1>0 DEF JobsHaveRows
  <2>1. job[c].id \in Ids
    BY <1>0, TxTyped DEF Jobs
  <2> QED
    BY <2>1 DEF RowsKept, SpentKept, BooksInv, JobsHaveRows
<1>6. FinitelyMany'
  BY <1>0 DEF FinitelyMany, BooksInv, Bumped
<1>7. \A tx : HasReceipt(tx, TRUE) => HasReceipt(tx, TRUE)'
  BY <1>0, ReceiptsStay DEF HasReceipt
<1>8. TransfersMined'
  <2>1. \A c : TransferTx(c)' = TransferTx(c)
    BY <1>0 DEF TransferTx
  <2> QED
    BY <1>0, <1>7, <2>1 DEF TransfersMined, BooksInv, HasReceipt
<1>9. CreditedMined'
  BY <1>7 DEF CreditedMined, BooksInv, HasReceipt
<1> QED
  BY <1>3, <1>4, <1>5, <1>6, <1>8, <1>9

\* What a call past Begin does to the books: nothing, unless it has its receipt,
\* bumps or credits.
Quiet(c) ==
    /\ rows' = rows /\ credited' = credited
    /\ pc[c] \notin {"credit", "done"} /\ pc'[c] \notin {"bump", "credit", "done"}

Receives(c) ==
    /\ rows' = rows /\ credited' = credited
    /\ pc[c] = "transfer_wait" /\ pc'[c] = "bump"
    /\ HasReceipt(TransferTx(c), TRUE)

Bumps(c) ==
    /\ rows' = BumpSpent(rows, job[c].id, job[c].atoms) /\ credited' = credited
    /\ pc[c] = "bump" /\ pc'[c] = "credit"

Credits(c) ==
    /\ rows' = rows /\ credited' \subseteq credited \cup {TransferTx(c)}
    /\ pc[c] = "credit" /\ pc'[c] = "done"

LEMMA SpendMoves ==
    ASSUME TInv, NEW c \in Spends, SpendStep(c) \/ Fail(c)
    PROVE  /\ UNCHANGED <<blocks, job>>
           /\ pc[c] # "idle" /\ pc'[c] # "idle"
           /\ \A d \in Spends \ {c} : pc'[d] = pc[d]
           /\ Quiet(c) \/ Receives(c) \/ Bumps(c) \/ Credits(c)
<1>2. pc \in [Spends -> {"idle"} \cup Running \cup Returned]
  BY DEF TInv, TypeOK, SpendTypeOK
<1> USE DEF Goto, envVars, authVars
<1>3. CASE \E answered \in BOOLEAN : CheckAllowance(c, answered)
  BY <1>2, <1>3 DEF CheckAllowance, Quiet
<1>4. CASE \/ Build(c, "permit", PermitTx(c), "permit_send")
           \/ Build(c, "transfer", TransferTx(c), "transfer_send")
  BY <1>2, <1>4 DEF Build, Quiet
<1>5. CASE \/ Send(c, "permit_send", PermitTx(c), "permit_wait")
           \/ Send(c, "transfer_send", TransferTx(c), "transfer_wait")
  <2>1. /\ UNCHANGED <<blocks, job, rows, credited>>
        /\ pc[c] \in {"permit_send", "transfer_send"}
        /\ \E w \in {"permit_wait", "transfer_wait", "failed"} : pc' = [pc EXCEPT ![c] = w]
    BY <1>5 DEF Send
  <2> QED
    BY <1>2, <2>1 DEF Quiet
<1>6. CASE Receipt(c, "permit_wait", PermitTx(c), "transfer")
  BY <1>2, <1>6 DEF Receipt, Quiet
<1>7. CASE Receipt(c, "transfer_wait", TransferTx(c), "bump")
  <2>1. PICK ok \in BOOLEAN : /\ HasReceipt(TransferTx(c), ok)
                              /\ pc' = [pc EXCEPT ![c] = IF ok THEN "bump" ELSE "failed"]
    BY <1>7 DEF Receipt
  <2>2. UNCHANGED <<blocks, job, rows, credited>> /\ pc[c] = "transfer_wait"
    BY <1>7 DEF Receipt
  <2>3. CASE ok = TRUE
    BY <1>2, <2>1, <2>2, <2>3 DEF Receives
  <2>4. CASE ok = FALSE
    BY <1>2, <2>1, <2>2, <2>4 DEF Quiet
  <2> QED
    BY <2>3, <2>4
<1>8. CASE ReceiptTimeout(c) \/ Fail(c)
  BY <1>2, <1>8 DEF ReceiptTimeout, Fail, Waiting, Running, Quiet
<1>9. CASE Bump(c)
  BY <1>2, <1>9 DEF Bump, Bumps
<1>10. CASE \E ok \in BOOLEAN : Credit(c, ok)
  BY <1>2, <1>10 DEF Credit, chainVars, Credits
<1> QED
  BY <1>3, <1>4, <1>5, <1>6, <1>7, <1>8, <1>9, <1>10 DEF SpendStep

LEMMA BeginBooks ==
    ASSUME TInv, BooksInv, NEW c \in Spends, NEW atoms \in Amounts, Begin(c, atoms)
    PROVE  (RowsExpire /\ SpentIsSum /\ JobsHaveRows /\ FinitelyMany /\ TransfersMined /\ CreditedMined)'
<1>1. PICK id \in ActiveForAgent(rows, Agent, clock) \ Errors :
          job' = [job EXCEPT ![c] =
              [id |-> id, amount |-> rows[id].amount, expiration |-> rows[id].expiration,
               sig |-> rows[id].sig, atoms |-> atoms, now |-> clock]]
  BY DEF Begin
<1>2. id \in Ids /\ rows[id] # NoRow
  BY ActiveForAgentAnswers
<1>3. /\ pc' = [pc EXCEPT ![c] = "allowance"] /\ pc[c] = "idle"
      /\ UNCHANGED <<blocks, rows, credited>>
  BY DEF Begin, Goto, envVars, authVars
<1>4. /\ job \in [Spends -> Jobs \cup {NoJob}]
      /\ pc \in [Spends -> {"idle"} \cup Running \cup Returned]
  BY DEF TInv, TypeOK, SpendTypeOK
<1>5. /\ \A d \in Spends \ {c} : job'[d] = job[d] /\ pc'[d] = pc[d]
      /\ job'[c].id = id /\ pc'[c] = "allowance"
  BY <1>1, <1>3, <1>4
<1>6. /\ \A d \in Spends : Bumped(d)' <=> Bumped(d)
      /\ \A d \in Spends : Bumped(d) => job'[d] = job[d]
  BY <1>3, <1>5 DEF Bumped
<1>7. \A i : BumpedOn(i)' = BumpedOn(i)
  BY <1>6 DEF BumpedOn
<1>8. ASSUME NEW i \in Ids PROVE SumOfAtoms(job', BumpedOn(i)) = SumOfAtoms(job, BumpedOn(i))
  <2>1. IsFiniteSet(BumpedOn(i))
    <3>1. BumpedOn(i) \in SUBSET {d \in Spends : Bumped(d)}
      BY DEF BumpedOn
    <3> QED
      BY <3>1, FS_Subset DEF BooksInv, FinitelyMany
  <2>2. \A x \in BumpedOn(i) : job'[x].atoms = job[x].atoms
    BY <1>6 DEF BumpedOn
  <2> QED
    BY <2>1, <2>2, SumSame
<1>9. SpentIsSum'
  BY <1>3, <1>7, <1>8 DEF SpentIsSum, BooksInv
<1>10. RowsExpire' /\ CreditedMined'
  BY <1>3 DEF BooksInv, RowsExpire, CreditedMined, HasReceipt, head
<1>11. JobsHaveRows'
  BY <1>2, <1>3, <1>5 DEF BooksInv, JobsHaveRows
<1>12. FinitelyMany'
  <2>1. {d \in Spends : Bumped(d)}' = {d \in Spends : Bumped(d)}
    BY <1>6
  <2> QED
    BY <2>1 DEF BooksInv, FinitelyMany
<1>13. TransfersMined'
  <2> SUFFICES ASSUME NEW d \in Spends, pc'[d] \in {"bump", "credit", "done"}
               PROVE  HasReceipt(TransferTx(d), TRUE)'
    BY DEF TransfersMined
  <2>1. d # c /\ job'[d] = job[d] /\ pc'[d] = pc[d]
    BY <1>5
  <2>2. TransferTx(d)' = TransferTx(d)
    BY <2>1 DEF TransferTx
  <2>3. HasReceipt(TransferTx(d), TRUE)
    BY <2>1 DEF BooksInv, TransfersMined
  <2> QED
    BY <1>3, <2>2, <2>3 DEF HasReceipt, head
<1> QED
  BY <1>9, <1>10, <1>11, <1>12, <1>13

\* BumpSpent adds to one row.
LEMMA BumpSpentAdds ==
    ASSUME rows \in Tables, NEW id \in Ids, NEW add \in Nat, rows[id] # NoRow,
           rows' = BumpSpent(rows, id, add)
    PROVE  /\ rows'[id].spent = rows[id].spent + add
           /\ \A other \in Ids \ {id} : rows'[other] = rows[other]
<1>1. rows[id] \in Authorization /\ rows[id].spent \in Nat
  BY DEF Tables, Authorization
<1> DEFINE new == [rows[id] EXCEPT !.spent = @ + add]
<1>2. new.spent = rows[id].spent + add
  BY <1>1 DEF Authorization
<1>3. rows' = [rows EXCEPT ![id] = new]
  BY DEF BumpSpent
<1> HIDE DEF new
<1> QED
  BY <1>2, <1>3 DEF Tables

LEMMA MoveBooks ==
    ASSUME TInv, BooksInv, NEW c \in Spends, SpendStep(c) \/ Fail(c)
    PROVE  (RowsExpire /\ SpentIsSum /\ JobsHaveRows /\ FinitelyMany /\ TransfersMined /\ CreditedMined)'
<1>0. rows \in Tables /\ SpendTypeOK
  BY DEF TInv, TypeOK, AuthTypeOK
<1>1. /\ UNCHANGED <<blocks, job>>
      /\ pc[c] # "idle" /\ pc'[c] # "idle"
      /\ \A d \in Spends \ {c} : pc'[d] = pc[d]
      /\ Quiet(c) \/ Receives(c) \/ Bumps(c) \/ Credits(c)
  BY SpendMoves
<1>2. job[c].id \in Ids /\ job[c].atoms \in Nat /\ rows[job[c].id] # NoRow
  <2>1. job[c] \in Jobs
    BY <1>0, <1>1, TxTyped
  <2> QED
    BY <1>1, <2>1, SpenderAssumption DEF Jobs, BooksInv, JobsHaveRows
<1>3. \A d \in Spends : d # c => (Bumped(d)' <=> Bumped(d))
  BY <1>1 DEF Bumped
<1>4. /\ \A id \in Ids : SamePermit(rows'[id], rows[id])
  <2>1. CASE rows' = rows
    BY <2>1 DEF SamePermit
  <2>2. CASE rows' = BumpSpent(rows, job[c].id, job[c].atoms)
    BY <1>0, <1>2, <2>2, BumpSpentEffect
  <2> QED
    BY <1>1, <2>1, <2>2 DEF Quiet, Receives, Bumps, Credits
<1>5. RowsExpire'
  BY <1>4 DEF RowsExpire, BooksInv, SamePermit
<1>6. JobsHaveRows'
  <2> SUFFICES ASSUME NEW d \in Spends, pc'[d] # "idle" PROVE rows'[job[d].id] # NoRow
    BY <1>1 DEF JobsHaveRows
  <2>1. pc[d] # "idle"
    BY <1>1
  <2>2. job[d].id \in Ids /\ rows[job[d].id] # NoRow
    BY <1>0, <2>1, TxTyped DEF Jobs, BooksInv, JobsHaveRows
  <2> QED
    BY <1>4, <2>2 DEF SamePermit
<1>7. ASSUME NEW tx, NEW ok PROVE HasReceipt(tx, ok)' <=> HasReceipt(tx, ok)
  BY <1>1 DEF HasReceipt, head
<1>8. \A d : TransferTx(d)' = TransferTx(d)
  BY <1>1 DEF TransferTx
<1>9. TransfersMined'
  <2> SUFFICES ASSUME NEW d \in Spends, pc'[d] \in {"bump", "credit", "done"}
               PROVE  HasReceipt(TransferTx(d), TRUE)
    BY <1>1, <1>8 DEF TransfersMined, HasReceipt, head
  <2>1. CASE d # c
    BY <1>1, <2>1 DEF BooksInv, TransfersMined
  <2>2. CASE d = c
    BY <1>1, <2>2 DEF BooksInv, TransfersMined, Quiet, Receives, Bumps, Credits
  <2> QED
    BY <2>1, <2>2
<1>10. CreditedMined'
  <2> SUFFICES ASSUME NEW tx \in credited' PROVE HasReceipt(tx, TRUE)
    BY <1>1 DEF CreditedMined, HasReceipt, head
  <2>1. CASE tx \in credited
    BY <2>1 DEF BooksInv, CreditedMined
  <2>2. CASE tx \notin credited
    <3>1. pc[c] = "credit" /\ tx = TransferTx(c)
      BY <1>1, <2>2 DEF Quiet, Receives, Bumps, Credits
    <3> QED
      BY <3>1 DEF BooksInv, TransfersMined
  <2> QED
    BY <2>1, <2>2
<1>11. CASE ~Bumps(c)
  <2>1. rows' = rows /\ (Bumped(c)' <=> Bumped(c))
    BY <1>1, <1>11 DEF Quiet, Receives, Credits, Bumped
  <2>2. \A d \in Spends : Bumped(d)' <=> Bumped(d)
    BY <1>3, <2>1
  <2>3. \A id : BumpedOn(id)' = BumpedOn(id)
    BY <1>1, <2>2 DEF BumpedOn
  <2>4. SpentIsSum'
    BY <1>1, <2>1, <2>3 DEF SpentIsSum, BooksInv
  <2>5. FinitelyMany'
    <3>1. {d \in Spends : Bumped(d)}' = {d \in Spends : Bumped(d)}
      BY <2>2
    <3> QED
      BY <3>1 DEF BooksInv, FinitelyMany
  <2> QED
    BY <1>5, <1>6, <1>9, <1>10, <2>4, <2>5
<1>12. CASE Bumps(c)
  <2>1. ~Bumped(c) /\ Bumped(c)'
    BY <1>12 DEF Bumps, Bumped
  <2>2. {d \in Spends : Bumped(d)}' = {d \in Spends : Bumped(d)} \cup {c}
    BY <1>3, <2>1
  <2>3. FinitelyMany'
    BY <2>2, FS_AddElement DEF BooksInv, FinitelyMany
  <2>4. /\ BumpedOn(job[c].id)' = BumpedOn(job[c].id) \cup {c}
        /\ c \notin BumpedOn(job[c].id)
        /\ \A id : id # job[c].id => BumpedOn(id)' = BumpedOn(id)
    BY <1>1, <1>3, <2>1 DEF BumpedOn
  <2> DEFINE S == BumpedOn(job[c].id)
  <2>5. IsFiniteSet(S)
    <3>1. S \in SUBSET {d \in Spends : Bumped(d)}
      BY DEF BumpedOn
    <3> QED
      BY <3>1, FS_Subset DEF BooksInv, FinitelyMany
  <2>6. \A x \in S \cup {c} : job[x].atoms \in Nat
    <3> SUFFICES ASSUME NEW x \in S PROVE job[x].atoms \in Nat
      BY <1>2
    <3>1. x \in Spends /\ pc[x] # "idle"
      BY DEF BumpedOn, Bumped
    <3>2. job[x] \in Jobs
      BY <1>0, <3>1, TxTyped
    <3> QED
      BY <3>2, SpenderAssumption DEF Jobs
  <2>7. SumOfAtoms(job, S \cup {c}) = SumOfAtoms(job, S) + job[c].atoms
    BY <2>4, <2>5, <2>6, SumPlus
  <2>8. /\ rows'[job[c].id].spent = rows[job[c].id].spent + job[c].atoms
        /\ \A other \in Ids \ {job[c].id} : rows'[other] = rows[other]
    BY <1>0, <1>2, <1>12, BumpSpentAdds DEF Bumps
  <2>9. rows[job[c].id].spent = SumOfAtoms(job, S)
    BY <1>2 DEF BooksInv, SpentIsSum
  <2>10. ASSUME NEW id \in Ids, rows'[id] # NoRow
         PROVE  rows'[id].spent = SumOfAtoms(job, BumpedOn(id)')
    <3>1. CASE id = job[c].id
      <4>1. BumpedOn(id)' = S \cup {c}
        BY <1>1, <1>3, <2>1, <3>1 DEF BumpedOn
      <4>2. rows'[id].spent = SumOfAtoms(job, S) + job[c].atoms
        BY <2>8, <2>9, <3>1
      <4> HIDE DEF S
      <4> QED
        BY <2>7, <4>1, <4>2
    <3>2. CASE id # job[c].id
      <4>1. BumpedOn(id)' = BumpedOn(id) /\ rows'[id] = rows[id]
        BY <2>4, <2>8, <3>2
      <4> QED
        BY <2>10, <4>1 DEF BooksInv, SpentIsSum
    <3> QED
      BY <3>1, <3>2
  <2>11. SpentIsSum'
    BY <1>1, <2>10 DEF SpentIsSum
  <2> QED
    BY <1>5, <1>6, <1>9, <1>10, <2>3, <2>11
<1> QED
  BY <1>11, <1>12

LEMMA BooksStep == SInv /\ BooksInv /\ [Next]_vars => BooksInv'
<1> SUFFICES ASSUME SInv, BooksInv, [Next]_vars PROVE BooksInv'
  OBVIOUS
<1>0. TInv /\ EnvTypeOK /\ LogsExpire /\ TickLogged /\ RowsExpire
  BY DEF SInv, TInv, TypeOK, BooksInv
<1>1. TickLogged'
  BY <1>0, TickLogs
<1>2. CASE UNCHANGED vars
  <2>1. UNCHANGED <<spendVars, rows, blocks, credited>>
    BY <1>2 DEF vars, authVars, envVars
  <2>2. LogsExpire' /\ Grows /\ RowsKept
    BY <1>0, <2>1, SameLogs, SameGrows, SameBooks
  <2> QED
    BY <1>0, <1>1, <2>1, <2>2, OthersKeepBooks DEF BooksInv
<1>3. CASE EnvNext /\ UNCHANGED <<authVars, spendVars>>
  <2>1. LogsExpire' /\ Grows
    BY <1>0, <1>3, EnvLogs, EnvStepTypes
  <2>2. RowsKept /\ credited' = credited
    BY <1>0, <1>3, SameBooks
       DEF authVars, EnvNext, Mine, ForeignPermit, Lockdown, AdvanceClock
  <2> QED
    BY <1>0, <1>1, <1>3, <2>1, <2>2, OthersKeepBooks DEF BooksInv
<1>4. CASE AuthNext /\ UNCHANGED spendVars
  <2>1. UNCHANGED <<blocks, credited>>
    BY <1>4 DEF AuthNext, VerifyAndCache, envVars
  <2>2. LogsExpire' /\ Grows /\ RowsKept
    BY <1>0, <1>4, <2>1, SameLogs, SameGrows, AuthBooks
  <2> QED
    BY <1>0, <1>1, <1>4, <2>1, <2>2, OthersKeepBooks DEF BooksInv
<1>5. CASE Spending
  <2>1. PICK c \in Spends :
            \/ \E atoms \in Amounts : Begin(c, atoms)
            \/ SpendStep(c) \/ Fail(c)
    BY <1>5 DEF Spending, SpendNext
  <2>2. blocks' = blocks
    BY <1>0, <2>1, SpendMoves DEF Begin, envVars
  <2>3. (RowsExpire /\ SpentIsSum /\ JobsHaveRows /\ FinitelyMany /\ TransfersMined /\ CreditedMined)'
    BY <1>0, <2>1, BeginBooks, MoveBooks
  <2> QED
    BY <1>0, <1>1, <2>2, <2>3, SameLogs DEF BooksInv
<1>6. CASE Watching
  <2>1. RowsKept /\ credited' = credited /\ blocks' = blocks
    BY <1>0, <1>6, LoopBooks DEF Watching
  <2>2. LogsExpire' /\ Grows
    BY <1>0, <2>1, SameLogs, SameGrows
  <2> QED
    BY <1>0, <1>1, <1>6, <2>1, <2>2, OthersKeepBooks DEF BooksInv, Watching
<1> QED
  BY <1>2, <1>3, <1>4, <1>5, <1>6 DEF Next, Environs

\* A row's SpentAtoms is the sum of the Spends recorded on it, each of them, and
\* each credited transfer, mined and not reverted - for any number of Spends
\* that run at once, time out, replace each other in the pool or have their row
\* refreshed under them (spend.go, Spend; store.go, Upsert and BumpSpent).
THEOREM BooksMatchChain == Spec => []SpentIsSettled
<1>1. SInv /\ BooksInv => SpentIsSettled
  BY BooksAreSettled
<1> QED
  BY <1>1, InitSigned, InitBooks, SignedStep, BooksStep, PTL DEF Spec

BooksUntouched ==
    /\ credited' = credited
    /\ \A id \in Ids : rows[id] # NoRow => rows'[id].spent = rows[id].spent

\* No step of the event loop credits a Transfer or changes a SpentAtoms, with or
\* without a Crediter: applyTransfer asks for a row that outlasts the largest
\* int64 and there is none (listener.go, applyTransfer).  A Transfer whose Spend
\* did not record it is never reconciled, against what EventLoop's comment says.
THEOREM TransfersIgnored == Spec => [][Watching => BooksUntouched]_vars
<1>1. SInv /\ BooksInv /\ [Next]_vars => [Watching => BooksUntouched]_vars
  <2> SUFFICES ASSUME SInv, BooksInv, Watching PROVE BooksUntouched
    OBVIOUS
  <2>1. RowsKept /\ credited' = credited
    BY LoopBooks DEF Watching, SInv, BooksInv
  <2> QED
    BY <2>1 DEF BooksUntouched, RowsKept, SpentKept
<1> QED
  BY <1>1, InitSigned, InitBooks, SignedStep, BooksStep, PTL DEF Spec
=============================================================================
