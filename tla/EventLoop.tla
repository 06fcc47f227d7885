------------------------------ MODULE EventLoop ------------------------------
(***************************************************************************)
(* EventLoop.Tick (listener.go): read the blocks after the watermark,      *)
(* apply their Permit and Lockdown logs to the store, then their Transfer  *)
(* logs, then save the watermark.                                          *)
(*                                                                         *)
(* Run calls Tick from one goroutine, so there is one tick at a time; each *)
(* log is applied by a store call of its own, with the other users of the  *)
(* store in between.                                                       *)
(***************************************************************************)
EXTENDS Authorizer

CONSTANTS
    OurAgents,              \* AgentFilter
    MaxBlocksPerTick,
    InitialBackfillBlocks,
    SavedWatermarks,        \* watermarks a restarted loop may find
    MaxInt64,               \* the "now" applyTransfer asks with
    Crediter,               \* whether the loop has a Crediter
    MaxFaults               \* bound on interrupted ticks and store errors

VARIABLES
    watermark,  \* WatermarkStore
    tick,       \* the tick under way: [at, logs, from, to], logs the blocks to apply yet
    faults,
    origin,     \* history: the watermark the loop started from
    seen,       \* history: the highest block a log was applied from
    skipped     \* history: blocks whose log hit a store error

loopVars == <<watermark, tick, faults, origin, seen, skipped>>

ASSUME LoopAssumption ==
    /\ MaxBlocksPerTick \in Nat \ {0}
    /\ InitialBackfillBlocks \in Nat
    /\ SavedWatermarks \subseteq 0..1   \* the chain starts at block 1
    /\ MaxFaults \in Nat
    /\ MaxInt64 \in Nat
    /\ Crediter \in BOOLEAN
    /\ \A s \in Signatures : s.expiration <= MaxInt64

Idle == [at |-> "idle", logs |-> {}, from |-> 0, to |-> 0]

LoopInit ==
    /\ watermark \in SavedWatermarks
    /\ tick = Idle
    /\ faults = 0
    /\ origin = watermark
    /\ seen = 0
    /\ skipped = {}

\* FilterLogs: the blocks from..to with such an event.
FilterLogs(events, from, to) ==
    {b \in from..to : blocks[b].log # NoLog /\ blocks[b].log.event \in events}

\* Logs come in the order of their blocks.
NextLog(b) == b \in tick.logs /\ \A other \in tick.logs : b <= other

-----------------------------------------------------------------------------
\* A plausible slip: no check that the chain is longer than the backfill, so
\* that the unsigned subtraction wraps round.
SeedBlockUnchecked ==
    IF InitialBackfillBlocks > 0
    THEN (head - InitialBackfillBlocks) % (2 * MaxInt64 + 2)
    ELSE head

\* Watermark 0 means "never saved": start at the head, or a backfill before it.
SeedBlock ==
    IF InitialBackfillBlocks > 0 /\ head > InitialBackfillBlocks
    THEN head - InitialBackfillBlocks
    ELSE head

FirstBlock(wm) == wm + 1

\* A plausible slip: the cap is one block short.
LastBlockShort(from) ==
    IF head > from + MaxBlocksPerTick - 2 THEN from + MaxBlocksPerTick - 2 ELSE head

LastBlock(from) ==
    IF head > from + MaxBlocksPerTick - 1 THEN from + MaxBlocksPerTick - 1 ELSE head

\* Tick up to its first FilterLogs.  The seed is saved at once.
TickStart ==
    /\ tick.at = "idle"
    /\ watermark = 0 \/ watermark < head
    /\ LET wm == IF watermark = 0 THEN SeedBlock ELSE watermark
           from == FirstBlock(wm)
           to == LastBlock(from)
       IN  /\ watermark' = wm
           /\ origin' = IF watermark = 0 THEN wm ELSE origin
           /\ tick' = IF wm >= head THEN Idle
                      ELSE [at |-> "permit2", from |-> from, to |-> to,
                            logs |-> FilterLogs({"Permit", "Lockdown"}, from, to)]
    /\ UNCHANGED <<envVars, authVars, faults, seen, skipped>>

\* DecodeLockdown succeeds for a log of four topics and for no other.
DecodeLockdown(log) == log.topics = 4

Undecodable(log) == log.event = "Lockdown" /\ ~DecodeLockdown(log)

\* A plausible slip: a row that is there already is not refreshed.
AppliedToNew(log, b) ==
    IF Undecodable(log) \/ log.id.agent \notin OurAgents THEN rows
    ELSE IF log.event = "Permit"
         THEN IF rows[log.id] # NoRow THEN rows
              ELSE Upsert(rows, log.id,
                [amount |-> log.amount, expiration |-> log.expiration, sig |-> NoSig,
                 spent |-> 0, revoked |-> FALSE, locked |-> FALSE, created |-> b])
         ELSE MarkLocked(rows, log.id.owner, log.id.agent, log.id.token)

\* What applyPermit2 makes of the store for a log of block b: nothing for a log
\* that is not decoded or not for one of our agents, or one store call.
Applied(log, b) ==
    IF Undecodable(log) \/ log.id.agent \notin OurAgents THEN rows
    ELSE IF log.event = "Permit"
         THEN Upsert(rows, log.id,
                [amount |-> log.amount, expiration |-> log.expiration, sig |-> NoSig,
                 spent |-> 0, revoked |-> FALSE, locked |-> FALSE, created |-> b])
         ELSE MarkLocked(rows, log.id.owner, log.id.agent, log.id.token)

\* An error of the decoding or of the store call is swallowed and the loop goes
\* on; only that of the store call is recorded in "skipped".
ApplyPermit2(stored) ==
    /\ tick.at = "permit2"
    /\ stored \/ faults < MaxFaults
    /\ \E b \in tick.logs :
          /\ NextLog(b)
          /\ rows' = IF stored THEN Applied(blocks[b].log, b) ELSE rows
          /\ seen' = IF b > seen THEN b ELSE seen
          /\ skipped' = IF stored THEN skipped \ {b} ELSE skipped \cup {b}
          /\ tick' = [tick EXCEPT !.logs = @ \ {b}]
    /\ faults' = IF stored THEN faults ELSE faults + 1
    /\ UNCHANGED <<envVars, authHead, watermark, origin>>

\* The Transfer filter; its error is swallowed too.
FilterTransfers(answered) ==
    /\ tick.at = "permit2" /\ tick.logs = {}
    /\ tick' = [tick EXCEPT !.at = "transfers",
                            !.logs = IF answered
                                     THEN FilterLogs({"Transfer"}, tick.from, tick.to)
                                     ELSE {}]
    /\ UNCHANGED <<envVars, authVars, watermark, faults, origin, seen, skipped>>

\* applyTransfer: credit, if there is a ledger to credit, and bump the row
\* ActiveForOwner finds, unless the ledger fails or says the transfer was
\* credited before.  An error of the ledger or of BumpSpent is swallowed.
ApplyTransfer(booked, bumped) ==
    /\ tick.at = "transfers"
    /\ \E b \in tick.logs :
          LET log == blocks[b].log
          IN  \E answer \in ActiveForOwner(rows, log.id.owner, log.id.token, MaxInt64) :
              /\ NextLog(b)
              /\ tick' = [tick EXCEPT !.logs = @ \ {b}]
              /\ credited' = IF answer \in Errors \/ ~Crediter \/ ~booked THEN credited
                             ELSE credited \cup {log.tx}
              /\ rows' = IF \/ answer \in Errors
                            \/ Crediter /\ (~booked \/ log.tx \in credited)
                            \/ ~bumped
                         THEN rows
                         ELSE BumpSpent(rows, answer, log.amount)
    /\ UNCHANGED <<clock, chainVars, authHead, watermark, faults, origin, seen, skipped>>

\* A plausible slip: the head is saved, not the end of the range.
CommitHead ==
    /\ tick.at = "transfers" /\ tick.logs = {}
    /\ watermark' = head
    /\ tick' = Idle
    /\ UNCHANGED <<envVars, authVars, faults, origin, seen, skipped>>

CommitWatermark ==
    /\ tick.at = "transfers" /\ tick.logs = {}
    /\ watermark' = tick.to
    /\ tick' = Idle
    /\ UNCHANGED <<envVars, authVars, faults, origin, seen, skipped>>

\* The tick ends early: a FilterLogs or SetWatermark error, or a restart of the
\* process.  What it stored stays, the watermark does not move.
TickAbort ==
    /\ tick.at # "idle"
    /\ faults < MaxFaults
    /\ faults' = faults + 1
    /\ tick' = Idle
    /\ UNCHANGED <<envVars, authVars, watermark, origin, seen, skipped>>

LoopStep ==
    \/ TickStart
    \/ ApplyPermit2(TRUE)
    \/ \E answered \in BOOLEAN : FilterTransfers(answered)
    \/ \E booked, bumped \in BOOLEAN : ApplyTransfer(booked, bumped)
    \/ CommitWatermark

LoopNext == LoopStep \/ ApplyPermit2(FALSE) \/ TickAbort
=============================================================================
