# Verification of the agent wallet

TLA+ modules, TLC configurations and TLAPS proofs for `github.com/jianmliu/aigg-wallet`,
a Go library (`package agentwallet`) and HTTP signing service (`cmd/wallet-svc`) with
which an agent spends an owner's tokens under a Permit2 authorization. The modules are
translated from the Go source; `PROJECT.json` maps each definition to the lines it
stands for.

## 1. The system

An *owner* signs an EIP-712 permit off chain: "agent A may spend up to X of token T until
E, nonce N". The wallet checks and caches it, and later spends from it on chain.

| component | source | state it keeps | operations |
|---|---|---|---|
| authorization store (port and in-memory implementation) | `store.go` | rows keyed by (owner, agent, token, nonce): amount, expiration, signature, spent, revoked, locked, created | `Upsert`, `ActiveForAgent`, `ActiveForOwner`, `BumpSpent`, `MarkLocked` |
| authorizer | `authorize.go`, `eip712.go` | none of its own | `VerifyAndCache` |
| spender | `spend.go`, `permit2.go` | none between calls; per call a copy of the row and the transactions sent | `Spend` |
| event loop | `listener.go` | the watermark | `Run`, `Tick` |
| gas funder | `gasfunder.go` | a mutex; the funder's account on the chain | `EnsureGas` |
| receipt wait, chain client | `rpc.go` | a deadline | `WaitForReceipt`, `RealBaseRPC` |
| typed data, signatures | `eip712.go` | none | build, sign, recover (Permit2, EIP-2612, EIP-3009) |
| key derivation, signer, seed source | `derive.go`, `signer.go`, `seedsource.go` | copies of a seed; per call a key | `Derive`, `DeriveAgent`, `DerivePath`, `MasterSeed`, `NewBIP44Signer`, `Sign*` |
| passkeys, smart accounts | `p256.go`, `webauthn.go`, `erc1271.go`, `smartaccount.go`, `csw.go` | none | normalise, wrap, verify; owners, factory calls |
| wallet service | `cmd/wallet-svc/*.go` | the seed and the configuration read at boot | `main`, nine HTTP handlers |

What makes each of them correct:

- *store*: one row per identity however it is spelled; no write loses a recorded spend; a
  query returns the row the interface's comments describe.
- *authorizer*: a cached row is what its owner signed, and stays so.
- *spender*: what is submitted is what was signed; a spend is recorded exactly when it is
  settled; never more than the amount of the row; every call returns.
- *event loop*: no block is left unread, a revocation that was read is final until the owner
  signs again, a Transfer is reconciled once.
- *gas funder*: one top-up at a time, no nonce used twice, no needless top-up, no lock kept.
- *receipt wait*: no receipt of the window is missed, the window is overrun by at most one
  interval and one request, a cancelled caller is not kept, every wait ends.
- *amount texts*: whatever text, integer width and signature byte a permit travels through,
  what reaches the chain is what was signed.
- *derivation*: distinct selectors, distinct keys; *signer, seed source*: a caller that
  overwrites its seed changes nothing for the others, and no key outlives its call.
- *passkeys*: what the library checks off chain predicts what the account accepts on chain;
  *smart accounts*: the owners the contract decodes are the ones that were asked for.
- *service*: nothing without the token, nothing off policy, wire and signature agree, a
  selector keeps its wallet over restarts.

How they interact:

- `Authorizer`, `Spender` and `EventLoop` share one `AuthorizationStore` and run in
  different goroutines (HTTP handlers, callers, a polling loop). The store protects each
  *method*; nothing protects a sequence of them.
- `Spender` calls `GasFunder`, then the chain (allowance, permit, transferFrom), waiting
  for each receipt, then writes the store, then the consumer's ledger (`Crediter`).
- `EventLoop` reads the Permit and Lockdown logs the chain produced, also those caused by
  `Spender` itself, writes them to the store, and reconciles Transfers with the ledger.

What is hard here, and hard to reach with a test: two Spends working on one row and one
account nonce; a copy of a row that is stale when its transaction is mined; a receipt wait
that times out before the transaction is mined; a tick interrupted half way and run again
over newer state; an observed event that arrives after a newer submission; errors that are
swallowed; a mutex held over network calls; a seed slice that two owners share; an
environment variable that does not parse; a number at the edge of its type. `PROJECT.json`
lists each of these hazards at its line, with the properties that would catch it going wrong.

## 2. Modules

```
Authorizations           rows and the port's operations, as operators on a table
  AuthorizationStore     the port as an abstract specification
  MemoryStore            the slice behind the port; implements AuthorizationStore
    MemoryStoreProofs
  Environment            external: chain, agent's account, clock, ledger
    Authorizer           VerifyAndCache
      Spender            concurrent Spend calls
      EventLoop          Tick, step by step
        AgentWallet      = Authorizer + Spender + EventLoop over one store and one chain
          AgentWalletProofs
GasFunder                concurrent EnsureGas calls
  GasFunderProofs
ReceiptOutcome           the wait that Spender and GasFunder assume
ReceiptWait              WaitForReceipt against a clock; implements ReceiptOutcome
  ReceiptWaitProofs
DecimalText              decimal strings and their parsers
  TypedData              the EIP-712 builders, hashing limits, signatures and v
    PermitText           one permit from text to calldata
      PermitTextProofs
KeyDerivation            hardened paths
  SeedSource             static, environment and enclave sources
    Signer               (with TypedData) BIP44Signer and whose bytes are whose
      SignerProofs
HttpGate                 method and bearer token, what every handler starts with
  WalletService          (with SeedSource, TypedData) boot, endpoints, restarts
    WalletServiceProofs
  SmartAccount           (with Passkey, DecimalText) the smart-account endpoints
    SmartAccountProofs
Passkey                  low-s, DER, client data, the ERC-1271 blob, the on-chain verifier
```

`MC<module>.tla` and the `.cfg` files hold the instances TLC checks.

**Authorizations.** `rows[id]` is `NoRow` or the record the Go struct holds, `id` being
its identity. `Upsert` replaces everything but the accumulated spend (and keeps the old
creation time if the new row has none); `MarkLocked` locks all nonces of an owner, agent
and token. A query returns the *set* of answers the code may give: the port leaves ties in
`CreatedAtUnix` open. `pickActive` first keeps the active rows, then prefers the signed
ones, then the most recent, and distinguishes "no row" from "no signature".

**AuthorizationStore / MemoryStore.** The first is the table under its three writes; the
second is the slice, searched linearly with case-insensitive comparison, appended to and
updated in place. Addresses in the slice are pairs of an address and a spelling
(`Cases`), because what the slice's code has to get right is that one identity written
two ways is one row. `TableOf` maps the slice to the table; `Port!Spec`
is checked as a property and proved.

**Environment** is not code of the repository. It has one transaction per block, no
reorganisation, a Permit2 that checks signature, domain, deadline and nonce and moves the
nonce on, a Lockdown that zeroes the amount and whose log has one of the numbers of topics in
`LockdownTopics` (the canonical Permit2 indexes the owner only and emits two; the decoder and the
repository's tests have four), an agent account with pending transactions by
nonce (refused, replaced or accepted), other people submitting permits, an owner revoking,
a clock, and a ledger that is idempotent on the transaction (as `Crediter`'s doc requires).
A signature is the record of what was signed and by whom; recovery gives the signer when it
is shown exactly that, some other address when not.

**Authorizer.** The checks of `VerifyAndCache` in order, then the `Upsert`; a rejected
submission is no step. Submitters offer any parameters with any signature and any claimed
owner. Typed data carries the *submitter's* domain, as in the code.

**Spender.** One action per stretch between two awaited calls; `job[c]` is the row a call
copied out at its start. `Begin` is everything up to the gas funder (a call that fails
there changed nothing), `CheckAllowance` is `allowanceCovers` with its error read as "no",
`Build`/`Send`/`Receipt` are instantiated for permit and transferFrom, `ReceiptTimeout` is
the end of `WaitForReceipt`'s window, `Bump` and `Credit` the last two calls. `Fail` is any
error, a cancelled context or a crash; what was sent stays in the pool and may be mined
later.

**EventLoop.** `TickStart` reads head and watermark, seeds it if it is 0, caps the range and
filters; `ApplyPermit2(stored)` applies one log, or loses it to a swallowed error: of the store,
or of `DecodeLockdown`, which refuses every log that has not four topics. `FilterTransfers`,
`ApplyTransfer` (with a `Crediter` or, as the field is optional, without), `CommitWatermark` follow; `TickAbort` is an error or a
restart anywhere in between, with the store and the watermark kept. `origin`, `seen` and
`skipped` are history variables for the properties.

**GasFunder.** The balance read outside the mutex, the one under it (its error does not
stop the top-up), the funder's balance, the pending nonce, the send (answered, or its answer
lost) and the receipt wait. The mutex is released on every return. `lapses` counts, per
account, the top-ups left behind unverified.

**ReceiptWait / ReceiptOutcome.** The loop of `WaitForReceipt` in the code's order: context,
request, answer, deadline, sleep. Time passes only while a request is at the node (at most
`Latency`) or the loop sleeps. The node looks a receipt up at some instant of the request
(`Look`), so one that appears later during the same request is not in the answer. The select
after the sleep takes either branch when both are ready. `ReceiptOutcome` is the two-variable
wait that the `Receipt` and `ReceiptTimeout` actions of `Spender` and `GasFunder` stand for.

**DecimalText, TypedData, PermitText.** A text is its blanks, sign, leading zeros and digits.
`decimalToBigInt` trims and refuses negatives; `SetString`, which `Spend` uses on the cached
row, does neither. Machine words are scaled (`Word` for 2^64, `AmountLimit` for 2^160,
`UintLimit` for 2^48, `WideLimit` for 2^256), and the conversions between int64 and uint64 wrap.
`TypedData` also has EIP-2612 and EIP-3009, used by `Signer` and `WalletService`. A signature
is the message, the key, the parity it was made with, the v byte that carries it and its
spelling; `decodeSig65` and `decodeSigOnchain` treat v differently and must agree.

**KeyDerivation, SeedSource, Signer.** A key is named by its seed and path. `Signer` is about
aliasing: seed bytes live in buffers (the source's, the holder's, the signer's); copying or
sharing is which buffer an operation returns. Two calls run concurrently while the holder
overwrites its copy and builds new signers. `Start` is a method up to its derivation, `Finish`
the rest with the deferred `Zeroize`.

**WalletService.** `env` is what the operator set, `svc` what `main` made of it: defaults,
trimmed strings, ignored parse errors (`ParseInt` gives 0, or the nearest end of the range),
gates that open for exactly `"1"`. `main` chooses the seed: the enclave when its URL is set,
with no way back to the variable. `Crash` and `main` may alternate, the enclave failing at any
boot. Each handler is one action, as handlers share nothing they write; the order of its checks
gives the reply codes. `book` records every selector that was served with its key.

**Passkey, SmartAccount.** The scalar arithmetic is modelled over a small odd group order; the
ABI packs a number modulo `WideLimit`. `clientDataIndices` looks for bytes (only `tight` fields
match) and takes the first field of a name, `Challenge` parses JSON and takes the last, and
`IsValidSignature`, from how the code prepares its input, wants the user-presence bit of the
authenticator's data, at which the code never looks, and reads the fields at the given indices. Owner bytes are digit sequences; a coordinate that does
not fit panics in `FillBytes` and the connection is dropped. `FillBytes` packs the magnitude of a
number (`Magnitude`): the minus sign that `SetString` accepts is gone.

Simplifications, all of them in the model's favour of being smaller rather than the code's:

- in `AgentWallet` amounts and times are naturals; `PermitText` has the texts and widths, for
  one permit at a time;
- `buildSignSend`'s nonce read and gas estimate are one step (`Build`); fee computation is
  left out; a gas estimate fails when the call would revert on the latest block;
- inside `Spend`, `EnsureGas` is a success or one of the errors of `Fail`;
- an error of `BumpSpent` in a Spend means that nothing was written (true of `MemoryStore`;
  a database may differ);
- Permit2's unlimited allowance (2^160-1 is not decremented) is not special-cased;
- the copies that the BIP-32 and ECDSA libraries make of a key are left to Go's garbage
  collector, in the code as in the model: `KeysScrubbed` is about `AgentKey.PrivateKey`;
- the random nonce of `/sign/eip3009` is one value and its reader does not fail;
- DER integers fit a word (`AssertionAssumption`); client data is a flat list of fields, which may
  repeat a name, with no nested objects and no variants of a name in upper case.

## 3. Runs

| run | configuration | what it shows |
|---|---|---|
| `memory_store` | two agents, two nonces, two spellings, signed, unsigned and revoked rows | the slice has one row per identity however it is spelled (`UniqueIds`), every query answers what the port allows (`AnswersMeetPort`), a recorded spend never shrinks (`SpentNeverShrinks`), and the slice implements the port (`MeetsPort`) |
| `wallet` | two Spends beside the event loop, two permits for one nonce (one for another chain's Permit2), a clock that passes the expiration, one foreign block | the row's signature covers the row (`CachedPermitIsSigned`), so does a permit in flight (`SubmittedPermitIsSigned`), the books match the chain (`SpentIsSettled`), and an observed Permit overrides what was cached before it with another amount (`PermitsHold`) |
| `watch` | one Spend beside an event loop without a Crediter that reads one block per tick, two foreign blocks, Lockdowns of two and of four topics, a watermark that is saved or not, one fault | no row is spendable after an observed Lockdown of four topics (`LockdownHolds`) and none differs from an observed Permit (`PermitsHold`), unless submitted again, over ranges read twice, capped, or with a swallowed error on another log; every block gets behind the watermark (`LoopCatchesUp`); the Spend returns (`SpendReturns`) |
| `gas_funder` | three calls, two for one account | the mutex works (`LockDiscipline`), no nonce is raced (`NonceStaysFresh`), no agent gets more than one top-up it does not need except after a timeout, a lost answer or a failed balance read (`TopUpsJustified`), every call returns (`EnsureGasReturns`) |
| `receipt_wait` | windows of -1, 0, 1 and 4, intervals of -1, 0, 1 and 3, requests of up to 2 | a timeout is never reported for a receipt that was there one request before the end of the window (`TimeoutMissesNothing`), the overrun is bounded (`WithinWindow`), a cancelled call ends within one request (`CancelIsPrompt`), the wait is the one its callers assume (`MeetsOutcome`) and ends although nothing is mined (`WaitReturns`) |
| `permit_text` | twelve amount texts, all nonces and deadlines of 3-bit words, five v bytes, four spellings, two rows | the calldata of permit() carries the numbers and the v that were signed (`SentPermitVerifies`), each fits its type and the amount is positive (`SentPermitFits`), no spelling is read as another number (`AmountReadAsSigned`) |
| `signer` | two concurrent calls, every kind of request, good and failing; default and given coin types; a reserved and an unhardened account | signatures are the original seed's whatever happened to the holder's copy (`SignsAsItself`), every way out scrubs the key (`KeysScrubbed`) |
| `wallet_service` | a production environment and every change of one variable of it, failing boots, restarts, two requests | `NothingWithoutToken`, `OnPolicy`, `WireVerifies`, `AddressesStable`, `StructuredIsolation` |
| `smart_account` | a group of order 7, every s of a word, client data in every order and shape, with repeated fields, users present and absent, owners at the edges, with signs and with blanks | what the chain accepts passed the check off chain, and what passed is accepted if the user was present and there is one challenge (`SanityCheckPredicts`), the contract reads the owners of the request (`OwnersDecodeBack`) |

Bounds. Two Spends are enough for every pairwise race on a row, an account nonce or a
pool slot; no step of a Spend looks at more than one other. Two permits for one nonce give
re-submission with another amount. Lockdowns have two and four topics in `watch`, so that
decodable and undecodable ones precede and follow each other; four in `wallet`, where none of the
properties tells them apart but for the rows they leave active; two, as on chain, in the violation
runs. With two foreign blocks beside the Spend's own permit and
transfer, Permit, Lockdown and re-Permit of one row happen in every order, and with one block
per tick over several ticks. One fault (`MaxFaults`) makes one range be applied twice, or one
log be lost. `MaxTime` two past the start lets every permit expire while Spends are under way,
first for the wallet (which needs time left) and then for the chain. More owners, agents and
longer chains are left to the proofs, which have no bounds. In `gas_funder` the balance the
funder starts with pays for two successful top-ups or several reverted ones, so that it runs
dry with a call still to come. In `receipt_wait` the windows are shorter than, equal to and
longer than an interval and a request. In `permit_text` and `signer` the words are 3 bits wide
with 2-bit limits, so that every value on both sides of every limit is tried. In
`wallet_service` two requests are enough, as every property relates at most two; variables are
changed one at a time because no two of them are read together except token URL and seed, the
two gates, and the three that `/sign/eip3009` needs, each of which is refused on its own. In
`smart_account` each request stands alone. Deadlock is not checked where a bounded environment
stops (all calls returned, all blocks used); the store and the smart-account endpoints, which
never stop, check it.

Fairness. Each running Spend takes its next step eventually: its RPC calls return or fail
and `WaitForReceipt` has a deadline; mining is *not* assumed fair. The event loop's steps
are fair because `Run` ticks for ever; errors are bounded by `MaxFaults` in the `watch` run
(a node that always errs stops the loop for good). For the gas funder, each call's own steps
are weakly fair, and `Lock` strongly fair because Go's `sync.Mutex` hands itself to a waiter
that has starved for a millisecond. In `ReceiptWait` the loop's steps and time are weakly
fair: a request is answered, or fails, within its latency. Neither mining nor cancelling is.

### Where the code does not do what it says

Three runs expect a violation; each is quoted in `PROJECT.json` under `findings`.

- `overspend`: `ErrAllowanceExceeded` "is returned when a spend would exceed the remaining
  Permit2 allowance recorded on the authorization", but two concurrent Spends both read
  the remaining amount before either records its spend. If the chain's allowance comes from
  a different permit of the same owner, agent and token, nothing stops the second.
- `signature_lost`: a blank signature is documented as "for event-sourced rows", but
  observing the agent's own `permit()` upserts the submitted row with a blank signature. The
  agent's next `Spend` ends with `ErrAuthorizationMissingSignature` although the authorization has
  allowance left.
- `lockdown_unread`: the loop "polls Permit2 (Permit+Lockdown) and optionally USDC Transfer
  (to=treasury) events and reconciles the AuthorizationStore". It does neither for what the owner
  and the treasury do on chain.
  - `DecodeLockdown` wants four topics (`listener.go:62`), and the canonical Permit2, "used as-is",
    declares `Lockdown(address indexed owner, address token, address spender)`: two topics. The
    filter fetches the log, the decoder's error is dropped (`listener.go:189`), the watermark moves
    on, and the rows the owner revoked stay active. This is the run's trace.
  - `applyTransfer` asks for rows that are active at the largest int64 (`listener.go:245`), where
    a row is active only if it expires *after* the given time: none is, so a Transfer to the
    treasury is never reconciled. With `LockdownTopics = {4}` in `MCEvents.cfg` TLC violates the
    same property by such a Transfer; the theorem `TransfersIgnored` proves that none ever has an
    effect. (It is also what keeps `SpentIsSettled` true beside the event loop: a reconciled
    Transfer of a Spend that has not been credited yet would be recorded twice.)

  `LockdownHolds` and its theorem are therefore about Lockdowns of four topics: they show that the
  loop would keep a revocation it could read. For the canonical contract they say nothing, and the
  owner's protection is the chain, whose allowance a Lockdown zeroes.

Seven smaller ones have no run of their own; the model follows the code, and the properties say
only what it keeps:

- an amount of "00" or "-0" passes the bound "amount > 0" (`authorize.go:39`), which compares
  texts; `SentPermitFits` shows that it never reaches the chain;
- an amount with blanks around it is verified trimmed and cached untrimmed; `Spend` then cannot
  read it. `AmountReadAsSigned` says so exactly;
- a `WALLET_MAX_VALUE` that is no number is dropped and the service signs without a cap
  (`main.go:351`); `OnPolicy` promises the cap only where it is a number;
- a passkey coordinate with a minus sign passes `SetString` (`csw.go:34`) and is encoded without
  it (`smartaccount.go:34`); `OwnersDecodeBack` promises the magnitude;
- client data with two challenges is echoed with the last (`webauthn.go:63`) and indexed at the
  first (`webauthn.go:81`), so that the account refuses what the sanity check verified;
- the sanity check looks at no flag of the authenticator's data, and the account requires user
  presence; `SanityCheckPredicts` promises acceptance only where both are in order;
- one failed request ends `WaitForReceipt`, where its comment has three ways out only
  (`rpc.go:106`); `MeetsOutcome` is what callers may still rely on.

## 4. Proofs

`tlapm` checks eight proof modules for every value of the constants. Between them they state
every invariant, every action property and both refinements that the passing runs check.

The provers cannot use an induction theorem with an operator as its parameter. Where a proof
needs induction over data it goes through sets: the counterexamples to a claim about 0..n are a
set of naturals, the library says that < is well founded on Nat, so a set that is not empty has
a least member (`LeastNatural`), and the member before it is no counterexample. This is how the
proofs unfold the recursive functions behind sums, folds and powers.

**MemoryStoreProofs** assumes `RowAssumption` and `StoreAssumption` (the "no row" and
"no signature" values are not rows and signatures; offers, spellings and bumps are of their
types; an error is not a place in the slice).

- `TypeCorrect`, `IdentitiesUnique`: `Spec => []TypeOK`, `Spec => []UniqueIds`. The
  inductive invariant is the conjunction of both. `UniqueIds` is preserved by `Upsert`
  because a row is appended only when no index matches, and matching ignores the spelling
  while identity does too.
- `SpendKept`: `Spec => SpentNeverShrinks`. An in-place `Upsert` keeps the old spend; a
  bump adds a natural; a lock leaves it.
- `QueriesMeetPort`: `Spec => []AnswersMeetPort`. The answer is the head of a sort that is stable
  and by creation time. That there is a head in every set of candidates (`HeadExists`) is proved
  by induction on the largest place in it; it is one of the most recent. With uniqueness, the
  candidates in the slice are the candidates in the table, signed ones first in both, and the two
  errors are given for the same states.
- `StoreMeetsPort`: `Spec => MeetsPort`, the refinement. Uniqueness makes `TableOf` determined
  by the slice: the row of an identity is at *the* index that holds it. Lemmas compute it
  after an append and after an in-place change; each action of the slice then is the action
  of the port of the same name. Every action of the slice has its abstract counterpart, so
  the theorem covers any caller of the store.

**GasFunderProofs** assumes `FunderAssumption`.

- `TypeCorrect`, `MutexHeld`, `NoncesNotRaced`: `TypeOK`, `LockDiscipline` and
  `NonceStaysFresh` for any number of calls and accounts. `NonceStaysFresh` is not inductive
  alone: that no other call appends to the pool between a call's nonce read and its send
  follows from `LockDiscipline` (the other call would have to hold the mutex), and that
  mining does not change the pending nonce from the fact that a transaction only moves from
  the pool to the chain.
- `NoDoubleTopUp`: `TopUpsJustified`. What a top-up adds has to be foreseen when the second
  balance read is done (`RoomToSend`), and that needs to know how many top-ups are on their way
  then: `Counted` says that every pending one was counted as a lapse, but for the one whose
  receipt is being awaited, and its call holds the mutex. `SentOnce` makes counting possible: a
  call has at most one top-up, pending or mined but not both.

**AgentWalletProofs** proves the composed `Spec`, for any number of owners, agents, tokens,
permits, Spends, blocks and faults. It assumes what the constants' modules state: signatures
and submitted parameters are of their types, the address recovered from a signature over
something else is not an owner's (`AuthorizerAssumption`, the one cryptographic assumption),
the amounts asked for are positive, the cap is at least one block, a saved watermark is not
beyond the chain, and no permit expires after `MaxInt64`, which is the type of its column.

- `TypeCorrect`: `TypeOK`. With it goes `TickReads`: a tick under way holds blocks of its
  range, which starts after the watermark, with logs of the phase it is in.
- Every step does one of three things to a row (`RowSteps`): it keeps its permit and its lock
  (bumps, Lockdowns, all that does not touch the store), replaces it by a verified submission,
  or blanks its signature (an observed Permit). The first two arguments below rest on this.
- `CachedIsSigned`, `SubmittedIsSigned`: the missing link in the induction is `JobsSigned` -
  the copy a Spend took is signed. A permit in flight is related to the row only through that
  copy; the row itself may have changed since.
- `LockdownsHold`: `LockdownHolds`, for Lockdowns of four topics among any others. Alone it is not
  inductive; saving the watermark, or applying a later log, extends the range it talks about.
  `TickCovers` closes the gap: within the range of a tick, every Permit and every Lockdown is
  still waiting or at most `seen`. Logs are applied in block order,
  so a block below the one being applied cannot still be waiting.
- `ObservedPermitsHold`: `PermitsHold`, from the same `TickCovers`. A later Permit for the same row
  would bring other numbers; `NoncesUsed` and `PermitsOnce` exclude it: Permit2 moves past a nonce
  when it takes it, so no two Permit logs are for one row, and one that is read twice after an
  interrupted tick restores what it had written.
- `BooksMatchChain`: `SpentIsSettled`, the sum included. The inductive invariant `BooksInv` has the
  sum itself (`SpentIsSum`); that only finitely many calls have bumped (`FinitelyMany`), without
  which the sum means nothing, and which spares an assumption about the number of Spends; that a
  call under way has its row (`JobsHaveRows`), so that no bump is lost and no row starts anew
  beside an old sum; that receipts and credits are those of mined transfers; and that nothing in
  the chain's logs or the store outlasts `MaxInt64`, so that `applyTransfer`, the one other writer
  of the column, never finds a row. The last is the ignored Transfer seen from the other
  side.
- `TransfersIgnored`: no step of the event loop credits anything or changes a `SpentAtoms`, with or
  without a Crediter. It is the finding at `listener.go:245` for every Transfer, from `BooksInv`.

**ReceiptWaitProofs** assumes `WaitAssumption` (integers for windows and intervals, a positive
default interval, a bounded latency).

- `TypeCorrect`, `NothingMissed`, `OverrunBounded`, `CancellationPrompt`: the four invariants of
  the run from one inductive invariant. `LoopTiming` bounds the clock at each place of the loop;
  `Knowledge` says that an empty answer means "not mined when the node looked", and that a
  timeout follows such an answer given after the deadline; `Listening` that no request is made
  for a caller that is gone. Without `Knowledge` a timeout says nothing about the receipt.
- `OutcomeMet`: `Spec => MeetsOutcome`, the refinement of `ReceiptOutcome`.

**PermitTextProofs** assumes `WidthAssumption` (an even word; the 48-bit limit within its signed
half, the 160-bit limit within the widest), `TextAssumption` and `PermitTextAssumption`. The
numbers themselves are free, the real widths among them.

- `PermitsVerify`, `PermitsFit`, `AmountsAgree`: `SentPermitVerifies`, `SentPermitFits` and
  `AmountReadAsSigned`. None is inductive: each speaks of the last call or of texts only. What
  connects a call to a signature is `RowsSound`, the state of a row after `VerifyAndCache`: each
  column is the number that was signed, within its width, and the v byte that goes on chain
  recovers; `SentSound` carries it over to the row a call was made from, which may have been
  replaced since. The conversions between int64 and uint64 are harmless because of the width
  check before them (`SmallWord`).

**SignerProofs** assumes `SignerAssumption` and `DerivationAssumption`.

- `OwnKeyOnly`, `NoKeyLeft`: `SignsAsItself` and `KeysScrubbed` for any number of calls, any
  requests, coins and accounts. The invariant's heart is `Ownership`: the source's bytes and,
  once there is a signer, the signer's are the original seed, and the holder's are as long as it
  holds them; `UnderWay` ties the key of a running call to the signer it was started on, which
  may have been replaced since.

**WalletServiceProofs** assumes `DerivationAssumption`, `WidthAssumption`, `TextAssumption` and
`ServiceAssumption`; environments, headers, selectors and requests are arbitrary.

- `FailsClosed`, `KeysStable`, `AgentsIsolated`: `NothingWithoutToken`, `AddressesStable` and
  `StructuredIsolation`. A handler is `Honest` if it refuses or answers with a key of the
  selector it was asked for; `ServeKeeps` shows once that an honest handler keeps the invariant,
  and one lemma per endpoint that it is honest. `SeedConfigured` and `BookDerived` then say that
  every key ever given out is derived from the one seed the environment determines (`OneSeed`)
  by a function of the selector (`OneKey`); isolation is a comparison of the paths' lengths and
  entries.
- `SignsOnPolicy`, `WireIsSigned`: `OnPolicy` and `WireVerifies`. The properties speak of the
  operator's environment and the handlers look at the running process; `ConfigKept` says that the
  process is still what `main` made of that environment, whatever it has served. The rest is one
  case per signing endpoint.

**SmartAccountProofs** assumes `CurveAssumption` (an odd order below the word size),
`WidthAssumption` and `AccountAssumption` (a word is `Width` bytes), `OwnerAssumption` (owners are
texts, addresses fit a word) and `AssertionAssumption`.

- `LowHalf`: for a scalar, `NormalizeLowS` gives the low one of s and N - s.
- `ChainPredicted`: `SanityCheckPredicts` for every order, word size and assertion, repeated fields
  and absent users included. `PackedVerifies`
  is the arithmetic (also for s at or beyond N, where N - s is 0 or wraps), `IndicesFound` that a
  search by bytes finds fields of these names (with one challenge, the one a JSON parse reads), `BlobOfRequest` the invariant that a
  reply's blob was built from the request it answers.
- `OwnersRoundTrip`: `OwnersDecodeBack` for every base and width. By induction over the bytes,
  reading the first k of them gives the number without its lower bytes (`WordReadBack`); the
  leading zeros of an address and the two halves of a key follow. Attempting this proof is what
  showed that a sign is dropped.

Only model-checked: the four liveness properties `LoopCatchesUp`, `SpendReturns`,
`EnsureGasReturns` and `WaitReturns`, with the fairness they rest on, which are outside the
prover's reach. The three runs that expect a violation are counterexamples and need no proof.

## 5. Not modelled

- Cryptography: hashing, ECDSA and P-256 arithmetic beyond scalars, BIP-32. Signatures are what
  they bind, keys their seed and path (that BIP-32 gives distinct keys for distinct paths is
  assumed).
- Byte layout: ABI encoding, RLP, the EIP-712 encoding; `ParseP256PublicKeyXY`, which nothing in
  the repository calls.
- `RealBaseRPC`: one forwarding line per method; its calls are the chain's answers.
- Fee computation in `buildSignSend` and `buildAndSend`: it changes no state the properties see.
- Chain reorganisations: the event loop has no confirmation depth, so a reorganised block
  breaks `LockdownHolds` and nothing in the code is meant to prevent it (listed as a hazard).

## 6. Plan

Done: the store and its refinement; the wallet of one agent; the gas funder; the receipt wait
and its refinement; a permit's texts and widths; seeds, keys and the signer; the signing
service; passkeys and smart accounts; a theorem for every safety property and refinement that a
run checks. Left, in order of weight:

1. Results beyond the runs' properties: what stays true of overspending in `AgentWallet` (the
   chain's allowance bounds what the violation run shows the cached row does not), and what the
   mapping of `Spender`'s receipt steps to `ReceiptOutcome` needs.
2. `AgentWallet` with `GasFunder` in place of its abstraction, which multiplies both state spaces
   for TLC; the proofs would carry over from the parts.
