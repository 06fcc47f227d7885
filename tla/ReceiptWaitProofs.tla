-------------------------- MODULE ReceiptWaitProofs --------------------------
(* Proofs about WaitForReceipt for every window, interval and latency.      *)
EXTENDS ReceiptWait, TLAPS

USE WaitAssumption

InFlight == pc \in {"asked", "answered"}

\* An instant at which a request is made: the start, or at most a poll late.
OnTime(t) == t <= 0 \/ t <= deadline + poll

\* The timing of the loop: when it may be where it is.
LoopTiming ==
    /\ pc = "idle" => now = 0
    /\ pc = "top" => OnTime(now)
    /\ InFlight => askedAt <= now /\ now <= askedAt + Latency /\ OnTime(askedAt)
    /\ pc = "sleeping" => now <= wake /\ wake <= deadline + poll

\* What the loop knows of the receipt: an empty answer dates the mining, and a
\* timeout was preceded by an empty answer.
Knowledge ==
    /\ pc = "answered" /\ found => minedAt # Never
    /\ pc = "answered" /\ ~found /\ minedAt # Never => askedAt <= minedAt
    /\ pc # "returned" => out = "none"
    /\ out = "timeout" => now > deadline - Latency

\* A request is only made for a caller that is still there.
Listening == InFlight /\ cancelledAt # Never => askedAt <= cancelledAt

Past(t) == t # Never => t <= now

IInv ==
    /\ TypeOK /\ LoopTiming /\ Knowledge /\ Listening
    /\ Past(minedAt) /\ Past(cancelledAt)
    /\ TimeoutMissesNothing /\ WithinWindow /\ CancelIsPrompt

-----------------------------------------------------------------------------
LEMMA InitOK == Init => IInv
<1> SUFFICES ASSUME Init PROVE IInv
  OBVIOUS
<1>1. TypeOK
  <2>1. found \in BOOLEAN
    BY Zenon DEF Init
  <2>2. now \in Nat /\ askedAt \in Nat /\ deadline \in Int /\ wake \in Int /\ poll \in Nat \ {0}
    BY DEF Init
  <2>3. minedAt \in Nat \cup {Never} /\ cancelledAt \in Nat \cup {Never}
    BY DEF Init
  <2> QED
    BY <2>1, <2>2, <2>3 DEF Init, TypeOK, Outs
<1>2. LoopTiming /\ Knowledge /\ Listening
  BY DEF Init, LoopTiming, Knowledge, Listening, InFlight
<1>3. TimeoutMissesNothing /\ WithinWindow /\ CancelIsPrompt
  BY DEF Init, TimeoutMissesNothing, WithinWindow, CancelIsPrompt
<1> QED
  BY <1>1, <1>2, <1>3 DEF Init, IInv, Past

\* Steps of the loop happen in no time.
LEMMA CallKeeps ==
    ASSUME IInv, NEW timeout \in Timeouts, NEW p \in PollIntervals, Call(timeout, p)
    PROVE  IInv'
  BY DEF Call, world, IInv, TypeOK, LoopTiming, Knowledge, Listening, Past,
         TimeoutMissesNothing, WithinWindow, CancelIsPrompt, InFlight, OnTime, Outs

LEMMA TopKeeps == IInv /\ Top => IInv'
  BY DEF Top, Return, world, IInv, TypeOK, LoopTiming, Knowledge, Listening, Past,
         TimeoutMissesNothing, WithinWindow, CancelIsPrompt, InFlight, OnTime, Outs

LEMMA LookKeeps == IInv /\ Look => IInv'
  BY DEF Look, world, IInv, TypeOK, LoopTiming, Knowledge, Listening, Past,
         TimeoutMissesNothing, WithinWindow, CancelIsPrompt, InFlight, OnTime, Outs

LEMMA ReplyKeeps == IInv /\ Reply => IInv'
  BY DEF Reply, Return, world, IInv, TypeOK, LoopTiming, Knowledge, Listening, Past,
         TimeoutMissesNothing, WithinWindow, CancelIsPrompt, InFlight, OnTime, Outs

LEMMA RequestFailsKeeps == IInv /\ RequestFails => IInv'
  BY DEF RequestFails, Return, world, IInv, TypeOK, LoopTiming, Knowledge, Listening, Past,
         TimeoutMissesNothing, WithinWindow, CancelIsPrompt, InFlight, OnTime, Outs

LEMMA WakeKeeps == IInv /\ Wake => IInv'
  BY DEF Wake, Asleep, Return, world, IInv, TypeOK, LoopTiming, Knowledge, Listening, Past,
         TimeoutMissesNothing, WithinWindow, CancelIsPrompt, InFlight, OnTime, Outs

\* The world moves.
LEMMA MinedKeeps == IInv /\ Mined => IInv'
  BY DEF Mined, IInv, TypeOK, LoopTiming, Knowledge, Listening, Past,
         TimeoutMissesNothing, WithinWindow, CancelIsPrompt, InFlight, OnTime, Outs

LEMMA CancelKeeps == IInv /\ Cancel => IInv'
  BY DEF Cancel, IInv, TypeOK, LoopTiming, Knowledge, Listening, Past,
         TimeoutMissesNothing, WithinWindow, CancelIsPrompt, InFlight, OnTime, Outs

LEMMA TickKeeps == IInv /\ Tick => IInv'
  BY DEF Tick, Asleep, IInv, TypeOK, LoopTiming, Knowledge, Listening, Past,
         TimeoutMissesNothing, WithinWindow, CancelIsPrompt, InFlight, OnTime, Outs

\* The inductive invariant, for every value of the constants.
THEOREM Invariance == Spec => []IInv
<1>1. IInv /\ [Next]_vars => IInv'
  <2> SUFFICES ASSUME IInv, [Next]_vars PROVE IInv'
    OBVIOUS
  <2>1. ASSUME NEW timeout \in Timeouts, NEW p \in PollIntervals, Call(timeout, p)
        PROVE  IInv'
    BY <2>1, CallKeeps
  <2>2. CASE Loop
    BY <2>2, TopKeeps, LookKeeps, ReplyKeeps, RequestFailsKeeps, WakeKeeps DEF Loop
  <2>3. CASE Mined \/ Cancel \/ Tick
    BY <2>3, MinedKeeps, CancelKeeps, TickKeeps
  <2>4. CASE UNCHANGED vars
    BY <2>4 DEF vars, IInv, TypeOK, LoopTiming, Knowledge, Listening, Past,
         TimeoutMissesNothing, WithinWindow, CancelIsPrompt, InFlight, OnTime
  <2> QED
    BY <2>1, <2>2, <2>3, <2>4 DEF Next
<1> QED
  BY <1>1, InitOK, PTL DEF Spec

\* The locals of WaitForReceipt are well typed; a defaulted interval is positive.
THEOREM TypeCorrect == Spec => []TypeOK
  BY Invariance, PTL DEF IInv

\* No timeout for a transaction mined one request before the end of the window.
THEOREM NothingMissed == Spec => []TimeoutMissesNothing
  BY Invariance, PTL DEF IInv

\* The wait overruns its window by at most one interval and one request.
THEOREM OverrunBounded == Spec => []WithinWindow
  BY Invariance, PTL DEF IInv

\* A cancelled wait ends within one request.
THEOREM CancellationPrompt == Spec => []CancelIsPrompt
  BY Invariance, PTL DEF IInv

-----------------------------------------------------------------------------
(* The refinement: every step of the loop is a step of ReceiptOutcome or     *)
(* leaves what the caller sees alone.                                        *)

LEMMA StepMeetsOutcome ==
    ASSUME IInv, [Next]_vars
    PROVE  [Outcome!Appear \/ Outcome!Found \/ Outcome!GiveUp]_(Outcome!vars)
<1>1. CASE Mined
  BY <1>1 DEF Mined, Outcome!Appear, IInv, TypeOK
<1>2. CASE Reply
  <2>1. minedAt' = minedAt
    BY <1>2 DEF Reply, world
  <2>2. CASE found
    BY <1>2, <2>1, <2>2 DEF Reply, Return, IInv, Knowledge, Outcome!Found
  <2>3. CASE ~found /\ now > deadline
    BY <1>2, <2>1, <2>3 DEF Reply, Return, Outcome!GiveUp
  <2>4. CASE ~found /\ ~(now > deadline)
    BY <1>2, <2>1, <2>4 DEF Reply, Outcome!vars
  <2> QED
    BY <2>2, <2>3, <2>4
<1>3. CASE Top
  BY <1>3 DEF Top, Return, world, Outcome!GiveUp, Outcome!vars
<1>4. CASE RequestFails
  BY <1>4 DEF RequestFails, Return, world, Outcome!GiveUp
<1>5. CASE Wake
  BY <1>5 DEF Wake, Return, world, Outcome!GiveUp, Outcome!vars
<1>6. CASE Look \/ Cancel \/ Tick
  BY <1>6 DEF Look, Cancel, Tick, world, Outcome!vars
<1>7. ASSUME NEW timeout \in Timeouts, NEW p \in PollIntervals, Call(timeout, p)
      PROVE  UNCHANGED Outcome!vars
  BY <1>7 DEF Call, world, Outcome!vars
<1>8. CASE UNCHANGED vars
  BY <1>8 DEF vars, Outcome!vars
<1> QED
  BY <1>1, <1>2, <1>3, <1>4, <1>5, <1>6, <1>7, <1>8 DEF Next, Loop

\* WaitForReceipt implements the outcome that Spender and GasFunder assume.
THEOREM OutcomeMet == Spec => MeetsOutcome
<1>1. Init => Outcome!Init
  BY DEF Init, Outcome!Init
<1> QED
  BY <1>1, StepMeetsOutcome, Invariance, PTL DEF MeetsOutcome, Outcome!Spec, Spec
=============================================================================
