----------------------------- MODULE ReceiptWait -----------------------------
(***************************************************************************)
(* WaitForReceipt (rpc.go): poll for a receipt until it is there, the       *)
(* window expires or the context is cancelled.                              *)
(*                                                                         *)
(* Time is an integer clock.  It advances while a request is at the node    *)
(* (for at most Latency) and while the loop sleeps; what the goroutine does *)
(* between two calls takes no time.                                         *)
(***************************************************************************)
EXTENDS Integers

CONSTANTS
    Timeouts, PollIntervals,   \* the arguments callers pass
    DefaultPoll,               \* the two seconds of a pollInterval <= 0
    Latency,                   \* the longest a request takes
    Never

ASSUME WaitAssumption ==
    /\ Timeouts \subseteq Int /\ PollIntervals \subseteq Int
    /\ DefaultPoll \in Nat \ {0} /\ Latency \in Nat
    /\ Never \notin Int

VARIABLES
    now, minedAt, cancelledAt,   \* the clock; when the node had the receipt, when ctx ended
    pc, out,                     \* where the call is and what it returned
    deadline, poll, wake,        \* locals; wake is when the timer fires
    askedAt, found               \* the request under way: since when, what the node saw

vars == <<now, minedAt, cancelledAt, pc, out, deadline, poll, wake, askedAt, found>>
world == <<now, minedAt, cancelledAt>>

Outs == {"none", "receipt", "timeout", "cancelled", "error"}

Init ==
    /\ now = 0 /\ minedAt = Never /\ cancelledAt = Never
    /\ pc = "idle" /\ out = "none"
    /\ deadline = 0 /\ poll = DefaultPoll /\ wake = 0
    /\ askedAt = 0 /\ found = FALSE

Return(o) == pc' = "returned" /\ out' = o

\* A plausible slip: a poll interval that is not set is used as it is.
CallAsGiven(timeout, pollInterval) ==
    /\ pc = "idle"
    /\ poll' = pollInterval
    /\ deadline' = now + timeout
    /\ pc' = "top"
    /\ UNCHANGED <<world, out, wake, askedAt, found>>

Call(timeout, pollInterval) ==
    /\ pc = "idle"
    /\ poll' = IF pollInterval <= 0 THEN DefaultPoll ELSE pollInterval
    /\ deadline' = now + timeout
    /\ pc' = "top"
    /\ UNCHANGED <<world, out, wake, askedAt, found>>

\* A plausible slip: the window is checked before the request, not after it.
TopChecksDeadline ==
    /\ pc = "top"
    /\ IF cancelledAt # Never THEN Return("cancelled")
       ELSE IF now > deadline THEN Return("timeout")
       ELSE pc' = "asked" /\ UNCHANGED out
    /\ askedAt' = now
    /\ UNCHANGED <<world, deadline, poll, wake, found>>

\* The head of the loop: the context, then the request.
Top ==
    /\ pc = "top"
    /\ IF cancelledAt # Never THEN Return("cancelled") ELSE pc' = "asked" /\ UNCHANGED out
    /\ askedAt' = now
    /\ UNCHANGED <<world, deadline, poll, wake, found>>

\* The node looks the receipt up.
Look ==
    /\ pc = "asked"
    /\ found' = (minedAt # Never)
    /\ pc' = "answered"
    /\ UNCHANGED <<world, out, deadline, poll, wake, askedAt>>

\* A plausible slip: the window is counted from the end of the sleep.
ReplyLate ==
    /\ pc = "answered"
    /\ IF found THEN Return("receipt") /\ UNCHANGED wake
       ELSE IF now > deadline + poll THEN Return("timeout") /\ UNCHANGED wake
       ELSE pc' = "sleeping" /\ wake' = now + poll /\ UNCHANGED out
    /\ UNCHANGED <<world, deadline, poll, askedAt, found>>

\* A plausible slip: an empty answer is taken for a receipt.
ReplyAnyway ==
    /\ pc = "answered"
    /\ Return("receipt")
    /\ UNCHANGED <<world, deadline, poll, wake, askedAt, found>>

\* The answer: the receipt, or NotFound, after which the window is checked.
Reply ==
    /\ pc = "answered"
    /\ IF found THEN Return("receipt") /\ UNCHANGED wake
       ELSE IF now > deadline THEN Return("timeout") /\ UNCHANGED wake
       ELSE pc' = "sleeping" /\ wake' = now + poll /\ UNCHANGED out
    /\ UNCHANGED <<world, deadline, poll, askedAt, found>>

\* Any other error of the request, a cancelled context included.
RequestFails ==
    /\ pc \in {"asked", "answered"}
    /\ Return("error")
    /\ UNCHANGED <<world, deadline, poll, wake, askedAt, found>>

\* A plausible slip: the sleep does not listen to the context.
AsleepDeaf == now < wake

\* What the second select waits on.
Asleep == now < wake /\ cancelledAt = Never

\* A plausible slip: the timer is not armed, only the context ends the sleep.
WakeOnCancel ==
    /\ pc = "sleeping" /\ cancelledAt # Never
    /\ Return("cancelled")
    /\ UNCHANGED <<world, deadline, poll, wake, askedAt, found>>

\* The select takes either branch when both are ready.
Wake ==
    /\ pc = "sleeping" /\ ~Asleep
    /\ \/ now >= wake /\ pc' = "top" /\ UNCHANGED out
       \/ cancelledAt # Never /\ Return("cancelled")
    /\ UNCHANGED <<world, deadline, poll, wake, askedAt, found>>

-----------------------------------------------------------------------------
(* Node, caller and time.                                                  *)

Mined ==
    /\ minedAt = Never /\ minedAt' = now
    /\ UNCHANGED <<now, cancelledAt, pc, out, deadline, poll, wake, askedAt, found>>

Cancel ==
    /\ cancelledAt = Never /\ cancelledAt' = now
    /\ UNCHANGED <<now, minedAt, pc, out, deadline, poll, wake, askedAt, found>>

Tick ==
    /\ \/ pc \in {"asked", "answered"} /\ now < askedAt + Latency
       \/ pc = "sleeping" /\ Asleep
    /\ now' = now + 1
    /\ UNCHANGED <<minedAt, cancelledAt, pc, out, deadline, poll, wake, askedAt, found>>

Loop == Top \/ Look \/ Reply \/ RequestFails \/ Wake

Next ==
    \/ \E timeout \in Timeouts, pollInterval \in PollIntervals : Call(timeout, pollInterval)
    \/ Loop
    \/ Mined \/ Cancel \/ Tick

\* Requests are answered and time passes; nothing is mined by right.
Fairness == WF_vars(Top \/ Look \/ Reply \/ Wake) /\ WF_vars(Tick)

Spec == Init /\ [][Next]_vars /\ Fairness

-----------------------------------------------------------------------------
TypeOK ==
    /\ now \in Nat
    /\ minedAt \in Nat \cup {Never} /\ cancelledAt \in Nat \cup {Never}
    /\ pc \in {"idle", "top", "asked", "answered", "sleeping", "returned"}
    /\ out \in Outs
    /\ deadline \in Int /\ poll \in Nat \ {0} /\ wake \in Int
    /\ askedAt \in Nat /\ found \in BOOLEAN

\* ErrReceiptTimeout is never returned for a transaction whose receipt was there
\* one request before the end of the window: the deadline is read after the last
\* poll and not before it (rpc.go, WaitForReceipt), so a late receipt is found.
TimeoutMissesNothing ==
    out = "timeout" /\ minedAt # Never => minedAt > deadline - Latency

\* The wait overruns its window by at most one poll interval and one request
\* (GasFunder keeps its mutex that long), whatever the arguments are.
WithinWindow ==
    pc # "idle" => now <= Latency \/ now <= deadline + poll + Latency

\* A cancelled context ends the wait within one request: no sleep is finished
\* and no new request is made for a caller that is gone.
CancelIsPrompt ==
    cancelledAt # Never /\ pc # "returned" => now <= cancelledAt + Latency

Outcome == INSTANCE ReceiptOutcome WITH
    known <- minedAt # Never,
    outcome <- IF pc # "returned" THEN "waiting" ELSE IF out = "receipt" THEN "receipt" ELSE "none"

\* WaitForReceipt is the wait its callers assume: a receipt only of a mined
\* transaction, one outcome, and no promise about a transaction given up on.
MeetsOutcome == Outcome!Spec

\* A call of WaitForReceipt returns although nothing is ever mined: what the
\* fairness of Spender and GasFunder rests on.
WaitReturns == (pc = "top") ~> (pc = "returned")
=============================================================================
