--------------------------- MODULE GasFunderProofs ---------------------------
(***************************************************************************)
(* The funder's mutex does what its comment says, for any number of calls  *)
(* and accounts and any amounts.                                           *)
(***************************************************************************)
EXTENDS GasFunder, SequenceTheorems, FunctionTheorems, FiniteSetTheorems, TLAPS

\* NonceStaysFresh needs LockDiscipline: another call could only move the
\* pending nonce from its own "send", and only one call is past the lock.  In
\* turn TypeOK needs NonceStaysFresh: an accepted top-up is appended to the
\* pool, it never lands in the middle of it.
IInv == TypeOK /\ LockDiscipline /\ NonceStaysFresh

LEMMA IInvInit == Init => IInv
<1> SUFFICES ASSUME Init PROVE IInv
  OBVIOUS
<1>1. TypeOK
  <2>1. InitialBalances \subseteq Nat
    BY FunderAssumption
  <2>2. balance \in [Accounts -> Nat]
    BY <2>1 DEF Init
  <2>3. mined \in Seq(TopUps) /\ pool \in Seq(TopUps)
    BY DEF Init
  <2>4. pc \in [Calls -> Locations]
    BY DEF Init, Locations
  <2> QED
    BY <2>2, <2>3, <2>4, FunderAssumption DEF Init, TypeOK
<1>2. LockDiscipline
  BY FunderAssumption DEF Init, LockDiscipline, Critical
<1>3. NonceStaysFresh
  BY DEF Init, NonceStaysFresh
<1> QED
  BY <1>1, <1>2, <1>3 DEF IInv

\* A step of one call that leaves the chain alone and moves as the lock allows
\* keeps the discipline and everyone's nonce.
LEMMA LocalStep ==
    ASSUME IInv, NEW c \in Calls, NEW where \in Locations,
           pc' = [pc EXCEPT ![c] = where],
           UNCHANGED <<mined, pool>>,
           nonce' \in [Calls -> Nat],
           \A d \in Calls \ {c} : nonce'[d] = nonce[d],
           where = "send" => nonce'[c] = PendingNonceAt,
           \/ where \in Critical /\ mu' = c /\ mu \in {c, Free}
           \/ where \notin Critical /\ mu' = IF mu = c THEN Free ELSE mu,
           balance' \in [Accounts -> Nat], funderBal' \in Nat,
           lapses' \in [Accounts -> Nat]
    PROVE  IInv'
<1>1. TypeOK'
  BY DEF IInv, TypeOK
<1>2. LockDiscipline'
  <2> SUFFICES ASSUME NEW d \in Calls PROVE mu' = d <=> pc'[d] \in Critical
    BY DEF LockDiscipline
  <2>1. pc'[d] = IF d = c THEN where ELSE pc[d]
    BY DEF IInv, TypeOK
  <2>2. /\ mu = d <=> pc[d] \in Critical
        /\ mu = c <=> pc[c] \in Critical
    BY DEF IInv, LockDiscipline
  <2>3. Free # d /\ Free # c
    BY FunderAssumption
  <2> QED
    BY <2>1, <2>2, <2>3
<1>3. NonceStaysFresh'
  <2> SUFFICES ASSUME NEW d \in Calls, pc'[d] = "send" PROVE nonce'[d] = PendingNonceAt'
    BY DEF NonceStaysFresh
  <2>1. pc'[d] = IF d = c THEN where ELSE pc[d]
    BY DEF IInv, TypeOK
  <2>2. PendingNonceAt' = PendingNonceAt
    BY DEF PendingNonceAt
  <2>3. CASE d = c
    BY <2>1, <2>2, <2>3
  <2>4. CASE d # c
    BY <2>1, <2>2, <2>4 DEF IInv, NonceStaysFresh
  <2> QED
    BY <2>3, <2>4
<1> QED
  BY <1>1, <1>2, <1>3 DEF IInv

\* The lapses stay typed.
LEMMA LapseType ==
    ASSUME TypeOK, NEW c \in Calls, Lapse(c)
    PROVE  lapses' \in [Accounts -> Nat]
BY FunderAssumption DEF TypeOK, Lapse

\* A call past the lock holds it.
LEMMA HoldsLock ==
    ASSUME IInv, NEW c \in Calls, pc[c] \in Critical
    PROVE  mu = c
BY DEF IInv, LockDiscipline

\* The lock that a returning call gives up is its own.
LEMMA LeaveStep ==
    ASSUME IInv, NEW c \in Calls, pc[c] \in Critical, Leave(c),
           UNCHANGED <<nonce, chainVars>>, lapses' \in [Accounts -> Nat]
    PROVE  IInv'
<1>1. mu = c
  BY HoldsLock
<1>2. /\ pc' = [pc EXCEPT ![c] = "returned"]
      /\ mu' = Free
      /\ UNCHANGED <<nonce, balance, funderBal, mined, pool>>
  BY DEF Leave, Goto, chainVars
<1>3. "returned" \in Locations /\ "returned" \notin Critical
  BY DEF Locations, Critical
<1> QED
  BY <1>1, <1>2, <1>3, LocalStep DEF IInv, TypeOK

\* A call that goes on under the lock.
LEMMA StayStep ==
    ASSUME IInv, NEW c \in Calls, pc[c] \in Critical,
           NEW where \in Critical \ {"send"}, Goto(c, where),
           UNCHANGED <<mu, nonce, chainVars>>, lapses' \in [Accounts -> Nat]
    PROVE  IInv'
<1>1. mu = c
  BY HoldsLock
<1>2. /\ pc' = [pc EXCEPT ![c] = where]
      /\ UNCHANGED <<mu, nonce, balance, funderBal, mined, pool>>
  BY DEF Goto, chainVars
<1>3. where \in Locations /\ where \in Critical /\ where # "send"
  BY DEF Locations
<1> QED
  BY <1>1, <1>2, <1>3, LocalStep DEF IInv, TypeOK

\* An accepted top-up is appended: the nonce is the pending one.
LEMMA AcceptedAppends ==
    ASSUME IInv, NEW c \in Calls, pc[c] = "send", Accepted(c)
    PROVE  /\ pool' = Append(pool, [call |-> c, account |-> AccountOf[c]])
           /\ pool' \in Seq(TopUps)
<1>1. nonce[c] = PendingNonceAt
  BY DEF IInv, NonceStaysFresh
<1>2. [call |-> c, account |-> AccountOf[c]] \in TopUps
  BY FunderAssumption DEF TopUps
<1>3. pool \in Seq(TopUps)
  BY DEF IInv, TypeOK
<1>4. pool' = Append(pool, [call |-> c, account |-> AccountOf[c]])
  BY <1>1 DEF Accepted
<1> QED
  BY <1>2, <1>3, <1>4, AppendProperties

\* A call that sends moves the pending nonce, and nobody else is at "send".
LEMMA SendStep ==
    ASSUME IInv, NEW c \in Calls, pc[c] = "send", Accepted(c),
           NEW where \in {"wait", "returned"}, Goto(c, where),
           mu' = IF where = "wait" THEN mu ELSE Free,
           UNCHANGED <<nonce, balance, funderBal, mined>>, lapses' \in [Accounts -> Nat]
    PROVE  IInv'
<1>1. mu = c
  BY HoldsLock DEF Critical
<1>2. pool' \in Seq(TopUps)
  BY AcceptedAppends
<1>3. pc' = [pc EXCEPT ![c] = where] /\ where \in Locations
  BY DEF Goto, Locations, Critical
<1>4. TypeOK'
  BY <1>1, <1>2, <1>3 DEF IInv, TypeOK
<1>5. ASSUME NEW d \in Calls PROVE mu' = d <=> pc'[d] \in Critical
  <2>1. pc'[d] = IF d = c THEN where ELSE pc[d]
    BY <1>3 DEF IInv, TypeOK
  <2>2. mu = d <=> pc[d] \in Critical
    BY DEF IInv, LockDiscipline
  <2>3. Free # d
    BY FunderAssumption
  <2>4. where \in Critical <=> where = "wait"
    BY DEF Critical
  <2> QED
    BY <1>1, <2>1, <2>2, <2>3, <2>4
<1>6. ASSUME NEW d \in Calls PROVE pc'[d] # "send"
  <2>1. pc'[d] = IF d = c THEN where ELSE pc[d]
    BY <1>3 DEF IInv, TypeOK
  <2>2. d # c => pc[d] \notin Critical
    BY <1>1 DEF IInv, LockDiscipline
  <2> QED
    BY <2>1, <2>2 DEF Critical
<1> QED
  BY <1>4, <1>5, <1>6 DEF IInv, LockDiscipline, NonceStaysFresh

\* Mining moves the oldest pending top-up, not the pending nonce.
LEMMA MineStep ==
    ASSUME IInv, NEW ok \in BOOLEAN, Mine(ok)
    PROVE  IInv'
<1>1. pool \in Seq(TopUps) /\ pool # << >> /\ mined \in Seq(TopUps)
  BY DEF IInv, TypeOK, Mine
<1>2. /\ Head(pool) \in TopUps
      /\ Tail(pool) \in Seq(TopUps)
      /\ Len(Tail(pool)) = Len(pool) - 1
  BY <1>1
<1>3. /\ Append(mined, Head(pool)) \in Seq(TopUps)
      /\ Len(Append(mined, Head(pool))) = Len(mined) + 1
  BY <1>1, <1>2, AppendProperties
<1>4. /\ mined' = Append(mined, Head(pool))
      /\ pool' = Tail(pool)
      /\ UNCHANGED <<pc, mu, nonce, lapses>>
  BY DEF Mine
<1>5. PendingNonceAt' = PendingNonceAt
  <2>1. Len(mined) \in Nat /\ Len(pool) \in Nat
    BY <1>1
  <2> QED
    BY <1>2, <1>3, <1>4, <2>1 DEF PendingNonceAt
<1>6. balance' \in [Accounts -> Nat]
  <2>1. Head(pool).account \in Accounts
    BY <1>2 DEF TopUps
  <2>2. balance \in [Accounts -> Nat] /\ topUpWei \in Nat
    BY FunderAssumption DEF IInv, TypeOK
  <2>3. CASE ok
    BY <2>1, <2>2, <2>3 DEF Mine
  <2>4. CASE ~ok
    BY <2>2, <2>4 DEF Mine
  <2> QED
    BY <2>3, <2>4
<1>7. funderBal' \in Nat
  <2>1. /\ funderBal \in Nat /\ topUpWei \in Nat /\ GasCost \in Nat
        /\ funderBal >= topUpWei + GasCost
    BY FunderAssumption DEF IInv, TypeOK, Mine
  <2>2. funderBal' = funderBal - GasCost - (IF ok THEN topUpWei ELSE 0)
    BY DEF Mine
  <2>3. CASE ok
    BY <2>1, <2>2, <2>3
  <2>4. CASE ~ok
    BY <2>1, <2>2, <2>4
  <2> QED
    BY <2>3, <2>4
<1>8. TypeOK'
  BY <1>2, <1>3, <1>4, <1>6, <1>7 DEF IInv, TypeOK
<1> QED
  BY <1>4, <1>5, <1>8 DEF IInv, LockDiscipline, NonceStaysFresh

LEMMA IInvNext == IInv /\ [Next]_vars => IInv'
<1> SUFFICES ASSUME IInv, [Next]_vars PROVE IInv'
  OBVIOUS
<1>0. TypeOK
  BY DEF IInv
<1>1. ASSUME NEW c \in Calls, CheckBalance(c) PROVE IInv'
  <2>1. PICK where \in {"lock", "returned"} : pc' = [pc EXCEPT ![c] = where]
    BY <1>1 DEF CheckBalance, Goto
  <2>2. where \in Locations /\ where \notin Critical
    BY DEF Locations, Critical
  <2>3. UNCHANGED <<mu, nonce, balance, funderBal, mined, pool, lapses>>
    BY <1>1 DEF CheckBalance, chainVars
  <2>4. mu # c
    BY <1>1 DEF IInv, LockDiscipline, CheckBalance, Critical
  <2> QED
    BY <1>0, <2>1, <2>2, <2>3, <2>4, LocalStep DEF TypeOK, Critical
<1>2. ASSUME NEW c \in Calls, Lock(c) PROVE IInv'
  <2>1. /\ pc' = [pc EXCEPT ![c] = "recheck"]
        /\ mu = Free /\ mu' = c
        /\ UNCHANGED <<nonce, balance, funderBal, mined, pool, lapses>>
    BY <1>2 DEF Lock, Goto, chainVars
  <2>2. "recheck" \in Locations /\ "recheck" \in Critical
    BY DEF Locations, Critical
  <2> QED
    BY <1>0, <2>1, <2>2, LocalStep DEF TypeOK
<1>3. ASSUME NEW c \in Calls, NEW answered \in BOOLEAN, Recheck(c, answered) PROVE IInv'
  <2>1. lapses' \in [Accounts -> Nat]
    BY <1>0, <1>3, LapseType DEF Recheck, TypeOK
  <2>2. pc[c] \in Critical /\ UNCHANGED <<nonce, chainVars>>
    BY <1>3 DEF Recheck, Critical
  <2>3. CASE answered /\ ~Low(c)
    BY <1>3, <2>1, <2>2, <2>3, LeaveStep DEF Recheck
  <2>4. CASE ~(answered /\ ~Low(c))
    <3>1. Goto(c, "funder") /\ UNCHANGED mu
      BY <1>3, <2>4 DEF Recheck
    <3>2. "funder" \in Critical \ {"send"}
      BY DEF Critical
    <3> QED
      BY <2>1, <2>2, <3>1, <3>2, StayStep
  <2> QED
    BY <2>3, <2>4
<1>4. ASSUME NEW c \in Calls, CheckFunder(c) PROVE IInv'
  <2>1. lapses' \in [Accounts -> Nat]
    BY <1>0, <1>4 DEF CheckFunder, TypeOK
  <2>2. pc[c] \in Critical /\ UNCHANGED <<nonce, chainVars>>
    BY <1>4 DEF CheckFunder, Critical
  <2>3. CASE funderBal <= topUpWei
    BY <1>4, <2>1, <2>2, <2>3, LeaveStep DEF CheckFunder
  <2>4. CASE ~(funderBal <= topUpWei)
    <3>1. Goto(c, "nonce") /\ UNCHANGED mu
      BY <1>4, <2>4 DEF CheckFunder
    <3>2. "nonce" \in Critical \ {"send"}
      BY DEF Critical
    <3> QED
      BY <2>1, <2>2, <3>1, <3>2, StayStep
  <2> QED
    BY <2>3, <2>4
<1>5. ASSUME NEW c \in Calls, ReadNonce(c) PROVE IInv'
  <2>1. /\ pc' = [pc EXCEPT ![c] = "send"]
        /\ nonce' = [nonce EXCEPT ![c] = PendingNonceAt]
        /\ UNCHANGED <<mu, balance, funderBal, mined, pool, lapses>>
    BY <1>5 DEF ReadNonce, Goto, chainVars
  <2>2. mu = c
    BY <1>5, HoldsLock DEF ReadNonce, Critical
  <2>3. PendingNonceAt \in Nat
    BY <1>0 DEF TypeOK, PendingNonceAt
  <2>4. /\ nonce' \in [Calls -> Nat]
        /\ nonce'[c] = PendingNonceAt
        /\ \A d \in Calls \ {c} : nonce'[d] = nonce[d]
    BY <1>0, <2>1, <2>3 DEF TypeOK
  <2>5. "send" \in Locations /\ "send" \in Critical
    BY DEF Locations, Critical
  <2> QED
    BY <1>0, <2>1, <2>2, <2>4, <2>5, LocalStep DEF TypeOK
<1>6. ASSUME NEW c \in Calls, Send(c) PROVE IInv'
  BY <1>0, <1>6, SendStep DEF Send, TypeOK
<1>7. ASSUME NEW c \in Calls, SendLost(c) PROVE IInv'
  <2>1. lapses' \in [Accounts -> Nat]
    BY <1>0, <1>7, LapseType DEF SendLost
  <2> QED
    BY <1>7, <2>1, SendStep DEF SendLost, Leave
<1>8. ASSUME NEW c \in Calls, Receipt(c) PROVE IInv'
  <2>1. lapses' \in [Accounts -> Nat]
    BY <1>0, <1>8 DEF Receipt, TypeOK
  <2>2. pc[c] \in Critical /\ UNCHANGED <<nonce, chainVars>>
    BY <1>8 DEF Receipt, Critical
  <2> QED
    BY <1>8, <2>1, <2>2, LeaveStep DEF Receipt
<1>9. ASSUME NEW c \in Calls, ReceiptTimeout(c) PROVE IInv'
  <2>1. lapses' \in [Accounts -> Nat]
    BY <1>0, <1>9, LapseType DEF ReceiptTimeout
  <2>2. pc[c] \in Critical /\ UNCHANGED <<nonce, chainVars>>
    BY <1>9 DEF ReceiptTimeout, Critical
  <2> QED
    BY <1>9, <2>1, <2>2, LeaveStep DEF ReceiptTimeout
<1>10. ASSUME NEW c \in Calls, Fail(c) PROVE IInv'
  <2>1. /\ pc' = [pc EXCEPT ![c] = "returned"]
        /\ mu' = IF mu = c THEN Free ELSE mu
        /\ UNCHANGED <<nonce, balance, funderBal, mined, pool, lapses>>
    BY <1>10 DEF Fail, Goto, chainVars
  <2>2. "returned" \in Locations /\ "returned" \notin Critical
    BY DEF Locations, Critical
  <2> QED
    BY <1>0, <2>1, <2>2, LocalStep DEF TypeOK
<1>11. ASSUME NEW a \in Accounts, Burn(a) PROVE IInv'
  <2>1. balance[a] \in Nat /\ balance[a] > 0 /\ balance \in [Accounts -> Nat]
    BY <1>0, <1>11 DEF Burn, TypeOK
  <2>2. balance' \in [Accounts -> Nat]
    BY <1>11, <2>1 DEF Burn
  <2>3. UNCHANGED <<pc, mu, nonce, funderBal, mined, pool, lapses>>
    BY <1>11 DEF Burn
  <2> QED
    BY <2>2, <2>3 DEF IInv, TypeOK, LockDiscipline, NonceStaysFresh, PendingNonceAt
<1>12. CASE UNCHANGED vars
  BY <1>12 DEF vars, IInv, TypeOK, LockDiscipline, NonceStaysFresh, PendingNonceAt
<1> QED
  BY <1>1, <1>2, <1>3, <1>4, <1>5, <1>6, <1>7, <1>8, <1>9, <1>10, <1>11, <1>12, MineStep
     DEF Next, Step

LEMMA Invariance == Spec => []IInv
BY IInvInit, IInvNext, PTL DEF Spec

\* Every state of the funder is well typed; in particular its balance stays a
\* natural number and the pool holds only top-ups.
THEOREM TypeCorrect == Spec => []TypeOK
BY Invariance, PTL DEF IInv

\* At most one call of EnsureGas is past the lock, and every way out of the
\* locked part gives the lock up (gasfunder.go, EnsureGas).
THEOREM MutexHeld == Spec => []LockDiscipline
BY Invariance, PTL DEF IInv

\* Concurrent top-ups do not race the funder's nonce: what a call read with
\* PendingNonceAt is still the pending nonce when it sends (gasfunder.go,
\* buildAndSend under EnsureGas's mutex), for any number of calls, lost
\* answers and timeouts.
THEOREM NoncesNotRaced == Spec => []NonceStaysFresh
BY Invariance, PTL DEF IInv
-----------------------------------------------------------------------------
(* How many top-ups are on their way.                                       *)

IsPending(c) == \E i \in 1..Len(pool) : pool[i].call = c

\* A call sends at most one top-up, for its own account: it is pending once, and
\* no longer when it is mined.
SentOnce ==
    /\ \A c \in Calls : pc[c] \notin {"wait", "returned"} => ~IsPending(c) /\ ~IsMined(c)
    /\ \A i \in 1..Len(pool) : pool[i].account = AccountOf[pool[i].call] /\ ~IsMined(pool[i].call)
    /\ \A i, j \in 1..Len(pool) : pool[i].call = pool[j].call => i = j

\* The call whose receipt is awaited has the only top-up that is pending without
\* having been counted as a lapse.
Awaited(a) == \E c \in Calls : pc[c] = "wait" /\ AccountOf[c] = a /\ IsPending(c)

Counted == \A a \in Accounts : PendingFor(a) <= lapses[a] + (IF Awaited(a) THEN 1 ELSE 0)

Room(a) == balance[a] + topUpWei * PendingFor(a) < minBalanceWei + topUpWei * lapses[a]

\* From the second balance read to the sending, there is room for the top-up.
RoomToSend == \A c \in Calls : pc[c] \in {"funder", "nonce", "send"} => Room(AccountOf[c])

TopUpInv == SentOnce /\ Counted /\ RoomToSend /\ TopUpsJustified

\* Arithmetic of top-ups.
LEMMA OneMore == ASSUME NEW t \in Nat, NEW n \in Nat PROVE t * (n + 1) = t * n + t /\ t * n \in Nat
  OBVIOUS

LEMMA Monotone == ASSUME NEW t \in Nat, NEW m \in Nat, NEW n \in Nat, m <= n PROVE t * m <= t * n
  OBVIOUS

\* The positions in a sequence of top-ups that are for account a.
For(q, a) == {i \in 1..Len(q) : q[i].account = a}

LEMMA ForFinite ==
    ASSUME NEW q \in Seq(TopUps), NEW a
    PROVE  IsFiniteSet(For(q, a)) /\ Cardinality(For(q, a)) \in Nat
<1>1. Len(q) \in Nat /\ For(q, a) \in SUBSET (1..Len(q))
  BY DEF For
<1>2. IsFiniteSet(1..Len(q))
  BY <1>1, FS_Interval
<1>3. IsFiniteSet(For(q, a))
  BY <1>1, <1>2, FS_Subset
<1> QED
  BY <1>3, FS_CardinalityType

LEMMA CountAppend ==
    ASSUME NEW q \in Seq(TopUps), NEW tx \in TopUps, NEW a
    PROVE  Cardinality(For(Append(q, tx), a)) =
               Cardinality(For(q, a)) + (IF tx.account = a THEN 1 ELSE 0)
<1>1. /\ Len(Append(q, tx)) = Len(q) + 1 /\ Len(q) \in Nat
      /\ Append(q, tx)[Len(q) + 1] = tx
      /\ \A i \in 1..Len(q) : Append(q, tx)[i] = q[i]
  BY AppendProperties
<1>2. Len(q) + 1 \notin For(q, a)
  BY <1>1 DEF For
<1>3. CASE tx.account = a
  <2>1. For(Append(q, tx), a) = For(q, a) \cup {Len(q) + 1}
    BY <1>1, <1>3 DEF For
  <2> QED
    BY <1>2, <1>3, <2>1, ForFinite, FS_AddElement
<1>4. CASE tx.account # a
  <2>1. For(Append(q, tx), a) = For(q, a)
    BY <1>1, <1>4 DEF For
  <2> QED
    BY <1>4, <2>1, ForFinite
<1> QED
  BY <1>3, <1>4

LEMMA CountTail ==
    ASSUME NEW q \in Seq(TopUps), q # << >>, NEW a
    PROVE  Cardinality(For(Tail(q), a)) =
               Cardinality(For(q, a)) - (IF Head(q).account = a THEN 1 ELSE 0)
<1>1. /\ Len(q) \in Nat \ {0} /\ Len(Tail(q)) = Len(q) - 1
      /\ Head(q) = q[1] /\ \A i \in 1..(Len(q) - 1) : Tail(q)[i] = q[i + 1]
  BY HeadTailProperties, EmptySeq
<1> DEFINE S == For(Tail(q), a)
           T == For(q, a) \ {1}
           f == [i \in S |-> i + 1]
<1>2. f \in Bijection(S, T)
  <2>1. \A i \in S : i + 1 \in T
    BY <1>1 DEF For
  <2>2. \A j \in T : j - 1 \in S /\ (j - 1) + 1 = j
    BY <1>1 DEF For
  <2>3. f \in [S -> T]
    BY <2>1
  <2>4. \A x, y \in S : f[x] = f[y] => x = y
    BY <1>1 DEF For
  <2>5. \A j \in T : \E i \in S : f[i] = j
    BY <2>2
  <2> QED
    BY <2>3, <2>4, <2>5, Fun_IsBij
<1>3. IsFiniteSet(S) /\ Cardinality(T) = Cardinality(S)
  <2>1. Tail(q) \in Seq(TopUps)
    BY HeadTailProperties
  <2>2. IsFiniteSet(S)
    BY <2>1, ForFinite
  <2>3. ExistsBijection(S, T)
    BY <1>2 DEF ExistsBijection
  <2> QED
    BY <2>2, <2>3, FS_Bijection
<1>4. Cardinality(T) = Cardinality(For(q, a)) - (IF Head(q).account = a THEN 1 ELSE 0)
  <2>1. 1 \in For(q, a) <=> Head(q).account = a
    BY <1>1 DEF For
  <2>2. Cardinality(T) = IF 1 \in For(q, a) THEN Cardinality(For(q, a)) - 1 ELSE Cardinality(For(q, a))
    BY ForFinite, FS_RemoveElement
  <2> HIDE DEF T
  <2> QED
    BY <2>1, <2>2, ForFinite
<1> QED
  BY <1>3, <1>4

LEMMA PendingType == ASSUME TypeOK, NEW a PROVE PendingFor(a) \in Nat /\ PendingFor(a) = Cardinality(For(pool, a))
  BY ForFinite DEF TypeOK, PendingFor, For

\* While a call is past the lock and not waiting, nobody is.
LEMMA NobodyWaits ==
    ASSUME IInv, NEW c \in Calls, pc[c] \in Critical, pc[c] # "wait"
    PROVE  \A a \in Accounts : ~Awaited(a)
<1>1. \A d \in Calls : pc[d] = "wait" => mu = d /\ mu = c
  BY DEF IInv, LockDiscipline, Critical
<1> QED
  BY <1>1 DEF Awaited

\* More lapses leave more room.
LEMMA RoomKept ==
    ASSUME TypeOK, TypeOK', NEW a \in Accounts, UNCHANGED <<balance, pool>>, lapses'[a] >= lapses[a]
    PROVE  /\ Room(a) => Room(a)'
           /\ balance[a] + topUpWei * PendingFor(a) < minBalanceWei + topUpWei * (1 + lapses[a]) =>
                balance'[a] + topUpWei * PendingFor(a)' < minBalanceWei + topUpWei * (1 + lapses'[a])
<1>1. /\ balance[a] \in Nat /\ lapses[a] \in Nat /\ lapses'[a] \in Nat /\ topUpWei \in Nat /\ minBalanceWei \in Nat
      /\ PendingFor(a)' = PendingFor(a) /\ PendingFor(a) \in Nat
  BY PendingType, FunderAssumption DEF TypeOK, PendingFor
<1>2. topUpWei * lapses[a] <= topUpWei * lapses'[a]
  BY <1>1, Monotone
<1>3. topUpWei * (1 + lapses[a]) <= topUpWei * (1 + lapses'[a])
  BY <1>1, Monotone
<1>4. /\ topUpWei * PendingFor(a) \in Int /\ topUpWei * lapses[a] \in Int /\ topUpWei * lapses'[a] \in Int
      /\ topUpWei * (1 + lapses[a]) \in Int /\ topUpWei * (1 + lapses'[a]) \in Int
  BY <1>1
<1> QED
  BY <1>1, <1>2, <1>3, <1>4 DEF Room

\* A step of one call that sends nothing: it keeps the count if the top-up it
\* waited for is mined or counted as a lapse.
LEMMA QuietStep ==
    ASSUME TypeOK, TypeOK', TopUpInv, NEW c \in Calls, NEW where \in Locations \ {"wait"},
           pc' = [pc EXCEPT ![c] = where], UNCHANGED <<balance, mined, pool>>,
           \A a \in Accounts : lapses'[a] >= lapses[a],
           where # "returned" => pc[c] \notin {"wait", "returned"},
           where \in {"funder", "nonce", "send"} => Room(AccountOf[c])',
           pc[c] = "wait" => ~IsPending(c) \/ lapses'[AccountOf[c]] = lapses[AccountOf[c]] + 1
    PROVE  TopUpInv'
<1>1. \A d \in Calls : pc'[d] = IF d = c THEN where ELSE pc[d]
  BY DEF TypeOK
<1>2. /\ \A d \in Calls : IsPending(d)' = IsPending(d) /\ IsMined(d)' = IsMined(d)
      /\ \A i \in 1..Len(pool) : IsMined(pool[i].call)' = IsMined(pool[i].call)
      /\ \A a \in Accounts : PendingFor(a)' = PendingFor(a)
  BY DEF IsPending, IsMined, PendingFor
<1>3. SentOnce'
  <2>1. \A d \in Calls : pc'[d] \notin {"wait", "returned"} => ~IsPending(d)' /\ ~IsMined(d)'
    BY <1>1, <1>2 DEF TopUpInv, SentOnce
  <2> QED
    BY <1>2, <2>1 DEF TopUpInv, SentOnce
<1>4. Counted'
  <2> SUFFICES ASSUME NEW a \in Accounts
               PROVE  PendingFor(a) <= lapses'[a] + (IF Awaited(a)' THEN 1 ELSE 0)
    BY <1>2 DEF Counted
  <2>1. /\ PendingFor(a) <= lapses[a] + (IF Awaited(a) THEN 1 ELSE 0) /\ lapses'[a] >= lapses[a]
        /\ PendingFor(a) \in Nat /\ lapses[a] \in Nat /\ lapses'[a] \in Nat
    BY PendingType DEF TopUpInv, Counted, TypeOK
  <2>2. Awaited(a) => Awaited(a)' \/ (pc[c] = "wait" /\ AccountOf[c] = a /\ IsPending(c))
    BY <1>1, <1>2 DEF Awaited
  <2> QED
    BY <2>1, <2>2
<1>5. RoomToSend'
  <2> SUFFICES ASSUME NEW d \in Calls, pc'[d] \in {"funder", "nonce", "send"} PROVE Room(AccountOf[d])'
    BY DEF RoomToSend
  <2>1. CASE d = c
    BY <1>1, <2>1
  <2>2. CASE d # c
    <3>1. Room(AccountOf[d]) /\ AccountOf[d] \in Accounts
      BY <1>1, <2>2, FunderAssumption DEF TopUpInv, RoomToSend
    <3> QED
      BY <3>1, RoomKept
  <2> QED
    BY <2>1, <2>2
<1>6. TopUpsJustified'
  BY RoomKept DEF TopUpInv, TopUpsJustified
<1> QED
  BY <1>3, <1>4, <1>5, <1>6 DEF TopUpInv

\* The node takes a top-up: the room that was there is used, and it is either
\* waited for or counted as a lapse.
LEMMA TopUpSent ==
    ASSUME IInv, IInv', TopUpInv, NEW c \in Calls, pc[c] = "send", Accepted(c),
           NEW where \in {"wait", "returned"}, Goto(c, where), UNCHANGED <<balance, mined>>,
           IF where = "wait" THEN UNCHANGED lapses ELSE Lapse(c)
    PROVE  TopUpInv'
<1> DEFINE tx == [call |-> c, account |-> AccountOf[c]]
<1>0. TypeOK /\ TypeOK' /\ AccountOf[c] \in Accounts
  BY FunderAssumption DEF IInv
<1>1. pool \in Seq(TopUps) /\ tx \in TopUps /\ pool' = Append(pool, tx)
  BY <1>0, AcceptedAppends DEF TypeOK, TopUps
<1>2. tx.call = c /\ tx.account = AccountOf[c]
  OBVIOUS
<1> HIDE DEF tx
<1>3. /\ Len(pool') = Len(pool) + 1 /\ Len(pool) \in Nat /\ pool'[Len(pool) + 1] = tx
      /\ \A i \in 1..Len(pool) : pool'[i] = pool[i] /\ pool[i] \in TopUps
  BY <1>1, AppendProperties
<1>4. \A d \in Calls : pc'[d] = IF d = c THEN where ELSE pc[d]
  BY <1>0 DEF TypeOK, Goto
<1>5. ~IsPending(c) /\ ~IsMined(c) /\ (\A a \in Accounts : ~Awaited(a))
  BY NobodyWaits DEF TopUpInv, SentOnce, Critical
<1>6. /\ \A d : IsMined(d)' = IsMined(d)
      /\ \A d : IsPending(d)' <=> IsPending(d) \/ d = c
  <2>1. \A i \in 1..Len(pool') : i \in 1..Len(pool) \/ i = Len(pool) + 1
    BY <1>3
  <2>2. Len(pool) + 1 \in 1..Len(pool') /\ \A i \in 1..Len(pool) : i \in 1..Len(pool')
    BY <1>3
  <2> QED
    BY <1>2, <1>3, <2>1, <2>2 DEF IsPending, IsMined
<1>7. SentOnce'
  <2>1. \A d \in Calls : pc'[d] \notin {"wait", "returned"} => ~IsPending(d)' /\ ~IsMined(d)'
    BY <1>4, <1>6 DEF TopUpInv, SentOnce
  <2>2. ASSUME NEW i \in 1..Len(pool')
        PROVE  pool'[i].account = AccountOf[pool'[i].call] /\ ~IsMined(pool[i].call)'
    <3>1. CASE i \in 1..Len(pool)
      BY <1>3, <3>1 DEF TopUpInv, SentOnce, IsMined
    <3>2. CASE i = Len(pool) + 1
      BY <1>2, <1>3, <1>5, <3>2 DEF IsMined
    <3> QED
      BY <1>3, <3>1, <3>2
  <2>3. ASSUME NEW i \in 1..Len(pool'), NEW j \in 1..Len(pool'), pool'[i].call = pool'[j].call PROVE i = j
    <3>1. \A k \in 1..Len(pool) : pool'[k].call # c
      BY <1>3, <1>5 DEF IsPending
    <3>2. CASE i \in 1..Len(pool) /\ j \in 1..Len(pool)
      BY <1>3, <2>3, <3>2 DEF TopUpInv, SentOnce
    <3> QED
      BY <1>2, <1>3, <2>3, <3>1, <3>2
  <2> QED
    BY <2>1, <2>2, <2>3 DEF SentOnce
<1>8. ASSUME NEW a \in Accounts
      PROVE  /\ PendingFor(a)' = PendingFor(a) + (IF AccountOf[c] = a THEN 1 ELSE 0)
             /\ PendingFor(a) \in Nat /\ PendingFor(a) <= lapses[a] /\ lapses[a] \in Nat
             /\ lapses'[a] = lapses[a] + (IF AccountOf[c] = a /\ where = "returned" THEN 1 ELSE 0)
  <2>1. PendingFor(a)' = Cardinality(For(Append(pool, tx), a))
    BY <1>1 DEF PendingFor, For
  <2>2. Cardinality(For(Append(pool, tx), a)) = Cardinality(For(pool, a)) + (IF AccountOf[c] = a THEN 1 ELSE 0)
    BY <1>1, <1>2, CountAppend
  <2>3. PendingFor(a) \in Nat /\ PendingFor(a) = Cardinality(For(pool, a))
    BY <1>0, PendingType
  <2>4. PendingFor(a) <= lapses[a] /\ lapses[a] \in Nat
    BY <1>0, <1>5, <2>3 DEF TopUpInv, Counted, TypeOK
  <2>5. lapses'[a] = lapses[a] + (IF AccountOf[c] = a /\ where = "returned" THEN 1 ELSE 0)
    BY <1>0, <2>4 DEF TypeOK, Lapse
  <2> QED
    BY <2>1, <2>2, <2>3, <2>4, <2>5
<1>9. Counted'
  <2> SUFFICES ASSUME NEW a \in Accounts
               PROVE  PendingFor(a)' <= lapses'[a] + (IF Awaited(a)' THEN 1 ELSE 0)
    BY DEF Counted
  <2>1. where = "wait" /\ AccountOf[c] = a => Awaited(a)'
    BY <1>4, <1>6 DEF Awaited
  <2> QED
    BY <1>8, <2>1
<1>10. RoomToSend'
  <2>1. \A d \in Calls : pc'[d] \notin {"funder", "nonce", "send"}
    <3>1. \A d \in Calls : pc[d] \in Critical => d = c
      BY DEF IInv, LockDiscipline, Critical
    <3> QED
      BY <1>4, <3>1 DEF Critical
  <2> QED
    BY <2>1 DEF RoomToSend
<1>11. TopUpsJustified'
  <2> SUFFICES ASSUME NEW a \in Accounts
               PROVE  balance'[a] + topUpWei * PendingFor(a)' < minBalanceWei + topUpWei * (1 + lapses'[a])
    BY DEF TopUpsJustified
  <2>1. /\ balance'[a] = balance[a] /\ balance[a] \in Nat /\ topUpWei \in Nat /\ minBalanceWei \in Nat
        /\ lapses'[a] \in Nat
    BY <1>0, FunderAssumption DEF TypeOK
  <2>2. /\ topUpWei * (lapses[a] + 1) = topUpWei * lapses[a] + topUpWei /\ topUpWei * lapses[a] \in Nat
        /\ topUpWei * (PendingFor(a) + 1) = topUpWei * PendingFor(a) + topUpWei /\ topUpWei * PendingFor(a) \in Nat
    BY <1>8, <2>1, OneMore
  <2>3. topUpWei * (1 + lapses[a]) <= topUpWei * (1 + lapses'[a])
    <3>1. 1 + lapses[a] <= 1 + lapses'[a] /\ 1 + lapses[a] \in Nat /\ 1 + lapses'[a] \in Nat
      BY <1>8, <2>1
    <3> QED
      BY <2>1, <3>1, Monotone
  <2>4. topUpWei * (1 + lapses[a]) = topUpWei * lapses[a] + topUpWei /\ topUpWei * (1 + lapses'[a]) \in Int
    BY <1>8, <2>1, <2>2
  <2>5. CASE AccountOf[c] = a
    <3>1. balance[a] + topUpWei * PendingFor(a) < minBalanceWei + topUpWei * lapses[a]
      BY <2>5 DEF TopUpInv, RoomToSend, Room
    <3>2. topUpWei * PendingFor(a)' = topUpWei * PendingFor(a) + topUpWei
      BY <1>8, <2>2, <2>5
    <3> QED
      BY <2>1, <2>2, <2>3, <2>4, <3>1, <3>2
  <2>6. CASE AccountOf[c] # a
    <3>1. balance[a] + topUpWei * PendingFor(a) < minBalanceWei + topUpWei * (1 + lapses[a])
      BY DEF TopUpInv, TopUpsJustified
    <3>2. topUpWei * PendingFor(a)' = topUpWei * PendingFor(a)
      BY <1>8, <2>6
    <3> QED
      BY <2>1, <2>2, <2>3, <2>4, <3>1, <3>2
  <2> QED
    BY <2>5, <2>6
<1> QED
  BY <1>7, <1>9, <1>10, <1>11 DEF TopUpInv

\* What an agent has and what is on its way to it.
Total(a) == balance[a] + topUpWei * PendingFor(a)

\* A step of the chain that adds to no total leaves the room there was.
LEMMA NoMore ==
    ASSUME TypeOK, TypeOK', RoomToSend, TopUpsJustified, UNCHANGED <<pc, lapses>>,
           \A a \in Accounts : Total(a)' <= Total(a)
    PROVE  RoomToSend' /\ TopUpsJustified'
<1>1. ASSUME NEW a \in Accounts
      PROVE  /\ Total(a) \in Int /\ Total(a)' \in Int /\ topUpWei * lapses[a] \in Int
             /\ topUpWei * (1 + lapses[a]) \in Int
  <2>1. /\ balance[a] \in Nat /\ balance'[a] \in Nat /\ topUpWei \in Nat /\ lapses[a] \in Nat
        /\ PendingFor(a) \in Nat
    BY PendingType, FunderAssumption DEF TypeOK
  <2>2. PendingFor(a)' \in Nat
    BY ForFinite DEF TypeOK, PendingFor, For
  <2> QED
    BY <2>1, <2>2 DEF Total
<1>2. minBalanceWei \in Int
  BY FunderAssumption
<1>3. RoomToSend'
  <2> SUFFICES ASSUME NEW c \in Calls, pc[c] \in {"funder", "nonce", "send"} PROVE Room(AccountOf[c])'
    BY DEF RoomToSend
  <2>1. AccountOf[c] \in Accounts /\ Room(AccountOf[c])
    BY FunderAssumption DEF RoomToSend
  <2> QED
    BY <1>1, <1>2, <2>1 DEF Room, Total
<1>4. TopUpsJustified'
  BY <1>1, <1>2 DEF TopUpsJustified, Total
<1> QED
  BY <1>3, <1>4

\* A mined top-up is no longer pending, and what it adds to the balance it takes
\* from what is on its way.
LEMMA TopUpMined ==
    ASSUME IInv, IInv', TopUpInv, NEW ok \in BOOLEAN, Mine(ok)
    PROVE  TopUpInv'
<1> DEFINE h == Head(pool)
<1>0. TypeOK /\ TypeOK'
  BY DEF IInv
<1>1. /\ pool \in Seq(TopUps) /\ pool # << >> /\ mined \in Seq(TopUps)
      /\ pool' = Tail(pool) /\ mined' = Append(mined, h) /\ UNCHANGED <<pc, lapses>>
  BY <1>0 DEF TypeOK, Mine
<1>2. /\ h \in TopUps /\ h = pool[1] /\ Len(pool) \in Nat \ {0} /\ Len(pool') = Len(pool) - 1
      /\ \A i \in 1..Len(pool') : pool'[i] = pool[i + 1]
  BY <1>1, HeadTailProperties, EmptySeq
<1> HIDE DEF h
<1>3. /\ Len(mined') = Len(mined) + 1 /\ Len(mined) \in Nat /\ mined'[Len(mined) + 1] = h
      /\ \A i \in 1..Len(mined) : mined'[i] = mined[i]
  BY <1>1, <1>2, AppendProperties
<1>4. \A d : IsMined(d)' <=> IsMined(d) \/ d = h.call
  <2>1. \A i \in 1..Len(mined') : i \in 1..Len(mined) \/ i = Len(mined) + 1
    BY <1>3
  <2>2. Len(mined) + 1 \in 1..Len(mined') /\ \A i \in 1..Len(mined) : i \in 1..Len(mined')
    BY <1>3
  <2> QED
    BY <1>3, <2>1, <2>2 DEF IsMined
<1>5. \A i \in 1..Len(pool') : i + 1 \in 1..Len(pool) /\ pool'[i].call # h.call
  <2>1. \A i \in 1..Len(pool') : i + 1 \in 1..Len(pool) /\ 1 \in 1..Len(pool) /\ i + 1 # 1
    BY <1>2
  <2> QED
    BY <1>2, <2>1 DEF TopUpInv, SentOnce
<1>6. \A d : IsPending(d)' <=> IsPending(d) /\ d # h.call
  <2>1. \A i \in 1..Len(pool) : i = 1 \/ (i - 1 \in 1..Len(pool') /\ pool'[i - 1] = pool[i])
    BY <1>2
  <2> SUFFICES ASSUME NEW d
               PROVE  (\E i \in 1..Len(pool') : pool'[i].call = d) <=> IsPending(d) /\ d # h.call
    BY DEF IsPending
  <2>2. ASSUME NEW i \in 1..Len(pool'), pool'[i].call = d PROVE IsPending(d) /\ d # h.call
    BY <1>2, <1>5, <2>2 DEF IsPending
  <2>3. ASSUME NEW i \in 1..Len(pool), pool[i].call = d, d # h.call
        PROVE  \E j \in 1..Len(pool') : pool'[j].call = d
    BY <1>2, <2>1, <2>3
  <2> QED
    BY <2>2, <2>3 DEF IsPending
<1>7. h.account = AccountOf[h.call] /\ IsPending(h.call) /\ h.account \in Accounts
  BY <1>2 DEF TopUpInv, SentOnce, IsPending, TopUps
<1>8. SentOnce'
  <2>1. \A d \in Calls : pc'[d] \notin {"wait", "returned"} => ~IsPending(d)' /\ ~IsMined(d)'
    BY <1>1, <1>4, <1>6, <1>7 DEF TopUpInv, SentOnce
  <2>2. ASSUME NEW i \in 1..Len(pool')
        PROVE  pool'[i].account = AccountOf[pool'[i].call] /\ ~IsMined(pool[i].call)'
    <3>1. pool'[i] = pool[i + 1] /\ i + 1 \in 1..Len(pool) /\ pool'[i].call # h.call
      BY <1>2, <1>5
    <3>2. pool[i + 1].account = AccountOf[pool[i + 1].call] /\ ~IsMined(pool[i + 1].call)
      BY <3>1 DEF TopUpInv, SentOnce
    <3>3. \A d : ~IsMined(d) /\ d # h.call => ~(\E k \in 1..Len(mined') : mined'[k].call = d)
      BY <1>4 DEF IsMined
    <3> QED
      BY <3>1, <3>2, <3>3 DEF IsMined
  <2>3. ASSUME NEW i \in 1..Len(pool'), NEW j \in 1..Len(pool'), pool'[i].call = pool'[j].call PROVE i = j
    <3>1. i + 1 = j + 1
      BY <1>2, <1>5, <2>3 DEF TopUpInv, SentOnce
    <3> QED
      BY <1>2, <3>1
  <2> QED
    BY <2>1, <2>2, <2>3 DEF SentOnce
<1>9. ASSUME NEW a \in Accounts
      PROVE  /\ PendingFor(a)' = PendingFor(a) - (IF h.account = a THEN 1 ELSE 0)
             /\ PendingFor(a) \in Nat /\ PendingFor(a)' \in Nat
  <2>1. PendingFor(a)' = Cardinality(For(Tail(pool), a)) /\ PendingFor(a)' \in Nat
    BY <1>0, <1>1, ForFinite DEF PendingFor, For, TypeOK
  <2> QED
    BY <1>0, <1>1, <2>1, CountTail, PendingType DEF h
<1>10. Counted'
  <2> SUFFICES ASSUME NEW a \in Accounts
               PROVE  PendingFor(a)' <= lapses[a] + (IF Awaited(a)' THEN 1 ELSE 0)
    BY <1>1 DEF Counted
  <2>1. PendingFor(a) <= lapses[a] + (IF Awaited(a) THEN 1 ELSE 0) /\ lapses[a] \in Nat
    BY <1>0 DEF TopUpInv, Counted, TypeOK
  <2>2. Awaited(a) => Awaited(a)' \/ h.account = a
    BY <1>1, <1>6, <1>7 DEF Awaited
  <2> QED
    BY <1>9, <2>1, <2>2
<1>11. ASSUME NEW a \in Accounts PROVE Total(a)' <= Total(a)
  <2>1. /\ balance[a] \in Nat /\ topUpWei \in Nat
        /\ balance'[a] = balance[a] \/ (h.account = a /\ balance'[a] = balance[a] + topUpWei)
    BY <1>0, <1>7, FunderAssumption DEF Mine, TypeOK, h
  <2>2. CASE h.account = a
    <3>1. PendingFor(a) = PendingFor(a)' + 1
      BY <1>9, <2>2
    <3>2. topUpWei * PendingFor(a) = topUpWei * PendingFor(a)' + topUpWei /\ topUpWei * PendingFor(a)' \in Nat
      BY <1>9, <2>1, <3>1, OneMore
    <3> QED
      BY <2>1, <3>2 DEF Total
  <2>3. CASE h.account # a
    <3>1. PendingFor(a)' = PendingFor(a) /\ topUpWei * PendingFor(a) \in Nat
      BY <1>9, <2>1, <2>3, OneMore
    <3> QED
      BY <2>1, <2>3, <3>1 DEF Total
  <2> QED
    BY <2>2, <2>3
<1> QED
  BY <1>0, <1>1, <1>8, <1>10, <1>11, NoMore DEF TopUpInv

LEMMA GasBurnt ==
    ASSUME TypeOK, TypeOK', TopUpInv, NEW b \in Accounts, Burn(b)
    PROVE  TopUpInv'
<1>1. UNCHANGED <<pc, mined, pool, lapses>>
  BY DEF Burn
<1>2. SentOnce' /\ Counted'
  BY <1>1 DEF TopUpInv, SentOnce, Counted, Awaited, IsPending, IsMined, PendingFor
<1>3. ASSUME NEW a \in Accounts PROVE Total(a)' <= Total(a)
  <2>1. balance'[a] \in Nat /\ balance[a] \in Nat /\ balance'[a] <= balance[a]
    BY DEF Burn, TypeOK
  <2>2. PendingFor(a)' = PendingFor(a)
    BY <1>1 DEF PendingFor
  <2>3. topUpWei * PendingFor(a) \in Nat
    BY PendingType, FunderAssumption, OneMore
  <2> QED
    BY <2>1, <2>2, <2>3 DEF Total
<1> QED
  BY <1>1, <1>2, <1>3, NoMore DEF TopUpInv

LEMMA TopUpInit == Init => TopUpInv
<1> SUFFICES ASSUME Init PROVE TopUpInv
  OBVIOUS
<1>1. Len(pool) = 0 /\ Len(mined) = 0
  BY DEF Init
<1>2. SentOnce
  BY <1>1 DEF Init, SentOnce, IsPending, IsMined
<1>3. ASSUME NEW a \in Accounts PROVE PendingFor(a) = 0 /\ lapses[a] = 0
  BY <1>1, FS_EmptySet DEF Init, PendingFor
<1>4. ASSUME NEW a \in Accounts
      PROVE  balance[a] + topUpWei * PendingFor(a) < minBalanceWei + topUpWei * (1 + lapses[a])
  <2>1. balance[a] \in 0..(minBalanceWei + topUpWei - 1) /\ topUpWei \in Nat /\ minBalanceWei \in Nat
    BY FunderAssumption DEF Init
  <2>2. topUpWei * 0 = 0 /\ topUpWei * (1 + 0) = topUpWei
    BY <2>1
  <2> QED
    BY <1>3, <2>1, <2>2
<1>5. Counted
  BY <1>3 DEF Counted
<1>6. RoomToSend
  BY DEF Init, RoomToSend
<1> QED
  BY <1>2, <1>4, <1>5, <1>6 DEF TopUpInv, TopUpsJustified

\* A lapse of one call.
LEMMA Lapsed ==
    ASSUME TypeOK, NEW c \in Calls, Lapse(c)
    PROVE  /\ lapses'[AccountOf[c]] = lapses[AccountOf[c]] + 1
           /\ \A a \in Accounts : lapses'[a] >= lapses[a]
  BY FunderAssumption DEF TypeOK, Lapse

LEMMA NoLapse == ASSUME TypeOK, UNCHANGED lapses PROVE \A a \in Accounts : lapses'[a] >= lapses[a]
  BY DEF TypeOK

\* The second balance read: low with nothing uncounted on its way, or a lapse.
LEMMA RecheckGivesRoom ==
    ASSUME IInv, IInv', TopUpInv, NEW c \in Calls, NEW answered \in BOOLEAN, Recheck(c, answered),
           ~(answered /\ ~Low(c))
    PROVE  Room(AccountOf[c])'
<1> DEFINE a == AccountOf[c]
<1>0. TypeOK /\ TypeOK' /\ a \in Accounts
  BY FunderAssumption DEF IInv
<1>1. pc[c] = "recheck" /\ UNCHANGED <<balance, pool>> /\ PendingFor(a)' = PendingFor(a)
  BY DEF Recheck, chainVars, PendingFor
<1>2. /\ balance[a] \in Nat /\ PendingFor(a) \in Nat /\ lapses[a] \in Nat /\ lapses'[a] \in Nat
      /\ topUpWei \in Nat /\ minBalanceWei \in Nat
  BY <1>0, PendingType, FunderAssumption DEF TypeOK
<1>3. CASE ~answered
  <2>1. lapses'[a] = 1 + lapses[a]
    BY <1>0, <1>2, <1>3, Lapsed DEF Recheck
  <2>2. balance[a] + topUpWei * PendingFor(a) < minBalanceWei + topUpWei * (1 + lapses[a])
    BY <1>0 DEF TopUpInv, TopUpsJustified
  <2> QED
    BY <1>1, <2>1, <2>2 DEF Room
<1>4. CASE answered
  <2>1. lapses'[a] = lapses[a] /\ balance[a] < minBalanceWei
    BY <1>4 DEF Recheck, Low
  <2>2. PendingFor(a) <= lapses[a]
    BY <1>0, <1>1, <1>2, NobodyWaits DEF TopUpInv, Counted, Critical
  <2>3. topUpWei * PendingFor(a) <= topUpWei * lapses[a]
    BY <1>2, <2>2, Monotone
  <2>4. topUpWei * PendingFor(a) \in Nat /\ topUpWei * lapses[a] \in Nat
    BY <1>2, OneMore
  <2> HIDE DEF a
  <2>5. balance[a] + topUpWei * PendingFor(a) < minBalanceWei + topUpWei * lapses[a]
    BY <1>2, <2>1, <2>3, <2>4
  <2> QED
    BY <1>1, <2>1, <2>5 DEF Room, a
<1> QED
  BY <1>3, <1>4

LEMMA TopUpNext == IInv /\ IInv' /\ TopUpInv /\ [Next]_vars => TopUpInv'
<1> SUFFICES ASSUME IInv, IInv', TopUpInv, [Next]_vars PROVE TopUpInv'
  OBVIOUS
<1>0. TypeOK /\ TypeOK'
  BY DEF IInv
<1> USE DEF Locations, Critical
<1>1. ASSUME NEW c \in Calls, CheckBalance(c) \/ Lock(c) PROVE TopUpInv'
  <2>1. PICK where \in {"lock", "returned", "recheck"} : pc' = [pc EXCEPT ![c] = where]
    BY <1>1 DEF CheckBalance, Lock, Goto
  <2>2. pc[c] \in {"start", "lock"} /\ UNCHANGED <<balance, mined, pool, lapses>>
    BY <1>1 DEF CheckBalance, Lock, chainVars
  <2> QED
    BY <1>0, <2>1, <2>2, NoLapse, QuietStep
<1>2. ASSUME NEW c \in Calls, NEW answered \in BOOLEAN, Recheck(c, answered) PROVE TopUpInv'
  <2>1. PICK where \in {"funder", "returned"} :
            pc' = [pc EXCEPT ![c] = where] /\ (where = "funder" => ~(answered /\ ~Low(c)))
    BY <1>2 DEF Recheck, Leave, Goto
  <2>2. /\ pc[c] = "recheck" /\ UNCHANGED <<balance, mined, pool>>
        /\ \A a \in Accounts : lapses'[a] >= lapses[a]
    BY <1>0, <1>2, Lapsed DEF Recheck, chainVars, TypeOK
  <2>3. where = "funder" => Room(AccountOf[c])'
    BY <1>2, <2>1, RecheckGivesRoom
  <2> QED
    BY <1>0, <2>1, <2>2, <2>3, QuietStep
<1>3. ASSUME NEW c \in Calls, CheckFunder(c) \/ ReadNonce(c) PROVE TopUpInv'
  <2>1. PICK where \in {"nonce", "send", "returned"} : pc' = [pc EXCEPT ![c] = where]
    BY <1>3 DEF CheckFunder, ReadNonce, Leave, Goto
  <2>2. pc[c] \in {"funder", "nonce"} /\ UNCHANGED <<balance, mined, pool, lapses>>
    BY <1>3 DEF CheckFunder, ReadNonce, chainVars
  <2>3. Room(AccountOf[c])'
    BY <2>2 DEF TopUpInv, RoomToSend, Room, PendingFor
  <2> QED
    BY <1>0, <2>1, <2>2, <2>3, NoLapse, QuietStep
<1>4. ASSUME NEW c \in Calls, Send(c) PROVE TopUpInv'
  BY <1>4, TopUpSent DEF Send
<1>5. ASSUME NEW c \in Calls, SendLost(c) PROVE TopUpInv'
  BY <1>5, TopUpSent DEF SendLost, Leave
<1>6. ASSUME NEW c \in Calls, Receipt(c) PROVE TopUpInv'
  <2>1. pc' = [pc EXCEPT ![c] = "returned"] /\ UNCHANGED <<balance, mined, pool, lapses>>
    BY <1>6 DEF Receipt, Leave, Goto, chainVars
  <2>2. ~IsPending(c)
    BY <1>6 DEF Receipt, TopUpInv, SentOnce, IsPending
  <2> QED
    BY <1>0, <2>1, <2>2, NoLapse, QuietStep
<1>7. ASSUME NEW c \in Calls, ReceiptTimeout(c) PROVE TopUpInv'
  <2>1. pc' = [pc EXCEPT ![c] = "returned"] /\ UNCHANGED <<balance, mined, pool>>
    BY <1>7 DEF ReceiptTimeout, Leave, Goto, chainVars
  <2> QED
    BY <1>0, <1>7, <2>1, Lapsed, QuietStep DEF ReceiptTimeout
<1>8. ASSUME NEW c \in Calls, Fail(c) PROVE TopUpInv'
  <2>1. /\ pc' = [pc EXCEPT ![c] = "returned"] /\ pc[c] # "wait"
        /\ UNCHANGED <<balance, mined, pool, lapses>>
    BY <1>8 DEF Fail, Goto, chainVars
  <2> QED
    BY <1>0, <2>1, NoLapse, QuietStep
<1>9. CASE UNCHANGED vars
  BY <1>9 DEF vars, TopUpInv, SentOnce, Counted, RoomToSend, TopUpsJustified, Room, Awaited, IsPending,
              IsMined, PendingFor
<1> QED
  BY <1>0, <1>1, <1>2, <1>3, <1>4, <1>5, <1>6, <1>7, <1>8, <1>9, TopUpMined, GasBurnt DEF Next, Step

\* However many calls, accounts, timeouts, lost answers and failed reads: what an
\* agent has and what is on its way to it stays below the minimum and one top-up,
\* plus one for every lapse (gasfunder.go, EnsureGas's second read under the lock).
THEOREM NoDoubleTopUp == Spec => []TopUpsJustified
<1>1. Spec => []TopUpInv
  BY TopUpInit, TopUpNext, Invariance, PTL DEF Spec
<1>2. TopUpInv => TopUpsJustified
  BY DEF TopUpInv
<1> QED
  BY <1>1, <1>2, PTL
=============================================================================
