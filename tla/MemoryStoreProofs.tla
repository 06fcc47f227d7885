-------------------------- MODULE MemoryStoreProofs --------------------------
(***************************************************************************)
(* MemoryStore keeps its slice well typed and free of duplicate identities *)
(* for every set of addresses, nonces, spellings and offered rows.         *)
(***************************************************************************)
EXTENDS MemoryStore, SequenceTheorems, WellFoundedInduction, TLAPS

\* The inductive invariant: "the loop stops at the first match" only means
\* "the loop finds THE row" because identities are unique, and a refresh only
\* keeps them unique because the refreshed row has the identity it matched.
IInv == TypeOK /\ UniqueIds

\* idMatch compares identities up to letter case (store.go, idMatch).
LEMMA MatchIsCanonical ==
    ASSUME NEW x \in SpelledIds, NEW y \in SpelledIds
    PROVE  idMatch(x, y) <=> Canonical(x) = Canonical(y)
BY DEF idMatch, EqualFold, Canonical, SpelledIds, Spelled

\* A refresh of a row by a row is a row.
LEMMA RefreshedType ==
    ASSUME NEW old \in Authorization, NEW a \in Authorization
    PROVE  /\ Refreshed(old, a) \in Authorization
           /\ Refreshed(old, a).spent = old.spent
BY DEF Refreshed, Authorization

\* The slice as a function on its indices.
LEMMA RowsTyped ==
    ASSUME TypeOK
    PROVE  /\ DOMAIN rows = 1..Len(rows)
           /\ Len(rows) \in Nat
           /\ \A i \in DOMAIN rows : /\ rows[i] \in Stored
                                      /\ rows[i].id \in SpelledIds
                                      /\ rows[i].auth \in Authorization
<1>1. rows \in Seq(Stored)
  BY DEF TypeOK
<1>2. DOMAIN rows = 1..Len(rows) /\ Len(rows) \in Nat
  BY <1>1
<1>3. \A i \in DOMAIN rows : rows[i] \in Stored
  BY <1>1, <1>2
<1> QED
  BY <1>2, <1>3 DEF Stored

\* The loops over m.rows that stop at a match stop at the only one.
LEMMA FirstMatchIsTheMatch ==
    ASSUME IInv, NEW id \in SpelledIds, Matches(id) # {}
    PROVE  /\ FirstMatch(id) \in DOMAIN rows
           /\ Canonical(rows[FirstMatch(id)].id) = Canonical(id)
           /\ \A j \in DOMAIN rows : Canonical(rows[j].id) = Canonical(id) => j = FirstMatch(id)
<1>1. \A i \in DOMAIN rows : rows[i].id \in SpelledIds
  BY RowsTyped DEF IInv
<1>2. \A i \in DOMAIN rows : i \in Matches(id) <=> Canonical(rows[i].id) = Canonical(id)
  BY <1>1, MatchIsCanonical DEF Matches
<1>3. PICK i \in Matches(id) : TRUE
  OBVIOUS
<1>4. i \in DOMAIN rows /\ i \in Int
  BY <1>3, RowsTyped DEF Matches, IInv
<1>5. \A j \in Matches(id) : j = i
  BY <1>2, <1>3, <1>4 DEF Matches, IInv, UniqueIds
<1>6. \A j \in Matches(id) : i <= j
  BY <1>4, <1>5
<1>7. FirstMatch(id) \in Matches(id)
  BY <1>3, <1>6 DEF FirstMatch
<1>8. FirstMatch(id) = i
  BY <1>5, <1>7
<1> QED
  BY <1>2, <1>3, <1>4, <1>5, <1>8 DEF Matches

-----------------------------------------------------------------------------
\* What Upsert writes: one place, refreshed or appended.
LEMMA UpsertStep ==
    ASSUME IInv, NEW offer \in Offers, DoUpsert(offer)
    PROVE  /\ IInv'
           /\ \A i \in DOMAIN rows :
                 /\ i \in DOMAIN rows'
                 /\ Canonical(rows'[i].id) = Canonical(rows[i].id)
                 /\ rows'[i].auth.spent = rows[i].auth.spent
<1>1. offer \in Stored /\ offer.id \in SpelledIds /\ offer.auth \in Authorization
  BY StoreAssumption DEF Stored
<1>2. TypeOK
  BY DEF IInv
<1>3. CASE Matches(offer.id) = {}
  <2>1. rows' = Append(rows, offer)
    BY <1>3 DEF DoUpsert
  <2>2. /\ Len(rows') = Len(rows) + 1
        /\ \A i \in DOMAIN rows : rows'[i] = rows[i]
        /\ rows'[Len(rows) + 1] = offer
        /\ DOMAIN rows' = 1..(Len(rows) + 1)
        /\ rows' \in Seq(Stored)
    BY <1>1, <1>2, <2>1, RowsTyped DEF TypeOK
  <2>3. \A i \in DOMAIN rows : Canonical(rows[i].id) # Canonical(offer.id)
    BY <1>1, <1>2, <1>3, RowsTyped, MatchIsCanonical DEF Matches
  <2>4. UniqueIds'
    BY <1>2, <2>2, <2>3, RowsTyped DEF UniqueIds, IInv
  <2> QED
    BY <1>2, <2>2, <2>4, RowsTyped DEF IInv, TypeOK
<1>4. CASE Matches(offer.id) # {}
  <2> DEFINE f == FirstMatch(offer.id)
             new == [id |-> offer.id, auth |-> Refreshed(rows[f].auth, offer.auth)]
  <2>1. /\ f \in DOMAIN rows
        /\ Canonical(rows[f].id) = Canonical(offer.id)
    BY <1>1, <1>4, FirstMatchIsTheMatch
  <2>2. rows' = [rows EXCEPT ![f] = new]
    BY <1>4 DEF DoUpsert
  <2> HIDE DEF f
  <2>3. /\ new \in Stored
        /\ new.id = offer.id
        /\ new.auth.spent = rows[f].auth.spent
    BY <1>1, <1>2, <2>1, RowsTyped, RefreshedType DEF Stored
  <2> HIDE DEF new
  <2>4. rows' \in Seq(Stored) /\ DOMAIN rows' = DOMAIN rows
    BY <1>2, <2>1, <2>2, <2>3, RowsTyped, ExceptSeq DEF TypeOK
  <2>5. \A i \in DOMAIN rows : rows'[i] = IF i = f THEN new ELSE rows[i]
    BY <2>1, <2>2
  <2>6. \A i \in DOMAIN rows : Canonical(rows'[i].id) = Canonical(rows[i].id)
    BY <2>1, <2>3, <2>5
  <2>7. UniqueIds'
    BY <2>4, <2>6 DEF UniqueIds, IInv
  <2>8. \A i \in DOMAIN rows : rows'[i].auth.spent = rows[i].auth.spent
    BY <2>3, <2>5
  <2> QED
    BY <2>4, <2>6, <2>7, <2>8 DEF IInv, TypeOK
<1> QED
  BY <1>3, <1>4

\* What BumpSpent writes: the spend of one place, upwards.
LEMMA BumpStep ==
    ASSUME IInv, NEW id \in SpelledIds, NEW add \in Bumps, DoBumpSpent(id, add)
    PROVE  /\ IInv'
           /\ DOMAIN rows' = DOMAIN rows
           /\ \A i \in DOMAIN rows :
                 /\ rows'[i].id = rows[i].id
                 /\ rows'[i].auth = IF i = FirstMatch(id)
                                    THEN [rows[i].auth EXCEPT !.spent = @ + add]
                                    ELSE rows[i].auth
                 /\ rows[i].auth.spent <= rows'[i].auth.spent
<1> DEFINE f == FirstMatch(id)
           new == [rows[f] EXCEPT !.auth.spent = @ + add]
<1>1. f \in DOMAIN rows
  BY FirstMatchIsTheMatch DEF DoBumpSpent
<1>2. rows' = [rows EXCEPT ![f] = new]
  BY DEF DoBumpSpent
<1> HIDE DEF f
<1>3. add \in Nat
  BY StoreAssumption
<1>4. rows[f] \in Stored /\ rows[f].auth \in Authorization /\ TypeOK
  BY <1>1, RowsTyped DEF IInv
<1>5. /\ new \in Stored
      /\ new.id = rows[f].id
      /\ new.auth = [rows[f].auth EXCEPT !.spent = @ + add]
      /\ rows[f].auth.spent <= new.auth.spent
  BY <1>3, <1>4 DEF Stored, Authorization
<1> HIDE DEF new
<1>6. rows' \in Seq(Stored) /\ DOMAIN rows' = DOMAIN rows
  BY <1>1, <1>2, <1>4, <1>5, RowsTyped, ExceptSeq DEF TypeOK
<1>7. \A i \in DOMAIN rows : rows'[i] = IF i = f THEN new ELSE rows[i]
  BY <1>1, <1>2
<1>8. \A i \in DOMAIN rows : rows[i].auth.spent \in Nat
  BY <1>4, RowsTyped DEF Authorization
<1>9. \A i \in DOMAIN rows : rows[i].auth.spent <= rows'[i].auth.spent
  <2> TAKE i \in DOMAIN rows
  <2>1. CASE i = f
    BY <1>5, <1>7, <2>1
  <2>2. CASE i # f
    <3>1. rows'[i] = rows[i]
      BY <1>7, <2>2
    <3> QED
      BY <1>8, <3>1
  <2> QED
    BY <2>1, <2>2
<1>10. UniqueIds'
  BY <1>5, <1>6, <1>7 DEF UniqueIds, IInv
<1> QED
  BY <1>5, <1>6, <1>7, <1>9, <1>10 DEF IInv, TypeOK, f

\* What MarkLocked writes: the lock of every row of the triple.
LEMMA LockStep ==
    ASSUME IInv, NEW owner, NEW agent, NEW token, DoMarkLocked(owner, agent, token)
    PROVE  /\ IInv'
           /\ DOMAIN rows' = DOMAIN rows
           /\ \A i \in DOMAIN rows :
                 /\ rows'[i].id = rows[i].id
                 /\ rows'[i].auth =
                        IF /\ EqualFold(rows[i].id.owner, owner)
                           /\ EqualFold(rows[i].id.agent, agent)
                           /\ EqualFold(rows[i].id.token, token)
                        THEN [rows[i].auth EXCEPT !.locked = TRUE]
                        ELSE rows[i].auth
                 /\ rows'[i].auth.spent = rows[i].auth.spent
<1>1. TypeOK
  BY DEF IInv
<1> DEFINE hit(i) == /\ EqualFold(rows[i].id.owner, owner)
                     /\ EqualFold(rows[i].id.agent, agent)
                     /\ EqualFold(rows[i].id.token, token)
           new(i) == IF hit(i) THEN [rows[i] EXCEPT !.auth.locked = TRUE] ELSE rows[i]
<1>2. rows' = [i \in DOMAIN rows |-> new(i)]
  BY DEF DoMarkLocked
<1>3. ASSUME NEW i \in DOMAIN rows
      PROVE  /\ new(i) \in Stored
             /\ new(i).id = rows[i].id
             /\ new(i).auth = IF hit(i) THEN [rows[i].auth EXCEPT !.locked = TRUE]
                              ELSE rows[i].auth
             /\ new(i).auth.spent = rows[i].auth.spent
  <2> HIDE DEF hit
  <2>1. rows[i] \in Stored
    BY <1>1, RowsTyped
  <2> QED
    BY <2>1 DEF Stored, Authorization
<1> HIDE DEF new
<1>4. DOMAIN rows' = DOMAIN rows /\ \A i \in DOMAIN rows : rows'[i] = new(i)
  BY <1>2
<1>5. rows' \in Seq(Stored)
  <2>1. Len(rows) \in Nat /\ DOMAIN rows = 1..Len(rows)
    BY <1>1, RowsTyped
  <2>2. \A i \in 1..Len(rows) : new(i) \in Stored
    BY <1>3, <2>1
  <2>3. [i \in 1..Len(rows) |-> new(i)] \in Seq(Stored)
    BY <2>1, <2>2, IsASeq
  <2> QED
    BY <1>2, <2>1, <2>3
<1>6. UniqueIds'
  BY <1>3, <1>4 DEF UniqueIds, IInv
<1> QED
  BY <1>3, <1>4, <1>5, <1>6 DEF IInv, TypeOK

LEMMA IInvInit == Init => IInv
BY DEF Init, IInv, TypeOK, UniqueIds

LEMMA IInvNext == IInv /\ [Next]_rows => IInv'
<1> SUFFICES ASSUME IInv, [Next]_rows PROVE IInv'
  OBVIOUS
<1>1. ASSUME NEW offer \in Offers, DoUpsert(offer) PROVE IInv'
  BY <1>1, UpsertStep
<1>2. ASSUME NEW id \in SpelledIds, NEW add \in Bumps, DoBumpSpent(id, add) PROVE IInv'
  BY <1>2, BumpStep
<1>3. ASSUME NEW owner \in Spelled(Owners), NEW agent \in Spelled(Agents),
             NEW token \in Spelled(Tokens), DoMarkLocked(owner, agent, token)
      PROVE  IInv'
  BY <1>3, LockStep
<1>4. CASE UNCHANGED rows
  BY <1>4 DEF IInv, TypeOK, UniqueIds
<1> QED
  BY <1>1, <1>2, <1>3, <1>4 DEF Next

\* The slice stays well typed and free of duplicate identities.
LEMMA Invariance == Spec => []IInv
BY IInvInit, IInvNext, PTL DEF Spec

\* Every method leaves a slice of well-formed rows.
THEOREM TypeCorrect == Spec => []TypeOK
BY Invariance, PTL DEF IInv

\* No two rows of the slice have one (owner, agent, token, nonce), whatever
\* the spellings Upsert is called with (store.go, Upsert and idMatch).
THEOREM IdentitiesUnique == Spec => []UniqueIds
BY Invariance, PTL DEF IInv

\* No method drops a row, moves its identity or lowers its SpentAtoms: the
\* refresh of Upsert keeps them (store.go, Upsert).
THEOREM SpendKept == Spec => SpentNeverShrinks
<1> DEFINE A == \A i \in DOMAIN rows :
                   /\ i \in DOMAIN rows'
                   /\ Canonical(rows'[i].id) = Canonical(rows[i].id)
                   /\ rows[i].auth.spent <= rows'[i].auth.spent
<1>1. IInv /\ [Next]_rows => [A]_rows
  <2> SUFFICES ASSUME IInv, Next PROVE A
    OBVIOUS
  <2>0. \A i \in DOMAIN rows : rows[i].auth.spent \in Nat
    BY RowsTyped DEF IInv, Authorization
  <2>1. ASSUME NEW offer \in Offers, DoUpsert(offer) PROVE A
    <3> SUFFICES ASSUME NEW i \in DOMAIN rows
                 PROVE  /\ i \in DOMAIN rows'
                        /\ Canonical(rows'[i].id) = Canonical(rows[i].id)
                        /\ rows[i].auth.spent <= rows'[i].auth.spent
      OBVIOUS
    <3>1. /\ i \in DOMAIN rows'
          /\ Canonical(rows'[i].id) = Canonical(rows[i].id)
          /\ rows'[i].auth.spent = rows[i].auth.spent
      BY <2>1, UpsertStep
    <3>2. rows[i].auth.spent \in Nat
      BY <2>0
    <3> QED
      BY <3>1, <3>2
  <2>2. ASSUME NEW id \in SpelledIds, NEW add \in Bumps, DoBumpSpent(id, add) PROVE A
    BY <2>2, BumpStep
  <2>3. ASSUME NEW owner \in Spelled(Owners), NEW agent \in Spelled(Agents),
               NEW token \in Spelled(Tokens), DoMarkLocked(owner, agent, token)
        PROVE  A
    <3> SUFFICES ASSUME NEW i \in DOMAIN rows
                 PROVE  /\ i \in DOMAIN rows'
                        /\ Canonical(rows'[i].id) = Canonical(rows[i].id)
                        /\ rows[i].auth.spent <= rows'[i].auth.spent
      OBVIOUS
    <3>1. /\ i \in DOMAIN rows'
          /\ rows'[i].id = rows[i].id
          /\ rows'[i].auth.spent = rows[i].auth.spent
      BY <2>3, LockStep
    <3>2. rows[i].auth.spent \in Nat
      BY <2>0
    <3> QED
      BY <3>1, <3>2
  <2> QED
    BY <2>1, <2>2, <2>3 DEF Next
<1> QED
  BY <1>1, Invariance, PTL DEF Spec, SpentNeverShrinks

-----------------------------------------------------------------------------
(* The slice implements the port.                                          *)

LEMMA CanonicalType ==
    ASSUME NEW id \in SpelledIds
    PROVE  Canonical(id) \in Ids
BY DEF Canonical, SpelledIds, Spelled, Ids

\* An identity without a row in the slice has none in the table.
LEMMA TableEmpty ==
    ASSUME NEW slice, NEW id \in Ids,
           \A i \in DOMAIN slice : Canonical(slice[i].id) # id
    PROVE  TableOf(slice)[id] = NoRow
BY DEF TableOf

\* An identity with one place in the slice has the row of that place.
LEMMA TableFilled ==
    ASSUME NEW slice, NEW id \in Ids, NEW i \in DOMAIN slice,
           Canonical(slice[i].id) = id,
           \A j \in DOMAIN slice : Canonical(slice[j].id) = id => j = i
    PROVE  TableOf(slice)[id] = slice[i].auth
<1> DEFINE at == {j \in DOMAIN slice : Canonical(slice[j].id) = id}
<1>1. at = {i}
  OBVIOUS
<1>2. TableOf(slice)[id] = IF at = {} THEN NoRow ELSE slice[CHOOSE j \in at : TRUE].auth
  BY DEF TableOf
<1>3. (CHOOSE j \in at : TRUE) = i
  BY <1>1
<1> QED
  BY <1>1, <1>2, <1>3

\* The table is a function on the identities.
LEMMA TableFunction ==
    ASSUME NEW slice
    PROVE  TableOf(slice) = [id \in Ids |-> TableOf(slice)[id]]
BY DEF TableOf

\* Two tables that agree on every identity are equal.
LEMMA TableExtensional ==
    ASSUME NEW slice, NEW t, t = [id \in Ids |-> t[id]],
           \A id \in Ids : TableOf(slice)[id] = t[id]
    PROVE  TableOf(slice) = t
BY TableFunction

\* Upsert on the slice is Upsert on the table.
LEMMA UpsertRefines ==
    ASSUME IInv, NEW offer \in Offers, DoUpsert(offer)
    PROVE  Table' = Upsert(Table, Canonical(offer.id), offer.auth)
<1> DEFINE key == Canonical(offer.id)
           new == Upsert(Table, key, offer.auth)
<1>1. /\ offer.id \in SpelledIds /\ offer.auth \in Authorization
      /\ key \in Ids /\ TypeOK /\ UniqueIds
  BY StoreAssumption, CanonicalType DEF Stored, IInv
<1>2. IInv' /\ UniqueIds'
  BY UpsertStep DEF IInv
<1>3. \A i \in DOMAIN rows : rows[i].auth # NoRow
  BY <1>1, RowsTyped, RowAssumption
<1>4. new = [id \in Ids |-> new[id]]
  BY DEF Upsert, Table, TableOf
<1>5. \A id \in Ids : new[id] = IF id = key
                                THEN IF Table[key] = NoRow THEN offer.auth
                                     ELSE Refreshed(Table[key], offer.auth)
                                ELSE Table[id]
  BY <1>1, TableFunction DEF Upsert, Table
<1> HIDE DEF new, key
<1>6. ASSUME NEW id \in Ids PROVE TableOf(rows')[id] = new[id]
  <2>1. CASE Matches(offer.id) = {}
    <3>1. rows' = Append(rows, offer)
      BY <2>1 DEF DoUpsert
    <3>2. /\ DOMAIN rows' = 1..(Len(rows) + 1)
          /\ \A i \in DOMAIN rows : rows'[i] = rows[i]
          /\ rows'[Len(rows) + 1] = offer
          /\ DOMAIN rows = 1..Len(rows)
          /\ Len(rows) \in Nat
      BY <1>1, <3>1, RowsTyped DEF TypeOK
    <3>3. \A i \in DOMAIN rows : Canonical(rows[i].id) # key
      BY <1>1, <2>1, RowsTyped, MatchIsCanonical DEF Matches, key
    <3>4. Table[key] = NoRow
      BY <1>1, <3>3, TableEmpty DEF Table
    <3>5. CASE id = key
      <4>1. Canonical(rows'[Len(rows) + 1].id) = id
        BY <3>2, <3>5 DEF key
      <4>2. TableOf(rows')[id] = rows'[Len(rows) + 1].auth
        BY <1>2, <3>2, <4>1, TableFilled DEF UniqueIds
      <4> QED
        BY <1>5, <3>2, <3>4, <3>5, <4>2
    <3>6. CASE id # key
      <4>1. CASE \E i \in DOMAIN rows : Canonical(rows[i].id) = id
        <5>1. PICK i \in DOMAIN rows : Canonical(rows[i].id) = id
          BY <4>1
        <5>2. i \in DOMAIN rows' /\ rows'[i] = rows[i]
          BY <3>2
        <5>3. TableOf(rows')[id] = rows[i].auth
          BY <1>2, <5>1, <5>2, TableFilled DEF UniqueIds
        <5>4. Table[id] = rows[i].auth
          BY <1>1, <5>1, TableFilled DEF UniqueIds, Table
        <5> QED
          BY <1>5, <3>6, <5>3, <5>4
      <4>2. CASE \A i \in DOMAIN rows : Canonical(rows[i].id) # id
        <5>1. \A i \in DOMAIN rows' : Canonical(rows'[i].id) # id
          BY <3>2, <3>6, <4>2 DEF key
        <5> QED
          BY <1>5, <3>6, <4>2, <5>1, TableEmpty DEF Table
      <4> QED
        BY <4>1, <4>2
    <3> QED
      BY <3>5, <3>6
  <2>2. CASE Matches(offer.id) # {}
    <3> DEFINE f == FirstMatch(offer.id)
    <3>1. f \in DOMAIN rows /\ Canonical(rows[f].id) = key
      BY <1>1, <2>2, FirstMatchIsTheMatch DEF key
    <3>2. rows' = [rows EXCEPT ![f] =
                     [id |-> offer.id, auth |-> Refreshed(rows[f].auth, offer.auth)]]
      BY <2>2 DEF DoUpsert
    <3> HIDE DEF f
    <3>3. /\ DOMAIN rows' = DOMAIN rows
          /\ rows'[f].id = offer.id
          /\ rows'[f].auth = Refreshed(rows[f].auth, offer.auth)
          /\ \A i \in DOMAIN rows : i # f => rows'[i] = rows[i]
      BY <1>1, <3>1, <3>2, RowsTyped
    <3>4. CASE id = key
      <4>1. Table[key] = rows[f].auth
        BY <1>1, <3>1, TableFilled DEF UniqueIds, Table
      <4>2. TableOf(rows')[id] = rows'[f].auth
        BY <1>2, <3>1, <3>3, <3>4, TableFilled DEF UniqueIds, key
      <4> QED
        BY <1>3, <1>5, <3>1, <3>3, <3>4, <4>1, <4>2
    <3>5. CASE id # key
      <4>1. CASE \E i \in DOMAIN rows : Canonical(rows[i].id) = id
        <5>1. PICK i \in DOMAIN rows : Canonical(rows[i].id) = id
          BY <4>1
        <5>2. i # f /\ i \in DOMAIN rows' /\ rows'[i] = rows[i]
          BY <3>1, <3>3, <3>5, <5>1
        <5>3. TableOf(rows')[id] = rows[i].auth
          BY <1>2, <5>1, <5>2, TableFilled DEF UniqueIds
        <5>4. Table[id] = rows[i].auth
          BY <1>1, <5>1, TableFilled DEF UniqueIds, Table
        <5> QED
          BY <1>5, <3>5, <5>3, <5>4
      <4>2. CASE \A i \in DOMAIN rows : Canonical(rows[i].id) # id
        <5>1. \A i \in DOMAIN rows' : Canonical(rows'[i].id) # id
          BY <3>1, <3>3, <4>2, <3>5 DEF key
        <5> QED
          BY <1>5, <3>5, <4>2, <5>1, TableEmpty DEF Table
      <4> QED
        BY <4>1, <4>2
    <3> QED
      BY <3>4, <3>5
  <2> QED
    BY <2>1, <2>2
<1> QED
  BY <1>4, <1>6, TableExtensional DEF Table, new, key

\* A step that keeps every place and its identity changes the table row by row.
LEMMA PlaceByPlace ==
    ASSUME UniqueIds, UniqueIds', DOMAIN rows' = DOMAIN rows,
           \A i \in DOMAIN rows : rows'[i].id = rows[i].id,
           NEW id \in Ids
    PROVE  \/ /\ \A i \in DOMAIN rows : Canonical(rows[i].id) # id
              /\ TableOf(rows)[id] = NoRow
              /\ TableOf(rows')[id] = NoRow
           \/ \E i \in DOMAIN rows :
                 /\ Canonical(rows[i].id) = id
                 /\ TableOf(rows)[id] = rows[i].auth
                 /\ TableOf(rows')[id] = rows'[i].auth
<1>1. CASE \A i \in DOMAIN rows : Canonical(rows[i].id) # id
  BY <1>1, TableEmpty
<1>2. CASE \E i \in DOMAIN rows : Canonical(rows[i].id) = id
  <2>1. PICK i \in DOMAIN rows : Canonical(rows[i].id) = id
    BY <1>2
  <2>2. TableOf(rows)[id] = rows[i].auth
    BY <2>1, TableFilled DEF UniqueIds
  <2>3. TableOf(rows')[id] = rows'[i].auth
    <3>1. i \in DOMAIN rows' /\ Canonical(rows'[i].id) = id
      BY <2>1
    <3>2. \A j \in DOMAIN rows' : Canonical(rows'[j].id) = id => j = i
      BY <3>1 DEF UniqueIds
    <3> QED
      BY <3>1, <3>2, TableFilled
  <2> QED
    BY <2>1, <2>2, <2>3
<1> QED
  BY <1>1, <1>2

\* BumpSpent on the slice is BumpSpent on the table.
LEMMA BumpRefines ==
    ASSUME IInv, NEW id \in SpelledIds, NEW add \in Bumps, DoBumpSpent(id, add)
    PROVE  /\ Canonical(id) \in Ids
           /\ Table[Canonical(id)] # NoRow
           /\ Table[Canonical(id)].spent + add <= MaxSpent
           /\ Table' = BumpSpent(Table, Canonical(id), add)
<1> DEFINE key == Canonical(id)
           f == FirstMatch(id)
           new == BumpSpent(Table, key, add)
<1>1. key \in Ids /\ TypeOK /\ UniqueIds
  BY CanonicalType DEF IInv
<1>2. /\ UniqueIds'
      /\ DOMAIN rows' = DOMAIN rows
      /\ \A i \in DOMAIN rows :
            /\ rows'[i].id = rows[i].id
            /\ rows'[i].auth = IF i = f THEN [rows[i].auth EXCEPT !.spent = @ + add]
                               ELSE rows[i].auth
  BY BumpStep DEF IInv
<1>3. /\ f \in DOMAIN rows
      /\ Canonical(rows[f].id) = key
      /\ \A j \in DOMAIN rows : Canonical(rows[j].id) = key => j = f
  BY FirstMatchIsTheMatch DEF DoBumpSpent
<1>4. rows[f].auth.spent + add <= MaxSpent
  BY DEF DoBumpSpent
<1> HIDE DEF f, key
<1>5. Table[key] = rows[f].auth
  BY <1>1, <1>3, TableFilled DEF Table
<1>6. Table[key] # NoRow
  BY <1>1, <1>3, <1>5, RowsTyped, RowAssumption
<1>7. new = [Table EXCEPT ![key].spent = @ + add]
  BY <1>6 DEF BumpSpent
<1>8. new = [j \in Ids |-> new[j]]
  BY <1>7, TableFunction DEF Table
<1>9. \A j \in Ids : new[j] = IF j = key THEN [Table[key] EXCEPT !.spent = @ + add]
                              ELSE Table[j]
  BY <1>1, <1>7, TableFunction DEF Table
<1> HIDE DEF new
<1>10. ASSUME NEW j \in Ids PROVE TableOf(rows')[j] = new[j]
  <2>1. CASE j = key
    <3>1. PICK i \in DOMAIN rows : /\ Canonical(rows[i].id) = j
                                   /\ TableOf(rows')[j] = rows'[i].auth
      BY <1>1, <1>2, <1>3, <2>1, PlaceByPlace
    <3>2. i = f
      BY <1>3, <2>1, <3>1
    <3> QED
      BY <1>2, <1>3, <1>5, <1>9, <2>1, <3>1, <3>2
  <2>2. CASE j # key
    <3>1. CASE TableOf(rows)[j] = NoRow /\ TableOf(rows')[j] = NoRow
      BY <1>9, <2>2, <3>1 DEF Table
    <3>2. CASE \E i \in DOMAIN rows :
                 /\ Canonical(rows[i].id) = j
                 /\ TableOf(rows)[j] = rows[i].auth
                 /\ TableOf(rows')[j] = rows'[i].auth
      BY <1>2, <1>3, <1>9, <2>2, <3>2 DEF Table
    <3> QED
      BY <1>1, <1>2, <3>1, <3>2, PlaceByPlace
  <2> QED
    BY <2>1, <2>2
<1> QED
  BY <1>1, <1>4, <1>5, <1>6, <1>8, <1>10, TableExtensional DEF Table, new, key

\* MarkLocked on the slice is MarkLocked on the table.
LEMMA LockRefines ==
    ASSUME IInv, NEW owner \in Spelled(Owners), NEW agent \in Spelled(Agents),
           NEW token \in Spelled(Tokens), DoMarkLocked(owner, agent, token)
    PROVE  Table' = MarkLocked(Table, owner.addr, agent.addr, token.addr)
<1> DEFINE hit(i) == /\ EqualFold(rows[i].id.owner, owner)
                     /\ EqualFold(rows[i].id.agent, agent)
                     /\ EqualFold(rows[i].id.token, token)
           new == MarkLocked(Table, owner.addr, agent.addr, token.addr)
<1>1. TypeOK /\ UniqueIds
  BY DEF IInv
<1>2. /\ UniqueIds'
      /\ DOMAIN rows' = DOMAIN rows
      /\ \A i \in DOMAIN rows :
            /\ rows'[i].id = rows[i].id
            /\ rows'[i].auth = IF hit(i) THEN [rows[i].auth EXCEPT !.locked = TRUE]
                               ELSE rows[i].auth
  BY LockStep DEF IInv
<1>3. new = [j \in Ids |-> new[j]]
  BY DEF MarkLocked
<1>4. \A j \in Ids : new[j] = IF Table[j] # NoRow /\ Locks(j, owner.addr, agent.addr, token.addr)
                              THEN [Table[j] EXCEPT !.locked = TRUE] ELSE Table[j]
  BY DEF MarkLocked
<1> HIDE DEF new
<1>5. ASSUME NEW j \in Ids PROVE TableOf(rows')[j] = new[j]
  <2>1. CASE TableOf(rows)[j] = NoRow /\ TableOf(rows')[j] = NoRow
    BY <1>4, <2>1 DEF Table
  <2>2. CASE \E i \in DOMAIN rows :
               /\ Canonical(rows[i].id) = j
               /\ TableOf(rows)[j] = rows[i].auth
               /\ TableOf(rows')[j] = rows'[i].auth
    <3>1. PICK i \in DOMAIN rows :
               /\ Canonical(rows[i].id) = j
               /\ TableOf(rows)[j] = rows[i].auth
               /\ TableOf(rows')[j] = rows'[i].auth
      BY <2>2
    <3>2. hit(i) <=> Locks(j, owner.addr, agent.addr, token.addr)
      BY <3>1 DEF EqualFold, Locks, Canonical
    <3>3. rows[i].auth # NoRow
      BY <1>1, RowsTyped, RowAssumption
    <3>4. rows'[i].auth = IF hit(i) THEN [rows[i].auth EXCEPT !.locked = TRUE]
                          ELSE rows[i].auth
      BY <1>2
    <3>5. new[j] = IF Locks(j, owner.addr, agent.addr, token.addr)
                   THEN [rows[i].auth EXCEPT !.locked = TRUE] ELSE rows[i].auth
      BY <1>4, <3>1, <3>3 DEF Table
    <3> HIDE DEF hit
    <3> QED
      BY <3>1, <3>2, <3>4, <3>5
  <2> QED
    BY <1>1, <1>2, <2>1, <2>2, PlaceByPlace
<1> QED
  BY <1>3, <1>5, TableExtensional DEF Table, new

\* MemoryStore implements the AuthorizationStore port: each method changes the
\* table the slice stands for exactly as the interface's comments say
\* (store.go, AuthorizationStore and MemoryStore), for every set of addresses,
\* nonces, spellings and offered rows.
THEOREM StoreMeetsPort == Spec => MeetsPort
<1>1. Init => Port!Init
  <2> SUFFICES ASSUME rows = << >> PROVE Port!Init
    BY DEF Init
  <2>1. \A id \in Ids : TableOf(rows)[id] = NoRow
    BY TableEmpty
  <2> QED
    BY <2>1, TableFunction DEF Port!Init, Port!Ids, Ids, Table
<1>2. IInv /\ [Next]_rows => [Port!Next]_Table
  <2> SUFFICES ASSUME IInv, [Next]_rows PROVE [Port!Next]_Table
    OBVIOUS
  <2>1. ASSUME NEW offer \in Offers, DoUpsert(offer) PROVE Port!Next
    <3> DEFINE o == [id |-> Canonical(offer.id), auth |-> offer.auth]
    <3>1. Table' = Upsert(Table, o.id, o.auth)
      BY <2>1, UpsertRefines
    <3>2. Port!DoUpsert(o)
      BY <3>1 DEF Port!DoUpsert, Port!Upsert, Port!Refreshed, Upsert, Refreshed
    <3>3. o \in {[id |-> Canonical(x.id), auth |-> x.auth] : x \in Offers}
      OBVIOUS
    <3> QED
      BY <3>2, <3>3 DEF Port!Next
  <2>2. ASSUME NEW id \in SpelledIds, NEW add \in Bumps, DoBumpSpent(id, add)
        PROVE  Port!Next
    <3>1. Port!DoBumpSpent(Canonical(id), add)
      BY <2>2, BumpRefines DEF Port!DoBumpSpent, Port!BumpSpent, BumpSpent
    <3>2. Canonical(id) \in Port!Ids
      BY <2>2, BumpRefines DEF Port!Ids, Ids
    <3> QED
      BY <3>1, <3>2 DEF Port!Next
  <2>3. ASSUME NEW owner \in Spelled(Owners), NEW agent \in Spelled(Agents),
               NEW token \in Spelled(Tokens), DoMarkLocked(owner, agent, token)
        PROVE  Port!Next
    <3>1. Port!DoMarkLocked(owner.addr, agent.addr, token.addr)
      BY <2>3, LockRefines
         DEF Port!DoMarkLocked, Port!MarkLocked, Port!Locks, Port!Ids,
             MarkLocked, Locks, Ids
    <3>2. owner.addr \in Owners /\ agent.addr \in Agents /\ token.addr \in Tokens
      BY DEF Spelled
    <3> QED
      BY <3>1, <3>2 DEF Port!Next
  <2>4. CASE UNCHANGED rows
    BY <2>4 DEF Table, TableOf
  <2> QED
    BY <2>1, <2>2, <2>3, <2>4 DEF Next
<1> QED
  BY <1>1, <1>2, Invariance, PTL DEF Spec, MeetsPort, Port!Spec

-----------------------------------------------------------------------------
(* The queries.                                                            *)

\* Every set of naturals has a least element: what the inductions below rest on.
LEMMA LeastNatural == ASSUME NEW T \in SUBSET Nat, T # {} PROVE \E x \in T : \A y \in T : x <= y
<1> DEFINE R == OpToRel(<, Nat)
<1>1. IsWellFoundedOn(R, Nat)
  BY NatLessThanWellFounded
<1>2. \A x, y \in Nat : <<x, y>> \in R <=> x < y
  BY DEF OpToRel
<1> HIDE DEF R
<1>3. PICK x \in T : \A y \in T : ~(<<y, x>> \in R)
  BY <1>1, WFMin
<1>4. ASSUME NEW y \in T PROVE x <= y
  <2>1. ~(<<y, x>> \in R) /\ x \in Nat /\ y \in Nat
    BY <1>3
  <2> QED
    BY <1>2, <2>1
<1> QED
  BY <1>4

\* i sorts before or with j under sort.SliceStable by CreatedAtUnix, descending.
Before(i, j) ==
    \/ rows[i].auth.created > rows[j].auth.created
    \/ rows[i].auth.created = rows[j].auth.created /\ i <= j

LEMMA Created == ASSUME TypeOK PROVE \A i \in DOMAIN rows : i \in Nat /\ rows[i].auth.created \in Nat
<1>1. \A i \in DOMAIN rows : rows[i].auth \in Authorization /\ i \in Nat
  BY RowsTyped
<1> QED
  BY <1>1 DEF Authorization

LEMMA BeforeOrder ==
    ASSUME TypeOK, NEW i \in DOMAIN rows, NEW j \in DOMAIN rows
    PROVE  /\ Before(i, i) /\ (Before(i, j) \/ Before(j, i))
           /\ \A k \in DOMAIN rows : Before(i, j) /\ Before(j, k) => Before(i, k)
  BY Created DEF Before

\* Any set of places has one that sorts before all of it, by induction on the
\* largest place: a counterexample below n + 1 would leave one below n.
LEMMA HeadExists ==
    ASSUME TypeOK, NEW S \in SUBSET (DOMAIN rows), S # {}
    PROVE  \E i \in S : \A j \in S : Before(i, j)
<1> DEFINE Headless(T) == T # {} /\ ~\E i \in T : \A j \in T : Before(i, j)
           Bad == {n \in Nat : \E T \in SUBSET (DOMAIN rows) : Headless(T) /\ \A i \in T : i <= n}
<1>1. DOMAIN rows = 1..Len(rows) /\ Len(rows) \in Nat
  BY RowsTyped
<1>2. Headless(S) => Len(rows) \in Bad
  BY <1>1
<1>3. Bad = {}
  <2> SUFFICES ASSUME Bad # {} PROVE FALSE
    OBVIOUS
  <2>1. PICK n \in Bad : \A m \in Bad : n <= m
    BY LeastNatural
  <2>2. PICK T \in SUBSET (DOMAIN rows) : Headless(T) /\ \A i \in T : i <= n
    BY <2>1
  <2>3. n \in Nat /\ n # 0 /\ n - 1 \in Nat /\ n - 1 \notin Bad
    <3>1. PICK i \in T : TRUE
      BY <2>2
    <3>2. i \in Nat /\ i >= 1 /\ i <= n
      BY <1>1, <2>2, <3>1
    <3> QED
      BY <2>1, <3>2
  <2>4. ~Headless(T \ {n})
    <3>1. \A i \in T \ {n} : i <= n - 1
      BY <1>1, <2>2, <2>3
    <3>2. T \ {n} \in SUBSET (DOMAIN rows)
      OBVIOUS
    <3> QED
      BY <2>3, <3>1, <3>2
  <2>5. CASE n \notin T
    <3>1. T \ {n} = T
      BY <2>5
    <3> QED
      BY <2>2, <2>4, <3>1
  <2>6. CASE n \in T /\ T \ {n} = {}
    BY <2>2, <2>6, BeforeOrder
  <2>7. CASE n \in T /\ T \ {n} # {}
    <3>1. PICK m \in T \ {n} : \A j \in T \ {n} : Before(m, j)
      BY <2>4, <2>7
    <3>2. m \in DOMAIN rows /\ n \in DOMAIN rows
      BY <2>7
    <3>3. CASE Before(m, n)
      BY <2>2, <3>1, <3>3
    <3>4. CASE Before(n, m)
      <4>1. \A j \in T : Before(n, j)
        BY <3>1, <3>2, <3>4, BeforeOrder
      <4> QED
        BY <2>2, <2>7, <4>1
    <3> QED
      BY <3>2, <3>3, <3>4, BeforeOrder
  <2> QED
    BY <2>5, <2>6, <2>7
<1> QED
  BY <1>2, <1>3

LEMMA NewestIsHead ==
    ASSUME TypeOK, NEW S \in SUBSET (DOMAIN rows), S # {}
    PROVE  Newest(S) \in S /\ \A j \in S : rows[j].auth.created <= rows[Newest(S)].auth.created
<1>1. \E i \in S : \A j \in S : Before(i, j)
  BY HeadExists
<1>2. Newest(S) \in S /\ \A j \in S : Before(Newest(S), j)
  BY <1>1 DEF Newest, Before
<1> QED
  BY <1>2, Created DEF Before

\* The table's row of a place's identity is the row of that place.
LEMMA RowOfPlace ==
    ASSUME IInv, NEW i \in DOMAIN rows
    PROVE  /\ Canonical(rows[i].id) \in Ids
           /\ Table[Canonical(rows[i].id)] = rows[i].auth /\ rows[i].auth # NoRow
<1>1. rows[i].id \in SpelledIds /\ rows[i].auth \in Authorization
  BY RowsTyped DEF IInv
<1>2. Canonical(rows[i].id) \in Ids
  BY <1>1, CanonicalType
<1>3. \A j \in DOMAIN rows : Canonical(rows[j].id) = Canonical(rows[i].id) => j = i
  BY DEF IInv, UniqueIds
<1> QED
  BY <1>1, <1>2, <1>3, TableFilled, RowAssumption DEF Table

\* A set of places and the set of their identities.
Same(places, ids) ==
    /\ places \subseteq DOMAIN rows
    /\ \A i \in DOMAIN rows : i \in places <=> Canonical(rows[i].id) \in ids
    /\ \A id \in ids : \E i \in DOMAIN rows : Canonical(rows[i].id) = id

\* The head of the sorted candidates is a most recent row of the port's.
LEMMA NewestIsRecent ==
    ASSUME IInv, NEW places, NEW ids, Same(places, ids), places # {}
    PROVE  /\ Newest(places) \in DOMAIN rows
           /\ Canonical(rows[Newest(places)].id) \in MostRecent(Table, ids)
<1> DEFINE n == Newest(places)
<1>1. n \in places /\ \A j \in places : rows[j].auth.created <= rows[n].auth.created
  BY NewestIsHead DEF IInv, Same
<1> HIDE DEF n
<1>2. n \in DOMAIN rows /\ Canonical(rows[n].id) \in ids /\ Table[Canonical(rows[n].id)] = rows[n].auth
  BY <1>1, RowOfPlace DEF Same
<1>3. ASSUME NEW other \in ids PROVE Table[other].created <= Table[Canonical(rows[n].id)].created
  <2>1. PICK j \in DOMAIN rows : Canonical(rows[j].id) = other
    BY DEF Same
  <2>2. j \in places /\ Table[other] = rows[j].auth
    BY <2>1, RowOfPlace DEF Same
  <2> QED
    BY <1>1, <1>2, <2>2
<1> QED
  BY <1>2, <1>3 DEF MostRecent, n

LEMMA PickMeetsPort ==
    ASSUME IInv, NEW places, NEW ids, Same(places, ids), NEW requireSig \in BOOLEAN
    PROVE  Answers(pick(places, requireSig), pickActive(Table, ids, requireSig))
<1> DEFINE signed == {i \in places : rows[i].auth.sig # NoSig}
<1>1. Same(signed, WithSignature(Table, ids))
  BY RowOfPlace DEF Same, WithSignature
<1>2. places = {} <=> ids = {}
  BY DEF Same
<1>3. signed = {} <=> WithSignature(Table, ids) = {}
  BY <1>1 DEF Same
<1>4. \A n \in DOMAIN rows : n \notin Errors
  BY RowsTyped, StoreAssumption DEF IInv
<1>5. ErrNoAuthorization \in Errors /\ ErrAuthorizationMissingSignature \in Errors
  BY DEF Errors
<1>6. CASE places = {}
  BY <1>2, <1>5, <1>6 DEF pick, pickActive, Answers
<1>7. CASE places # {} /\ ~requireSig
  <2>1. pick(places, requireSig) = Newest(places) /\ pickActive(Table, ids, requireSig) = MostRecent(Table, ids)
    BY <1>2, <1>7 DEF pick, pickActive
  <2> QED
    BY <1>4, <1>7, <2>1, NewestIsRecent DEF Answers
<1>8. CASE places # {} /\ requireSig /\ signed = {}
  <2>1. /\ pick(places, requireSig) = ErrAuthorizationMissingSignature
        /\ pickActive(Table, ids, requireSig) = {ErrAuthorizationMissingSignature}
    BY <1>2, <1>3, <1>8 DEF pick, pickActive
  <2> QED
    BY <1>5, <2>1 DEF Answers
<1>9. CASE places # {} /\ requireSig /\ signed # {}
  <2>1. /\ pick(places, requireSig) = Newest(signed)
        /\ pickActive(Table, ids, requireSig) = MostRecent(Table, WithSignature(Table, ids))
    BY <1>2, <1>3, <1>9 DEF pick, pickActive
  <2> HIDE DEF signed
  <2> QED
    BY <1>1, <1>4, <1>9, <2>1, NewestIsRecent DEF Answers
<1> QED
  BY <1>6, <1>7, <1>8, <1>9

\* The loop's predicate on places and the port's on identities choose the same.
LEMMA SameActive ==
    ASSUME IInv, NEW now, NEW i \in DOMAIN rows
    PROVE  Active(Table, Canonical(rows[i].id), now) <=> Unlocked(i) /\ rows[i].auth.expiration > now
  BY RowOfPlace DEF Active, Unlocked

LEMMA HasPlace ==
    ASSUME NEW id \in Ids, Table[id] # NoRow
    PROVE  \E i \in DOMAIN rows : Canonical(rows[i].id) = id
  BY TableEmpty DEF Table

LEMMA AgentAnswer ==
    ASSUME IInv, NEW now, NEW agent \in Spelled(Agents)
    PROVE  Answers(QueryAgent(agent, now), ActiveForAgent(Table, agent.addr, now))
<1> DEFINE places == {i \in DOMAIN rows : /\ Unlocked(i)
                                          /\ EqualFold(rows[i].id.agent, agent)
                                          /\ rows[i].auth.expiration > now}
           ids == {id \in Ids : Active(Table, id, now) /\ id.agent = agent.addr}
<1>1. \A i \in DOMAIN rows : Canonical(rows[i].id).agent = rows[i].id.agent.addr
  BY DEF Canonical
<1>2. \A i \in DOMAIN rows : i \in places <=> Canonical(rows[i].id) \in ids
  BY <1>1, SameActive, RowOfPlace DEF EqualFold
<1>3. \A id \in ids : \E i \in DOMAIN rows : Canonical(rows[i].id) = id
  BY HasPlace DEF Active
<1>4. Same(places, ids)
  BY <1>2, <1>3 DEF Same
<1> HIDE DEF places, ids
<1>5. Answers(pick(places, TRUE), pickActive(Table, ids, TRUE))
  BY <1>4, PickMeetsPort
<1> QED
  BY <1>5 DEF QueryAgent, ActiveForAgent, places, ids

LEMMA OwnerAnswer ==
    ASSUME IInv, NEW now, NEW owner \in Spelled(Owners), NEW token \in Spelled(Tokens)
    PROVE  Answers(QueryOwner(owner, token, now), ActiveForOwner(Table, owner.addr, token.addr, now))
<1> DEFINE places == {i \in DOMAIN rows : /\ Unlocked(i)
                                          /\ EqualFold(rows[i].id.owner, owner)
                                          /\ EqualFold(rows[i].id.token, token)
                                          /\ rows[i].auth.expiration > now}
           ids == {id \in Ids : Active(Table, id, now) /\ id.owner = owner.addr /\ id.token = token.addr}
<1>1. \A i \in DOMAIN rows : /\ Canonical(rows[i].id).owner = rows[i].id.owner.addr
                              /\ Canonical(rows[i].id).token = rows[i].id.token.addr
  BY DEF Canonical
<1>2. \A i \in DOMAIN rows : i \in places <=> Canonical(rows[i].id) \in ids
  BY <1>1, SameActive, RowOfPlace DEF EqualFold
<1>3. \A id \in ids : \E i \in DOMAIN rows : Canonical(rows[i].id) = id
  BY HasPlace DEF Active
<1>4. Same(places, ids)
  BY <1>2, <1>3 DEF Same
<1> HIDE DEF places, ids
<1>5. Answers(pick(places, FALSE), pickActive(Table, ids, FALSE))
  BY <1>4, PickMeetsPort
<1> QED
  BY <1>5 DEF QueryOwner, ActiveForOwner, places, ids

\* The two queries answer as the port allows after every history: the stable sort
\* and the early returns of pickActive pick an active row, signed where it must be,
\* of the most recent ones, or name the right error (store.go, ActiveForAgent,
\* ActiveForOwner, pickActive).
THEOREM QueriesMeetPort == Spec => []AnswersMeetPort
<1>1. IInv => AnswersMeetPort
  BY AgentAnswer, OwnerAnswer DEF AnswersMeetPort
<1> QED
  BY <1>1, Invariance, PTL
=============================================================================
