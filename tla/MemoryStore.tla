----------------------------- MODULE MemoryStore -----------------------------
(***************************************************************************)
(* MemoryStore of store.go: a slice of rows under one mutex.               *)
(*                                                                         *)
(* Every method holds the mutex from its first line to its return, so each *)
(* is one action.  The slice keeps addresses as the caller spelled them    *)
(* and compares them with strings.EqualFold: an address is modelled as the *)
(* address proper and its letter case.                                     *)
(***************************************************************************)
EXTENDS Authorizations, Sequences

CONSTANTS
    Cases,     \* ways to write one address (lower case, EIP-55 checksum)
    Offers,    \* the rows callers upsert, addresses spelled
    Bumps,     \* the amounts callers add
    Times,     \* the clock readings the queries are asked about
    MaxSpent   \* bound on a row's accumulated spend

VARIABLE rows

Spelled(S) == [addr: S, case: Cases]

SpelledIds ==
    [owner: Spelled(Owners), agent: Spelled(Agents), token: Spelled(Tokens),
     nonce: Nonces]

Stored == [id: SpelledIds, auth: Authorization]

ASSUME StoreAssumption ==
    /\ Offers \subseteq Stored
    /\ Bumps \subseteq Nat
    /\ MaxSpent \in Nat
    /\ Errors \cap Nat = {}    \* an error is no place in the slice

EqualFold(x, y) == x.addr = y.addr

\* A plausible slip: identity compared as strings.
idMatchExactly(x, y) == x = y

idMatch(x, y) ==
    /\ EqualFold(x.owner, y.owner)
    /\ EqualFold(x.agent, y.agent)
    /\ EqualFold(x.token, y.token)
    /\ x.nonce = y.nonce

-----------------------------------------------------------------------------
TypeOK == rows \in Seq(Stored)

Init == rows = << >>

Matches(id) == {i \in DOMAIN rows : idMatch(rows[i].id, id)}

\* Where the loops over m.rows stop.
FirstMatch(id) == CHOOSE i \in Matches(id) : \A j \in Matches(id) : i <= j

\* Upsert overwrites the whole row, the spelling of its addresses included.
DoUpsert(offer) ==
    rows' = IF Matches(offer.id) = {}
            THEN Append(rows, offer)
            ELSE LET i == FirstMatch(offer.id)
                 IN  [rows EXCEPT ![i] =
                        [id |-> offer.id, auth |-> Refreshed(@.auth, offer.auth)]]

\* A plausible slip: the sign of the addition.
DoBumpSpentSubtracts(id, add) ==
    /\ Matches(id) # {}
    /\ rows' = [rows EXCEPT ![FirstMatch(id)].auth.spent = @ - add]

DoBumpSpent(id, add) ==
    /\ Matches(id) # {}
    /\ LET i == FirstMatch(id)
       IN  /\ rows[i].auth.spent + add <= MaxSpent
           /\ rows' = [rows EXCEPT ![i].auth.spent = @ + add]

\* A plausible slip: only the first row of the triple is locked.
DoMarkLockedFirst(owner, agent, token) ==
    LET hit == {i \in DOMAIN rows :
                    /\ EqualFold(rows[i].id.owner, owner)
                    /\ EqualFold(rows[i].id.agent, agent)
                    /\ EqualFold(rows[i].id.token, token)}
    IN  /\ hit # {}
        /\ rows' = [rows EXCEPT ![CHOOSE i \in hit : \A j \in hit : i <= j].auth.locked = TRUE]

DoMarkLocked(owner, agent, token) ==
    rows' = [i \in DOMAIN rows |->
                IF /\ EqualFold(rows[i].id.owner, owner)
                   /\ EqualFold(rows[i].id.agent, agent)
                   /\ EqualFold(rows[i].id.token, token)
                THEN [rows[i] EXCEPT !.auth.locked = TRUE]
                ELSE rows[i]]

Next ==
    \/ \E offer \in Offers : DoUpsert(offer)
    \/ \E id \in SpelledIds, add \in Bumps : DoBumpSpent(id, add)
    \/ \E owner \in Spelled(Owners), agent \in Spelled(Agents), token \in Spelled(Tokens) :
           DoMarkLocked(owner, agent, token)

Spec == Init /\ [][Next]_rows
-----------------------------------------------------------------------------
(* Queries: the row they copy out, by its place in the slice, or an error. *)

\* pickActive's candidates, before the predicate of the query.
Unlocked(i) == ~rows[i].auth.revoked /\ ~rows[i].auth.locked

\* A plausible slip: the comparison of the sort turned round.
Oldest(S) ==
    CHOOSE i \in S : \A j \in S :
        \/ rows[i].auth.created < rows[j].auth.created
        \/ rows[i].auth.created = rows[j].auth.created /\ i <= j

\* The head of the candidates after sort.SliceStable by CreatedAtUnix,
\* descending: among equals the one inserted first.
Newest(S) ==
    CHOOSE i \in S : \A j \in S :
        \/ rows[i].auth.created > rows[j].auth.created
        \/ rows[i].auth.created = rows[j].auth.created /\ i <= j

pick(cands, requireSig) ==
    LET signed == {i \in cands : rows[i].auth.sig # NoSig}
    IN  IF cands = {} THEN ErrNoAuthorization
        ELSE IF ~requireSig THEN Newest(cands)
        ELSE IF signed = {} THEN ErrAuthorizationMissingSignature
        ELSE Newest(signed)

QueryAgent(agent, now) ==
    pick({i \in DOMAIN rows : /\ Unlocked(i)
                              /\ EqualFold(rows[i].id.agent, agent)
                              /\ rows[i].auth.expiration > now}, TRUE)

QueryOwner(owner, token, now) ==
    pick({i \in DOMAIN rows : /\ Unlocked(i)
                              /\ EqualFold(rows[i].id.owner, owner)
                              /\ EqualFold(rows[i].id.token, token)
                              /\ rows[i].auth.expiration > now}, FALSE)

-----------------------------------------------------------------------------
(* What the store promises.                                                *)

Canonical(id) ==
    [owner |-> id.owner.addr, agent |-> id.agent.addr, token |-> id.token.addr,
     nonce |-> id.nonce]

\* The table a slice stands for.
TableOf(slice) ==
    [id \in Ids |->
        LET at == {i \in DOMAIN slice : Canonical(slice[i].id) = id}
        IN  IF at = {} THEN NoRow ELSE slice[CHOOSE i \in at : TRUE].auth]

Table == TableOf(rows)

Port ==
    INSTANCE AuthorizationStore WITH
        table <- Table,
        Offers <- {[id |-> Canonical(o.id), auth |-> o.auth] : o \in Offers}

\* Refinement: the slice implements the AuthorizationStore port - every
\* method changes the table it stands for as the port says and nothing else
\* (store.go, Upsert, BumpSpent, MarkLocked against the interface's comments).
MeetsPort == Port!Spec

\* The slice never holds two rows for one (owner, agent, token, nonce), under
\* whatever spellings the callers use: Upsert finds the row a previous Upsert
\* stored, so the loops that stop at the first match meet the only one.
UniqueIds ==
    \A i, j \in DOMAIN rows : Canonical(rows[i].id) = Canonical(rows[j].id) => i = j

\* An index or error the code may return for a query with this set of answers.
Answers(answer, answers) ==
    IF answer \in Errors THEN answer \in answers
    ELSE Canonical(rows[answer].id) \in answers

\* ActiveForAgent and ActiveForOwner copy out a row the port allows - active,
\* signed where a signature is required, and most recent among those - or the
\* error the port names, whatever the history of refreshes, locks and ties.
AnswersMeetPort ==
    \A now \in Times :
        /\ \A agent \in Spelled(Agents) :
               Answers(QueryAgent(agent, now), ActiveForAgent(Table, agent.addr, now))
        /\ \A owner \in Spelled(Owners), token \in Spelled(Tokens) :
               Answers(QueryOwner(owner, token, now),
                       ActiveForOwner(Table, owner.addr, token.addr, now))

\* No step loses a row or lowers its accumulated spend: a re-submitted or
\* event-sourced Upsert keeps SpentAtoms.
SpentNeverShrinks ==
    [][\A i \in DOMAIN rows :
          /\ i \in DOMAIN rows'
          /\ Canonical(rows'[i].id) = Canonical(rows[i].id)
          /\ rows[i].auth.spent <= rows'[i].auth.spent]_rows
=============================================================================
