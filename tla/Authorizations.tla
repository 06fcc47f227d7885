---------------------------- MODULE Authorizations ----------------------------
(***************************************************************************)
(* The Authorization row and the AuthorizationStore port of store.go, as   *)
(* operators on a table of rows keyed by the row identity (owner, agent,   *)
(* token, nonce).                                                          *)
(*                                                                         *)
(* Amounts are naturals (the code keeps decimal strings and parses them    *)
(* with big.Int), times are unix seconds, a signature is whatever the      *)
(* instance takes for one, and NoSig is the blank SignatureHex.  The port  *)
(* leaves open which of two equally recent rows a query returns, so the    *)
(* two queries are the SETS of answers an implementation may give.         *)
(***************************************************************************)
EXTENDS Integers

CONSTANTS
    Owners, Agents, Tokens,  \* addresses, up to letter case
    Nonces,                  \* Permit2 nonces
    Signatures,              \* non-blank signatures
    NoSig,                   \* the blank signature of an event-sourced row
    NoRow,                   \* "no row with this identity"
    ErrNoAuthorization,
    ErrAuthorizationMissingSignature

Ids == [owner: Owners, agent: Agents, token: Tokens, nonce: Nonces]

\* The fields of an Authorization that are not part of its identity.
Authorization ==
    [amount: Nat, expiration: Nat, sig: Signatures \cup {NoSig}, spent: Nat,
     revoked: BOOLEAN, locked: BOOLEAN, created: Nat]

Tables == [Ids -> Authorization \cup {NoRow}]

Errors == {ErrNoAuthorization, ErrAuthorizationMissingSignature}

ASSUME RowAssumption ==
    /\ NoSig \notin Signatures
    /\ NoRow \notin Authorization
    /\ Errors \cap Ids = {}

-----------------------------------------------------------------------------
(* Writes.                                                                 *)

\* A plausible slip: the accumulated spend is lost.
RefreshedForgetsSpent(old, a) ==
    [a EXCEPT !.created = IF @ = 0 THEN old.created ELSE @]

\* What a refresh leaves of the incoming row: the accumulated spend survives,
\* and so does the creation time when the incoming row brings none.
Refreshed(old, a) ==
    [a EXCEPT !.spent = old.spent,
              !.created = IF @ = 0 THEN old.created ELSE @]

\* A plausible slip: a blank signature does not overwrite a cached one.
UpsertKeepsSignature(rows, id, a) ==
    [rows EXCEPT ![id] =
        IF @ = NoRow THEN a
        ELSE [Refreshed(@, a) EXCEPT
                !.sig = IF a.sig = NoSig THEN rows[id].sig ELSE a.sig]]

Upsert(rows, id, a) ==
    [rows EXCEPT ![id] = IF @ = NoRow THEN a ELSE Refreshed(@, a)]

\* BumpSpent on an identity without a row is ErrNoAuthorization.
BumpSpent(rows, id, add) ==
    IF rows[id] = NoRow THEN rows ELSE [rows EXCEPT ![id].spent = @ + add]

Locks(id, owner, agent, token) ==
    id.owner = owner /\ id.agent = agent /\ id.token = token

MarkLocked(rows, owner, agent, token) ==
    [id \in Ids |->
        IF rows[id] # NoRow /\ Locks(id, owner, agent, token)
        THEN [rows[id] EXCEPT !.locked = TRUE]
        ELSE rows[id]]

-----------------------------------------------------------------------------
(* Queries.                                                                *)

Active(rows, id, now) ==
    /\ rows[id] # NoRow
    /\ ~rows[id].revoked
    /\ ~rows[id].locked
    /\ rows[id].expiration > now

WithSignature(rows, S) == {id \in S : rows[id].sig # NoSig}

MostRecent(rows, S) ==
    {id \in S : \A other \in S : rows[other].created <= rows[id].created}

pickActive(rows, cands, requireSig) ==
    IF cands = {} THEN {ErrNoAuthorization}
    ELSE IF ~requireSig THEN MostRecent(rows, cands)
    ELSE IF WithSignature(rows, cands) = {} THEN {ErrAuthorizationMissingSignature}
    ELSE MostRecent(rows, WithSignature(rows, cands))

ActiveForAgent(rows, agent, now) ==
    pickActive(rows, {id \in Ids : Active(rows, id, now) /\ id.agent = agent}, TRUE)

ActiveForOwner(rows, owner, token, now) ==
    pickActive(rows,
        {id \in Ids : Active(rows, id, now) /\ id.owner = owner /\ id.token = token},
        FALSE)
=============================================================================
