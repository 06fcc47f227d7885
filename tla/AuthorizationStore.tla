-------------------------- MODULE AuthorizationStore --------------------------
(***************************************************************************)
(* The AuthorizationStore port as a specification: what a store behind the *)
(* interface promises its callers (Authorizer, Spender, EventLoop).        *)
(***************************************************************************)
EXTENDS Authorizations

CONSTANTS
    Offers,    \* the rows callers upsert: records [id, auth]
    Bumps,     \* the amounts callers add
    MaxSpent   \* bound on a row's accumulated spend

VARIABLE table

Init == table = [id \in Ids |-> NoRow]

DoUpsert(offer) == table' = Upsert(table, offer.id, offer.auth)

DoBumpSpent(id, add) ==
    /\ table[id] # NoRow
    /\ table[id].spent + add <= MaxSpent
    /\ table' = BumpSpent(table, id, add)

DoMarkLocked(owner, agent, token) ==
    table' = MarkLocked(table, owner, agent, token)

Next ==
    \/ \E offer \in Offers : DoUpsert(offer)
    \/ \E id \in Ids, add \in Bumps : DoBumpSpent(id, add)
    \/ \E owner \in Owners, agent \in Agents, token \in Tokens :
           DoMarkLocked(owner, agent, token)

Spec == Init /\ [][Next]_table
=============================================================================
