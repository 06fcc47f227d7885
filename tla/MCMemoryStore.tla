---------------------------- MODULE MCMemoryStore ----------------------------
(* A small MemoryStore: two agents sharing one owner and one token, two     *)
(* nonces, two spellings of each address.                                   *)
EXTENDS MemoryStore

CONSTANTS o1, g1, g2, t1, lower, checksum, s1

MCOwners == {o1}
MCAgents == {g1, g2}
MCTokens == {t1}
MCNonces == {0, 1}
MCSignatures == {s1}
MCCases == {lower, checksum}
MCBumps == {1}
MCTimes == {4, 6}

Offer(agent, nonce, case, sig, created, expiration) ==
    [id |-> [owner |-> [addr |-> o1, case |-> case],
             agent |-> [addr |-> agent, case |-> case],
             token |-> [addr |-> t1, case |-> lower], nonce |-> nonce],
     auth |-> [amount |-> 2, expiration |-> expiration, sig |-> sig, spent |-> 0,
               revoked |-> FALSE, locked |-> FALSE, created |-> created]]

\* Submitted rows (signed, created at a unix time), event-sourced rows (blank
\* signature, created at a block number), a refresh without a creation time,
\* and a row revoked by the application.
MCOffers ==
    {Offer(g1, 0, lower, s1, 3, 7), Offer(g1, 0, checksum, NoSig, 1, 7),
     Offer(g1, 1, checksum, s1, 3, 5), Offer(g1, 1, lower, s1, 0, 7),
     Offer(g2, 0, lower, s1, 4, 7), Offer(g2, 0, checksum, NoSig, 2, 7),
     [Offer(g1, 0, lower, s1, 4, 7) EXCEPT !.auth.revoked = TRUE]}
=============================================================================
