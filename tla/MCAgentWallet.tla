---------------------------- MODULE MCAgentWallet ----------------------------
(* Small wallets: one token, one owner, one agent.  Times start above every  *)
(* block number, as unix times do, and permits expire one second after the  *)
(* start.                                                                   *)
EXTENDS AgentWallet, TLC

CONSTANTS o1, g1, t1, c1, c2, elsewhere

MCOwners == {o1}
MCAgents == {g1}
MCTokens == {t1}
MCNonces == {0, 1}
MCSpends == {c1, c2}
OneSpend == {c1}
SpendSymmetry == Permutations({c1, c2})

Permit(signer, agent, domain, nonce, amount, expiration) ==
    [signer |-> signer, agent |-> agent, domain |-> domain, token |-> t1,
     nonce |-> nonce, amount |-> amount, expiration |-> expiration]

\* Consumers submit the parameters of any signed permit, with any signature.
MCParams ==
    {[domain |-> s.domain, agent |-> s.agent, token |-> s.token, nonce |-> s.nonce,
      amount |-> s.amount, expiration |-> s.expiration] : s \in Signatures}

\* One permit.
OneSignature == {Permit(o1, g1, Here, 0, 1, 11)}

\* A permit that outlasts one spend.
TransferSignature == {Permit(o1, g1, Here, 0, 2, 11)}

\* Two permits for one nonce, the second for another chain's Permit2.
WalletSignatures == {Permit(o1, g1, Here, 0, 2, 11), Permit(o1, g1, elsewhere, 0, 1, 11)}

\* A permit of 2 for each of two nonces.
TwoSignatures == {Permit(o1, g1, Here, 0, 2, 11), Permit(o1, g1, Here, 1, 2, 11)}
=============================================================================
