------------------------------ MODULE Authorizer ------------------------------
(***************************************************************************)
(* Authorizer.VerifyAndCache (authorize.go): a consumer hands over permit  *)
(* parameters, a signature and the owner it claims; on success the row is  *)
(* upserted.  A rejected submission changes nothing.                       *)
(***************************************************************************)
EXTENDS Environment

CONSTANTS
    Params,    \* permit parameters consumers submit: [domain, agent, token, nonce, amount, expiration]
    Stranger   \* the address recovered from a signature over something else

ASSUME AuthorizerAssumption ==
    /\ \A p \in Params :
          /\ p.agent \in Agents /\ p.token \in Tokens /\ p.nonce \in Nonces
          /\ p.amount \in Nat /\ p.expiration \in Nat
    /\ Stranger \notin Owners

VARIABLES
    rows,      \* the AuthorizationStore
    authHead   \* history: the chain head when a row was last submitted

authVars == <<rows, authHead>>

AuthInit ==
    /\ rows = [id \in Ids |-> NoRow]
    /\ authHead = [id \in Ids |-> 0]

\* The typed data of a permit: the EIP-712 domain (chain and contract), the
\* spender, the token, the nonce, the amount, and the deadline, which is both
\* the expiration and the sigDeadline.
BuildPermit2TypedData(p) ==
    [domain |-> p.domain, agent |-> p.agent, token |-> p.token, nonce |-> p.nonce,
     amount |-> p.amount, expiration |-> p.expiration]

\* RecoverTypedDataSigner over the typed data rebuilt from the parameters:
\* the signer if that is what was signed, some other address if not.
RecoverTypedDataSigner(td, s) ==
    IF td = BuildPermit2TypedData(s) THEN s.signer ELSE Stranger

\* The bounds, the anti-spoof check, the signature, then the Upsert.  The
\* domain is never compared with the chain the Spender will use.
VerifyAndCache(p, s, claimedOwner, expectedAgent) ==
    /\ p.amount # 0
    /\ p.expiration > clock
    /\ expectedAgent = p.agent
    /\ RecoverTypedDataSigner(BuildPermit2TypedData(p), s) = claimedOwner
    /\ LET id == [owner |-> claimedOwner, agent |-> p.agent, token |-> p.token,
                  nonce |-> p.nonce]
       IN  /\ rows' = Upsert(rows, id,
                [amount |-> p.amount, expiration |-> p.expiration, sig |-> s, spent |-> 0,
                 revoked |-> FALSE, locked |-> FALSE, created |-> clock])
           /\ authHead' = [authHead EXCEPT ![id] = head]
    /\ UNCHANGED envVars

AuthNext ==
    \E p \in Params, s \in Signatures, owner \in Owners, agent \in Agents :
        VerifyAndCache(p, s, owner, agent)

-----------------------------------------------------------------------------
\* A row with a signature holds exactly what its owner signed - agent, token,
\* nonce, amount and expiration - after any mix of submissions and observed
\* Permit events for the same identity, so that permit() built from the row
\* cannot fail for a signature over something else.
CachedPermitIsSigned ==
    \A id \in Ids :
        (rows[id] # NoRow /\ rows[id].sig # NoSig)
            => Permits(id, rows[id].amount, rows[id].expiration, rows[id].sig)
=============================================================================
