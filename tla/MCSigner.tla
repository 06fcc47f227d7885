------------------------------- MODULE MCSigner -------------------------------
(* Two concurrent calls; each request once as it should be and once with     *)
(* something that makes it fail after the key was derived, or before.        *)
EXTENDS Signer

MCSeed == [val |-> "s", len |-> 2]
MCCoins == {0, 2}
MCAccounts == {0, 1, 4}

Permit(amount) == [amount |-> Plain(amount), nonce |-> 1, deadline |-> 3, addrs |-> TRUE]
Permit2612(addrs) == [value |-> Plain(3), nonce |-> 1, deadline |-> 3, chainID |-> 1, addrs |-> addrs]
Transfer(before) ==
    [from |-> "a", to |-> "b", token |-> "t", value |-> Plain(3), validAfter |-> 0,
     validBefore |-> before, nonce |-> 1, bytes32 |-> TRUE, chainID |-> 1, addrs |-> TRUE]

MCRequests ==
    {[op |-> "Address", arg |-> 0]}
    \cup {[op |-> "SignPermit2", arg |-> Permit(a)] : a \in {3, 4}}
    \cup {[op |-> "SignEIP2612", arg |-> Permit2612(a), named |-> TRUE] : a \in BOOLEAN}
    \cup {[op |-> "SignEIP3009", arg |-> Transfer(b), named |-> n] : b \in {-1, 3}, n \in BOOLEAN}
    \cup {[op |-> "SignTx", arg |-> [given |-> g, chainID |-> c]] : g \in BOOLEAN, c \in {0, 1}}
=============================================================================
