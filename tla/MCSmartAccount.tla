---------------------------- MODULE MCSmartAccount ----------------------------
(* A group of order 7 and words of two base-4 digits: s from 0 past N to the   *)
(* largest word; client data in every order of its fields, tight or not, with  *)
(* a wrong type, an undecodable challenge or one of the fields missing or      *)
(* repeated; a user who was present or not.                                    *)
EXTENDS SmartAccount

MCCallers == {[scheme |-> "bearer", pad |-> FALSE, val |-> "tok"], [scheme |-> "other", pad |-> FALSE, val |-> "tok"]}

Types == {[val |-> v, name |-> "type", tight |-> t] : v \in {"webauthn.get", "webauthn.create"}, t \in BOOLEAN}
Chals == {[val |-> "hash", name |-> "challenge", tight |-> t, base64url |-> b] : t, b \in BOOLEAN}
Origin == [val |-> "o", name |-> "origin", tight |-> TRUE]

ClientData ==
    UNION {{<<t, c, Origin>>, <<c, t, Origin>>, <<Origin, c, t>>, <<t, Origin>>, <<c>>} : t \in Types, c \in Chals}

Other == [val |-> "other", name |-> "challenge", tight |-> TRUE, base64url |-> TRUE]
Repeated ==
    UNION {{<<t, Other, c>>, <<c, t, Other>>} : t \in Types, c \in Chals} \cup {<<t, u, Other>> : t, u \in Types}

AuthData(up) == [rp |-> "rp", up |-> up]

Assertion(cd, made, der) ==
    [made |-> [over |-> <<AuthData(TRUE), made>>, r |-> 1, s |-> 3],
     authenticatorData |-> AuthData(TRUE), clientDataJSON |-> cd, json |-> TRUE, hex |-> TRUE, signature |-> der]

Signature(ok, r, s) == [r |-> r, s |-> s, ok |-> ok]
Usual == <<CHOOSE t \in Types : t.tight /\ t.val = "webauthn.get", CHOOSE c \in Chals : c.tight /\ c.base64url, Origin>>

MCAssertions ==
    {Assertion(Usual, Usual, Signature(TRUE, r, s)) : r \in {0, 1, 8}, s \in 0..15}
    \cup {Assertion(cd, cd, Signature(TRUE, 1, s)) : cd \in ClientData \cup Repeated, s \in {3, 4, 5}}
    \cup {[Assertion(Usual, Usual, Signature(TRUE, 1, s)) EXCEPT
             !.authenticatorData = AuthData(FALSE), !.made.over = <<AuthData(up), Usual>>] :
                s \in {3, 4, 5}, up \in BOOLEAN}
    \cup {Assertion(Usual, <<Origin>>, Signature(TRUE, 1, 4)), Assertion(Usual, Usual, Signature(FALSE, 1, 4)),
          [Assertion(Usual, Usual, Signature(TRUE, 1, 4)) EXCEPT !.json = FALSE],
          [Assertion(Usual, Usual, Signature(TRUE, 1, 4)) EXCEPT !.hex = FALSE]}

Key(x, y) == [address |-> None, x |-> x, y |-> y]
EOA(a) == [address |-> a, x |-> EmptyText, y |-> EmptyText]
Coordinates == {Plain(0), Plain(3), Plain(5), Plain(15)}
MCOwnerLists ==
    {<<>>} \cup {<<Key(x, y)>> : x, y \in Coordinates \cup {Plain(16), Plain(Junk), EmptyText}}
    \cup {<<Key([Plain(d) EXCEPT !.sign = "-"], [Plain(e) EXCEPT !.sign = "+", !.pad = TRUE])>> : d, e \in {0, 6, 15, 16}}
    \cup {<<EOA(a), Key(Plain(5), y)>> : a \in 0..3, y \in Coordinates}
    \cup {<<Key(Plain(16), Plain(1)), EOA(Malformed)>>, <<EOA(Malformed), Key(Plain(16), Plain(1))>>}
=============================================================================
