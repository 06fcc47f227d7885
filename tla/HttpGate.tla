------------------------------- MODULE HttpGate -------------------------------
(***************************************************************************)
(* What every handler of cmd/wallet-svc begins with: the method, then the   *)
(* bearer token.  An Authorization header is its scheme and what follows,   *)
(* a possibly padded token; strings from outside are [pad, val] throughout. *)
(***************************************************************************)
Headers(tokens) == [scheme: {"bearer", "other"}, pad: BOOLEAN, val: tokens]

\* Trimmed, or the default when nothing is left.
envOr(v, default) == IF v.val = "" THEN default ELSE v.val

\* A plausible slip: nothing special about a service without a token.
authedOpen(authToken, h) ==
    /\ h.scheme = "bearer" /\ ~(h.val = "" /\ ~h.pad)
    /\ h.val = authToken

\* authed: fail-closed; the header is longer than "Bearer ", spelled in any
\* case; what follows is trimmed and compared.
authed(authToken, h) ==
    /\ authToken # ""
    /\ h.scheme = "bearer" /\ ~(h.val = "" /\ ~h.pad)
    /\ h.val = authToken

Refuse(code) == [code |-> code, kind |-> "refused"]

\* The replies of a handler, of which "replies" are those behind the gate.
Gated(authToken, method, h, replies) ==
    IF method # "POST" THEN {Refuse(405)}
    ELSE IF ~authed(authToken, h) THEN {Refuse(401)}
    ELSE replies
=============================================================================
