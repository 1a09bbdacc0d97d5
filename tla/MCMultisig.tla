----------------------------- MODULE MCMultisig -----------------------------
(* Multisig with a wallet for two and three users who may come and go. *)
EXTENDS Multisig

CONSTANTS a, b, c

req(i, o, u, v) == [id |-> i, op |-> o, by |-> u, target |-> v]

Everything ==
    {req(1, "create", a, a), req(2, "join", b, b), req(3, "join", c, c),
     req(4, "leave", b, b), req(5, "kick", a, b), req(6, "delete", a, a)}

DoubleTap == {req(1, "create", a, a), req(2, "join", b, b), req(3, "join", b, b)}
=============================================================================
