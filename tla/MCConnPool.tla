----------------------------- MODULE MCConnPool -----------------------------
(* ConnPool on small instances: two devices of one user and one of another. *)
EXTENDS ConnPool

CONSTANTS c1, c2, c3, u1, u2

TwoDevicesAndOne == [c \in Conns |-> IF c = c3 THEN u2 ELSE u1]
AllOneUser       == [c \in Conns |-> u1]
=============================================================================
