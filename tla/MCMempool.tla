----------------------------- MODULE MCMempool -----------------------------
(* Mempool with crowds next to each size at which the fee rates change.       *)
EXTENDS Mempool, TLC

CONSTANTS h1, h2

Symmetry == Permutations(Hashes)

FewFees == {1, 4, 9}
Crowd(a, b, c) == 1 :> a @@ 4 :> b @@ 9 :> c
AllCrowds == {Crowd(0, 0, 0), Crowd(0, 40, 59), Crowd(0, 600, 799), Crowd(0, 1200, 799),
              Crowd(0, 600, 1600), Crowd(30, 30, 60)}
=============================================================================
