----------------------------- MODULE MCWallets -----------------------------
(* Wallets on accounts with wallets of three chains whose indices overlap.    *)
EXTENDS Wallets, TLC

CONSTANTS d1, d2, r1, r2

Symmetry == Permutations(Devices) \cup Permutations(Reqs)

key(c, n, i, a) == [currency |-> c, network |-> n, index |-> i, address |-> a]
b0 == key("BTC", 1, 0, "hd")
b1 == key("BTC", 1, 1, "hd")
e1 == key("ETH", 1, 1, "hd")
x  == key("ETH", 4, -1, "x")
y  == key("ETH", 4, -1, "y")

AllKeys == {b0, b1, e1, x, y}
Accounts == {<<>>, <<e1, b0>>}
=============================================================================
