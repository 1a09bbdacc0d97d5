---------------------------- MODULE MCMultisigTx ----------------------------
(* MultisigTx for a wallet of three owners, one, two or all of whom have to confirm. *)
EXTENDS MultisigTx

CONSTANTS ann, bob, cem
=============================================================================
