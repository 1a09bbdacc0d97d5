---------------------------- MODULE MCBtcHistory ----------------------------
(* BtcHistory for a payment with change to the same wallet, and for one that  *)
(* only comes in.                                                             *)
EXTENDS BtcHistory

CONSTANTS a1, a2, w

InsOfPayment == <<a1>>
OutsOfPayment == <<a2>>
InsOfIncome == <<>>
OutsOfIncome == <<a1>>
OneWallet == [a \in {a1, a2} |-> w]
=============================================================================
