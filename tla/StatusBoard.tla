---------------------------- MODULE StatusBoard ----------------------------
(***************************************************************************)
(* What the history of a transaction promises its readers: every document  *)
(* shows a status the node has told for it, and is never lost.             *)
(***************************************************************************)
CONSTANTS Keys,   \* the documents
          Stages  \* what the node may tell of a transaction

VARIABLES told,   \* what the node has told of each
          shown   \* what each shows

Nothing == "none"

Init == told = {} /\ shown = [k \in Keys |-> Nothing]

Tell ==
    /\ told \subseteq told' /\ told' \subseteq Keys \X Stages
    /\ UNCHANGED shown

Show ==
    \E K \in SUBSET Keys, s \in Stages :
        /\ \A k \in K : <<k, s>> \in told
        /\ shown' = [k \in Keys |-> IF k \in K THEN s ELSE shown[k]]
        /\ UNCHANGED told

Next == Tell \/ Show

Spec == Init /\ [][Next]_<<told, shown>>
=============================================================================
