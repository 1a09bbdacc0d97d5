SPECIFICATION Spec
CONSTANTS
    h1 = h1
    h2 = h2
    Hashes = {h1, h2}
    Fees <- FewFees
    Crowds <- AllCrowds
    MaxEvents = 3
SYMMETRY Symmetry
INVARIANTS
    TypeOK
    RestMirrorsNode
    SpeedsOrdered
\* The streams may all be read and the node's mempool change no more.
CHECK_DEADLOCK FALSE
