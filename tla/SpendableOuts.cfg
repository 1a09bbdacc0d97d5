SPECIFICATION FairSpec
CONSTANTS
    Outs = {o1}
    MaxResyncs = 2
    MaxFaults = 1
INVARIANTS
    TypeOK
    CopiesBounded
    RestMatchesNode
PROPERTIES
    NoLateOffer
    UnspentOffered
    ResyncEnds
\* Everything may have been handled, with every output spent.
CHECK_DEADLOCK FALSE
