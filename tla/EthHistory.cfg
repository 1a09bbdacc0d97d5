SPECIFICATION Spec
CONSTANTS
    Keys = {k1, k2}
    MaxHead = 3
    MaxResyncs = 1
    AccuracyRange = 2
INVARIANTS
    TypeOK
    RestShowsChain
PROPERTY
    ImplementsBoard
\* The last block may be checked and all reports saved.
CHECK_DEADLOCK FALSE
