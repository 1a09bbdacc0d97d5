SPECIFICATION Spec
CONSTANTS
    Addrs = {a1}
    Base = 2
    MaxHead = 5
    MaxFaults = 3
    AccuracyRange = 1
INVARIANTS
    TypeOK
    RestNoGap
\* Without a fault left, all blocks may be reported.
CHECK_DEADLOCK FALSE
