SPECIFICATION Spec
CONSTANTS
    a = a
    b = b
    c = c
    Users = {a, b}
    OwnersCount = 3
    Requests <- DoubleTap
    MaxOpen = 2
    MaxServed = 3
    MaxEvents = 0
INVARIANT
    JoinedOnce
CHECK_DEADLOCK FALSE
