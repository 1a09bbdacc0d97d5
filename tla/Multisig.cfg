SPECIFICATION Spec
CONSTANTS
    a = a
    b = b
    c = c
    Users = {a, b, c}
    OwnersCount = 2
    Requests <- Everything
    MaxOpen = 2
    MaxServed = 4
    MaxEvents = 2
INVARIANTS
    TypeOK
    CopiesWithinCount
    
    

    
\* Every request may have been answered.
CHECK_DEADLOCK FALSE
