SPECIFICATION Spec
CONSTANTS
    d1 = d1
    d2 = d2
    r1 = r1
    r2 = r2
    Devices = {d1, d2}
    Keys <- AllKeys
    Initial <- Accounts
    Reqs = {r1, r2}
    MaxPayments = 1
    MaxRequests = 3
    MaxSeconds = 2
    MaxEmpty = 2
    Timeout = 0
SYMMETRY Symmetry
INVARIANTS
    TypeOK
    
    
    CopiesBounded
    ChangeKept
    
CHECK_DEADLOCK FALSE
