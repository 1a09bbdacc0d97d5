SPECIFICATION FairSpec
CONSTANTS
    c1 = c1
    c2 = c2
    c3 = c3
    u1 = u1
    u2 = u2
    None = None
    Conns = {c1, c2, c3}
    Users = {u1, u2}
    UserOf <- TwoDevicesAndOne
    MaxAccepted = 2
INVARIANTS
    TypeOK
    PoolKnowsRunning
    ConnsOfOwnUser
    SignalNamesHeldConn
    CloseNeverReenters
PROPERTIES
    OnlyFinishedConnsLeave
    
\* A device connects once, and an orphan blocks the pool for good.
CHECK_DEADLOCK FALSE
