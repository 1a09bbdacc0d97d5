SPECIFICATION FairSpec
CONSTANTS
    c1 = c1
    c2 = c2
    c3 = c3
    u1 = u1
    u2 = u2
    None = None
    Conns = {c1, c2}
    Users = {u1}
    UserOf <- AllOneUser
    MaxAccepted = 2
PROPERTY
    CloseSignalDelivered
CHECK_DEADLOCK FALSE
