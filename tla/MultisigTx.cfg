SPECIFICATION Spec
CONSTANTS
    ann = ann
    bob = bob
    cem = cem
    Owners = {ann, bob, cem}
    Submitter = ann
    OurWallet = TRUE
    MaxQueue = 2
    MaxRevokes = 1
INVARIANTS
    TypeOK
    
    ConfirmedWarranted
    
PROPERTY
    MarkByOwner
\* All calls may be in deep blocks, with every report handled.
CHECK_DEADLOCK FALSE
