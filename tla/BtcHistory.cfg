SPECIFICATION Spec
CONSTANTS
    a1 = a1
    a2 = a2
    w = w
    Ins <- InsOfPayment
    Outs <- OutsOfPayment
    WalletOf <- OneWallet
    Times = {1, 2}
    MaxQueue = 2
    MaxResyncs = 1
INVARIANTS
    TypeOK
    RestShowsStage
PROPERTY
    DoubledOnlyByRace
\* The transaction may be confirmed and all its reports saved.
CHECK_DEADLOCK FALSE
