SPECIFICATION FairSpec
CONSTANTS
    a1 = a1
    a2 = a2
    w = w
    Ins <- InsOfIncome
    Outs <- OutsOfIncome
    WalletOf <- OneWallet
    Times = {1}
    MaxQueue = 2
    MaxResyncs = 0
PROPERTY
    RejectedShown
CHECK_DEADLOCK FALSE
