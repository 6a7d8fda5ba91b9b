SPECIFICATION FairSpec
CONSTANTS
    MaxAddr = 2
    NumRxLoops = 1
    MaxTx = 1
    Modes = {TRUE, FALSE}
    ResubmitMayFail = TRUE
INVARIANTS
    MuxImpliesUsb ShutdownClosesAll
PROPERTIES
    DepartedIsForgotten
CHECK_DEADLOCK FALSE
