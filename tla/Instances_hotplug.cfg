SPECIFICATION FairSpec
CONSTANTS
    MaxProc = 3
    Args <- NoArgs
    Udev = TRUE
    MaxPlugs = 2
    MaxKill = 0
    Ppoll = {TRUE}
    CallsMayFail = FALSE
PROPERTIES
    HotplugServed
CHECK_DEADLOCK FALSE
