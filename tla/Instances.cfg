SPECIFICATION FairSpec
CONSTANTS
    MaxProc = 2
    Args <- UserArgs
    Udev = TRUE
    MaxPlugs = 1
    MaxKill = 1
    Ppoll = {TRUE, FALSE}
    CallsMayFail = TRUE
INVARIANTS
    OneDaemon ServingIsFound ParentKnows
PROPERTIES
    ParentReturns ForceExitWorks DiscoveryHonoured
CHECK_DEADLOCK FALSE
