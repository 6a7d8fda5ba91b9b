SPECIFICATION FairSpec
CONSTANTS
    d1 = d1
    d2 = d2
    c1 = c1
    Devices = {d1, d2}
    Clients = {c1}
    Main = Main
    NoOne = NoOne
INVARIANTS
    CbDataAlive
    PresentDeviceKnown
    GoneDeviceForgotten
PROPERTIES
    WaitEnds
CHECK_DEADLOCK FALSE
