SPECIFICATION Spec
CONSTANTS
    d1 = d1
    c1 = c1
    Devices = {d1}
    Clients = {c1}
    Main = Main
    NoOne = NoOne
INVARIANTS
    NoLockCycle
CHECK_DEADLOCK FALSE
