SPECIFICATION Spec
CONSTANTS
    f1 = f1
    f2 = f2
    Fds = {f1, f2}
    MaxDev = 1
    PortMod = 3
    MaxAccept = 2
    MaxCmd = 3
    Commands = {"Connect", "Listen"}
    UsbMayFail = TRUE
SYMMETRY FdSymmetry
INVARIANTS
    CommandBufferUnneeded
CHECK_DEADLOCK FALSE
