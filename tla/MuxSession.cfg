SPECIFICATION Spec
CONSTANTS
    f1 = f1
    f2 = f2
    Fds = {f1, f2}
    MaxDev = 2
    PortMod = 3
    MaxAccept = 3
    MaxCmd = 2
    Commands = {"Listen", "Connect", "Query", "Save", "Unparsable", "BadLength"}
    UsbMayFail = TRUE
SYMMETRY FdSymmetry
INVARIANTS
    TypeOK ConnectionsMatchClients QueuedIsPolled PortsDistinct ListenersInformed
PROPERTIES
    FreshClientHasNoEvents DevicesAreIsolated ProtocolKept
CHECK_DEADLOCK FALSE
