SPECIFICATION FairSpec
CONSTANTS
    Devices = {d1}
    Workers = {w1}
    Records = {r1, r2}
    Main = main
    Uuids = {u1, u2}
    NoUuid = nouuid
    NoRecord = none
    TornRecord = torn
    NullHost = null
    MaxSave = 2
    MaxKill = 1
    MayFail = TRUE
INVARIANTS BuidStable AckedIsStored
PROPERTIES KeysKept RetryEnds
