SPECIFICATION Spec
CONSTANTS
  SeqMod = 4
  TxWin = 1
  InbufSize = 1
  OutbufSize = 3
  MaxPayload = 2
  WinUnit = 1
  DevWin = 2
  AppCap = 1
  ChanCap = 2
  UsbMayFail = TRUE
INVARIANTS
  TypeOK StatesAgree PollMaskFresh FlushedUnlessClientFails
  DeviceNeverOverflows SendsInSequence
PROPERTIES BytesConserved
CHECK_DEADLOCK FALSE
