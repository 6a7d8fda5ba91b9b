SPECIFICATION LoopSpec
CONSTANTS
  SeqMod = 4
  TxWin = 2
  InbufSize = 2
  OutbufSize = 2
  MaxPayload = 1
  WinUnit = 1
  DevWin = 1
  AppCap = 0
  ChanCap = 3
  UsbMayFail = TRUE
INVARIANTS InputNeverOverflows ReceivesInSequence
PROPERTIES DeviceUnblocked
CHECK_DEADLOCK FALSE
