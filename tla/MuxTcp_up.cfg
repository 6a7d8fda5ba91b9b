SPECIFICATION FairSpec
CONSTANTS
  SeqMod = 3
  TxWin = 1
  InbufSize = 1
  OutbufSize = 2
  MaxPayload = 1
  WinUnit = 1
  DevWin = 1
  AppCap = 1
  ChanCap = 2
  UsbMayFail = TRUE
PROPERTIES ClientUnblocked ConnectAnswered
CHECK_DEADLOCK FALSE
