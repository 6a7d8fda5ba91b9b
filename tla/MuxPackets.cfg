SPECIFICATION Spec
CONSTANTS
  UsbMru = 2
  DevMru = 6
  Packet <- MCPacket
  Claims <- MCClaims
  None = None
  Garbled = Garbled
  MaxGot = 2
INVARIANTS InSync BufferBound
PROPERTY Reassembles
