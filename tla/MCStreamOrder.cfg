CONSTANTS
  Base = 256
  Width = 1
  FixedSize = 3
  InitSize = 2
  NoByte = NoByte
  NullPtr = NullPtr
  NoMessage = NoMessage
  Schema <- MCSchema
  Packets <- MCPackets
  Room = 4
  IovMax = 3
  Foreign = {0}
  MaxSent = 3
SPECIFICATION Spec
INVARIANTS
  StreamInOrder
CHECK_DEADLOCK FALSE
