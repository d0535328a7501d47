CONSTANTS
  Base = 256
  Width = 1
  FixedSize = 3
  InitSize = 2
  NoByte = NoByte
  NullPtr = NullPtr
  NoMessage = NoMessage
  Schema <- MCSchema
  Packets <- MCPackets
  Room = 4
  IovMax = 3
  Foreign = {0}
  MaxSent = 3
SPECIFICATION FairSpec
INVARIANTS
  TypeOK
  RoundTrips
  NoFailure
PROPERTIES
  ChannelSpec
  AllArrive
  EndArrives
CHECK_DEADLOCK FALSE
