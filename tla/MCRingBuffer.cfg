CONSTANTS
  a = a
  b = b
  Bytes = {a, b}
  NoByte = NoByte
  InitCap = 1
  BoundSize = 4
  ShrinkSize = 3
  ExtraLen = 2
  MaxSize = 5
  MaxData = 3
  MaxCap = 9
SPECIFICATION Spec
INVARIANTS
  TypeOK
  IndexesMatchSize
  VectorsFit
PROPERTIES
  QueueSpec
