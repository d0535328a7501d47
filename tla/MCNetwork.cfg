CONSTANTS
  k1 = k1
  k2 = k2
  k3 = k3
  s1 = s1
  s2 = s2
  NoKey = NoKey
  Slots = {s1, s2}
  SlotOf <- MCSlotOf
  Keys = {k1, k2, k3}
  MaxQueue = 2
  MaxOut = 2
SYMMETRY MCSymmetry
SPECIFICATION Spec
INVARIANTS
  TypeOK
  SlotExclusive
  PendingSlotFree
  WriteInterestTracksBuffer
  FinAfterOutput
  TimersMatchState
  ToldUpWhileOpen
PROPERTIES
  LifeSpec
CHECK_DEADLOCK FALSE
