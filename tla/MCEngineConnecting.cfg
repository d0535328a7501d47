CONSTANTS
  k1 = k1
  k2 = k2
  k3 = k3
  c1 = c1
  NoKey = NoKey
  NoCode = NoCode
  Codes = {c1}
  Keys = {k1, k2}
  MaxInbox = 2
  Confirmed = {"listener", "connector"}
SPECIFICATION Spec
INVARIANT
  ConnectingKnown
CHECK_DEADLOCK FALSE
