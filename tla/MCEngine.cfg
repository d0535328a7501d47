CONSTANTS
  k1 = k1
  k2 = k2
  k3 = k3
  c1 = c1
  NoKey = NoKey
  NoCode = NoCode
  Codes = {c1}
  Keys = {k1, k2, k3}
  MaxInbox = 1
  Confirmed = {"listener", "connector"}
SYMMETRY MCSymmetry
SPECIFICATION Spec
INVARIANTS
  TypeOK
  TablesKnown
  NodesPaired
  ConnectingIsNodeUid
PROPERTY
  UpcallSpec
CHECK_DEADLOCK FALSE
