CONSTANTS
  MaxEvents = 4
  Monitor = TRUE
  Returns = {TRUE, FALSE}
SPECIFICATION FairSpec
INVARIANTS
  TypeOK
  InOrder
  ClearedLast
PROPERTIES
  EventsProcessed
CHECK_DEADLOCK FALSE
