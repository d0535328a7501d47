CONSTANTS
  h1 = h1
  h2 = h2
  h3 = h3
  u1 = u1
  u2 = u2
  Handlers = {h1, h2, h3}
  NoHandler = NoHandler
  Uids = {u1, u2}
  NoUid = NoUid
  MaxId = 2
  Timeout = 1
  MaxClock = 2
  Kept = {h1}
SPECIFICATION FairSpec
INVARIANTS
  TypeOK
  OneOutcome
  PendingAgree
  OwnAnswer
  NoneLost
PROPERTIES
  SweptAll
  BoundIsTold
CHECK_DEADLOCK FALSE
