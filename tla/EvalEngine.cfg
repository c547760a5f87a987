SPECIFICATION FairSpec
CONSTANTS
  None = None
  Windows = {w1}
  Origins = {o1, o2}
  Requests = {r1, r2}
  MaxDoc = 2
INVARIANTS
  TypeOK
  OkFromPinnedPage
  AuthorizedOnlyWhileLoaded
PROPERTIES
  ImplementsContract
  EveryRequestAnswered
CHECK_DEADLOCK FALSE
