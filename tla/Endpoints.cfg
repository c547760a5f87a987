SPECIFICATION FairSpec
CONSTANTS
  None = None
  Apps = {a1, a2}
  Supervised = {a1}
  Clients = {c1, c2}
  Prefixed = TRUE
INVARIANTS
  TypeOK
  SupervisorCleansUp
PROPERTIES
  ImplementsContract
  StaleNeverBlocks
CHECK_DEADLOCK FALSE
