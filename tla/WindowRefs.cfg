SPECIFICATION FairSpec
CONSTANTS
  None = None
  RoleActs = {a1}
  QueryActs = {g1}
  FilterActs = {}
  Drags = {a1, g1}
  RoleTargets = {g1}
  FilterTargets = {a1}
  QueryCounts = {}
  RoleCounts = {}
  Elements = {1, 2}
INVARIANTS
  TypeOK
  HitsItsGoal
PROPERTIES
  OperationsEnd
CHECK_DEADLOCK FALSE
