SPECIFICATION Spec
CONSTANTS
  None = None
  RoleActs = {}
  QueryActs = {g1}
  FilterActs = {}
  Drags = {g1}
  RoleTargets = {g1}
  FilterTargets = {}
  QueryCounts = {}
  RoleCounts = {d1}
  Elements = {1, 2}
INVARIANTS
  LockKeepsRefs
CHECK_DEADLOCK FALSE
