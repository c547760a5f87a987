SPECIFICATION Spec
CONSTANTS
  Callers = {j1, j2}
  Apps = {"a", "b"}
  Windows = {"main", "settings"}
  Main = "main"
  Stories <- MCStories
  Unframed <- MCUnframed
  Cap = 2
  None = None
SYMMETRY Perms
CHECK_DEADLOCK FALSE
INVARIANTS
  TypeOK
  ActsWhereAsked
  SameRequest
  VerdictsAreTrue
  StaysAttached
  ReadOnlyToolsOnlyRead
  FollowShowsEachOnce
