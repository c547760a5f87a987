SPECIFICATION Spec
CONSTANTS
  Clients = {c1, c2}
  Windows = {"main", "settings"}
  Main = "main"
  Doms <- MCDoms
  Override <- MCOverride
  Stories <- MCStories
  Added <- MCAdded
  MaxLines = 6
  MaxLoads = 1
  None = None
CHECK_DEADLOCK FALSE
INVARIANTS
  TypeOK
  RecordingIsComplete
  DiffExplains
  BaselineOfThisDocument
  ReplayHitsItsWindow
