SPECIFICATION Spec
CONSTANTS
  None = None
  Starts = {s1, s2, s3}
  Stops = {t1}
  Statuses = {}
  Windows = {w1}
  Paths = {p1}
  MaxNative = 2
SYMMETRY VideoSymmetry
INVARIANTS
  TypeOK
  NoOrphanWorker
  CancelledIsOver
PROPERTIES
  NeverOverwrites
CHECK_DEADLOCK FALSE
