SPECIFICATION FairSpec
CONSTANTS
  None = None
  Starts = {s1}
  Stops = {t1, t2}
  Statuses = {q1}
  Windows = {w1}
  Paths = {p1}
  MaxNative = 2
PROPERTIES
  EverybodyReturns
CHECK_DEADLOCK FALSE
