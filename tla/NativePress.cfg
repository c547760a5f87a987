SPECIFICATION Spec
CONSTANTS
  None = None
  w1 = w1
  w2 = w2
  Windows = {w1, w2}
  Count = 2
  Plans <- TwoPresses
  MaxMeddling = 1
INVARIANTS
  TypeOK
  InjectedIsTrue
  NoMonitorLeft
  NextStartsQuiet
  NobodyHoldsTheLock
CHECK_DEADLOCK FALSE
