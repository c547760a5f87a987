SPECIFICATION Spec
CONSTANTS
  None = None
  Old = Old
  Torn = Torn
  n1 = n1
  v1 = v1
  h1 = h1
  h2 = h2
  p1 = p1
  p2 = p2
  n2 = n2
  Natives = {n1, n2}
  Views = {v1}
  Heaps = {h1, h2}
  Paths = {p1, p2}
  Asked <- AskedApart
  Stem <- StemsApart
  Casts <- SomeTogether
  Attempts = 1
INVARIANTS
  TypeOK
  PublishedWhole
  NoTempLeft
  InspectorDetached
CHECK_DEADLOCK FALSE
