SPECIFICATION FairScenario
CONSTANTS
  NumSteps = 3
INVARIANTS
  PassedWasExecuted
PROPERTIES
  ScenarioEnds
CHECK_DEADLOCK FALSE
