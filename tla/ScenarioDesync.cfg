SPECIFICATION ScenarioSpec
CONSTANTS
  NumSteps = 2
INVARIANTS
  NoForeignResponse
CHECK_DEADLOCK FALSE
