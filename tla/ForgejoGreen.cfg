SPECIFICATION ForgejoSpec
CONSTANTS
  MaxJobSteps = 7
INVARIANTS
  GreenWasTrueOnce
CHECK_DEADLOCK FALSE
