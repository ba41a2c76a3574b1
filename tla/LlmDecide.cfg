SPECIFICATION Spec
CHECK_DEADLOCK FALSE
CONSTANTS
  MaxRetries = 3
INVARIANT DecideGivesAnOption
