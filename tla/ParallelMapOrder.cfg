SPECIFICATION Spec
CONSTANTS
  N = 3
  Limit = 2
INVARIANT SequentialError
