SPECIFICATION SharedSpec
CONSTANTS
  N = 4
  Limit = 2
  Agents = {a1, a2}
  Keys = {k1, k2}
  Values = {u}
  Absent = absent
  MaxVersion = 3
  Room = 2
  Cap = 1
  MaxOutput = 4
  Input = 3
INVARIANTS ListIsComplete ErrorIsReal
PROPERTIES MapReturns BoardIsTold  
CHECK_DEADLOCK FALSE
