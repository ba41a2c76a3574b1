SPECIFICATION Spec
CONSTANTS
  Procs = {p1}
  Modes = {"serve"}
  Crashing = {"serve"}
  MaxEntries = 3
INVARIANT IdsNotReused
