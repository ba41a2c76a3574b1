SPECIFICATION Spec
CONSTANTS
  data = data
  none = none
  m1 = m1
  m2 = m2
  NoModule = NoModule
  Types = {"file", "file.read", "llm"}
  Scopes = {data}
  All = none
  Matches <- MCMatches
  MaxRecursion = 3
  MaxFrames = 4
  Modules = {m1, m2}
  AutoGrants <- MCAutoGrants
  Requirable <- MCRequirable
  Declarations <- MCDeclarations
  Ceilings <- MCCeilings
SYMMETRY ModuleSymmetry
INVARIANTS Balanced   CeilingHolds FreshRequest
PROPERTY ImplementsMonitor
