INIT Init
NEXT Next
CHECK_DEADLOCK FALSE
CONSTANTS
  Words <- MCWords
  Texts <- MCTexts
  Numbers = {"1"}
  Templates <- MCTemplates
  RouteSpecs <- MCRouteSpecs
INVARIANT ModuloIsFloored
