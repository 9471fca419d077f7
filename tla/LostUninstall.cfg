SPECIFICATION Spec
CONSTANTS
  c1 = c1
  None = None
  Calls <- MCCalls
  Options <- MCOptions
  KeepOnError = {TRUE, FALSE}
INVARIANTS NoVerrazzanoMeansNoFleet
CHECK_DEADLOCK FALSE
