SPECIFICATION FairSpec
CONSTANTS
  c1 = c1
  None = None
  Calls <- MCCalls
  Options <- MCOptions
  KeepOnError = {TRUE, FALSE}
INVARIANTS TypeOK FlagsCoherent UninstallIsComplete
PROPERTIES SecretBeforeReference VerrazzanoGoneBeforeCluster RemoveCompletes UninstallCompletes
CHECK_DEADLOCK FALSE
