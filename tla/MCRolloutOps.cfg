SPECIFICATION Spec
CONSTANTS
  c1 = c1
  p1 = p1
  v1 = v1
  d1 = d1
  d2 = d2
  none = none
  None = none
  Calls <- MCCalls
  Pools <- MCPools
  Versions <- MCVersions
  Displays <- MCDisplays
  Sizes <- MCSizes
  Options <- MCOptions
  Ops = {"Create", "Update", "SetClusterSize", "SetVersion"}
  GatedVersions = {v1}
  KeepOnError = {FALSE}
  DeletionLag = TRUE
  MaxRotations = 1
INVARIANTS StepsStayApplied ControlPlaneRefResolves
PROPERTIES OnlyStoredStateSetsCredentialBack ImplementsStagedUpdate
