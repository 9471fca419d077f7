SPECIFICATION Spec
CONSTANTS
  c1 = c1
  p1 = p1
  p2 = p2
  v1 = v1
  v2 = v2
  d1 = d1
  none = none
  None = none
  Calls <- MCCalls
  Pools <- MCPools
  Versions <- MCVersions
  Displays <- MCDisplays
  Sizes <- MCSizes
  Options <- MCOptions
  Ops = {"Create", "Update", "SetVersion"}
  GatedVersions = {v2}
  KeepOnError = {TRUE, FALSE}
  DeletionLag = FALSE
  MaxRotations = 0

PROPERTIES WorkersWaitForControlPlane
