SPECIFICATION Spec
CONSTANTS
  c1 = c1
  c2 = c2
  p1 = p1
  v1 = v1
  d1 = d1
  none = none
  None = none
  Calls <- MCCalls
  Pools <- MCPools
  Versions <- MCVersions
  Displays <- MCDisplays
  Sizes <- MCSizes
  Options <- MCOptions
  Ops = {"Create", "Update"}
  GatedVersions = {v1}
  KeepOnError = {TRUE, FALSE}
  DeletionLag = FALSE
  MaxRotations = 0
INVARIANTS SuccessMeansApplied
