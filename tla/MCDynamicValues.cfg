SPECIFICATION FairSpec
CONSTANTS
  none = none
  None = none
  unknown = unknown
  NotFound = unknown
  Options <- MCOptions
  Images <- MCImages
  SubnetIds <- MCSubnetIds
  SubnetFlags <- MCSubnetFlags
  Mappings <- MCMappings
  CloudSecrets <- MCCloudSecrets
  KeepOnError = {TRUE, FALSE}
  MaxTrouble = 1
INVARIANTS TypeOK MergeAgrees SubnetsKeepRoles ReferenceAsAsked FleetAsStored
PROPERTIES NetworkIsFixed ForeignFieldsStay VersionArrives
