SPECIFICATION FairSpec
CONSTANTS
  c1 = c1
  c2 = c2
  none = none
  None = none
  Calls <- MCCalls
  KeepOnError = {TRUE, FALSE}
  MaxTrouble = 2
INVARIANTS TypeOK ConnectedMeansUsable CacheSettles
PROPERTIES StaysConnected
