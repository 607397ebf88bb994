SPECIFICATION FairSpec
CONSTANTS
  m1 = m1
  m2 = m2
  Mods <- MCMods
  Downloads <- MCMods
  Requests <- MCRequests
INVARIANTS
  StopLosesLittle
  ModsFresh
PROPERTIES
  EndsByItself
