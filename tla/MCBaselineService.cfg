SPECIFICATION FairSpec
CONSTANTS
  vehicle = vehicle
  o1 = o1
  o2 = o2
  Motion = Motion
  FollowUp = FollowUp
  Scan = Scan
  NoReq = NoReq
  Others <- MCOthers
  Group <- MCGroup
  Position <- MCPosition
  Tolerance = 3
  AddThreshold = 2
  MaxFrame = 1
  MaxCandidates = 2
INVARIANT TypeOK
INVARIANT BaselineInSync
INVARIANT WarmupQuiet
PROPERTY BaselineShrinksVerified
PROPERTY CycleEnds
