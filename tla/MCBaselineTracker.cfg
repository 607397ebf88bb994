SPECIFICATION TrackerSpec
CONSTANTS
  vehicle = vehicle
  Group <- MCGroup
  Position <- MCPosition
  Tolerance = 3
  AddThreshold = 3
  MaxFrame = 2
  MaxCandidates = 3
INVARIANT MissedExact
INVARIANT SeenBeforePromoted
PROPERTY BaselineKept
PROPERTY SceneSettles
