SPECIFICATION FairSpec
CONSTANTS
  c1 = c1
  c2 = c2
  p1 = p1
  t1 = t1
  t2 = t2
  Camera <- MCCamera
  Place <- MCPlace
  Task <- MCTask
  Motion = Motion
  NoCamera = NoCamera
  QueueMax = 1
INVARIANT TypeOK
INVARIANT OneFollowUp
INVARIANT FloodBounded
PROPERTY FollowUpAfterAlert
PROPERTY EventsServed
PROPERTY FollowUpsEnd
