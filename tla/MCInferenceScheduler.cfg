SPECIFICATION FairSpec
CONSTANTS
  c1 = c1
  c2 = c2
  m1 = m1
  m2 = m2
  b1 = b1
  b2 = b2
  b3 = b3
  NoReq = NoReq
  Camera <- MCCamera
  MotionReq <- MCMotionReq
  BaselineReq <- MCBaselineReq
INVARIANT TypeOK
INVARIANT NoLostRequest
INVARIANT RegistryExact
PROPERTY MotionFirst
PROPERTY PreemptedByOwnCamera
PROPERTY MotionServed
PROPERTY ScanServedWhenCalm
PROPERTY ImplementsService
CHECK_DEADLOCK FALSE
