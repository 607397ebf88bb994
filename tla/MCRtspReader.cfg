SPECIFICATION FairSpec
CONSTANTS
  Warmup = 2
  BackoffMax = 3
  MaxCount = 2
INVARIANT TypeOK
INVARIANT CountsExact
INVARIANT MotionWarm
PROPERTY ReadsUntilStopped
