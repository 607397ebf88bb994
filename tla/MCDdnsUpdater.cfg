SPECIFICATION FairSpec
CONSTANTS
  home = home
  away = away
  none = none
  google1 = google1
  google2 = google2
  Addr <- MCAddr
  Resolver <- MCResolver
  NoAddr = none
  BackoffInitial = 1
  BackoffMax = 5
  Interval = 9
PROPERTY BackoffGrows
PROPERTY CatchesUp
