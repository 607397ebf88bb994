SPECIFICATION FairSpec
CONSTANTS
  plex = plex
  desktop = desktop
  backup = backup
  shell = shell
  Workload <- MCWorkload
  Kind <- MCKind
  Nfs <- MCWorkload
  Named <- MCNamed
  MaxReplicas = 2
  Unread = Unread
  Uncounted = Uncounted
INVARIANT SavedFirst
INVARIANT RestoredInFull
INVARIANT StoppedQuiet
PROPERTY RunsEnd
