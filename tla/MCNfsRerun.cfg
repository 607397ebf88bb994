SPECIFICATION Spec
CONSTANTS
  plex = plex
  desktop = desktop
  backup = backup
  shell = shell
  Workload <- MCWorkload
  Kind <- MCRerunKind
  Nfs <- MCWorkload
  Named <- MCNamed
  MaxReplicas = 2
  Unread = Unread
  Uncounted = Uncounted
INVARIANT RestoredToBefore
