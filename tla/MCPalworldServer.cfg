SPECIFICATION Spec
CONSTANTS
  ServerName = ServerName
  ServerPassword = ServerPassword
  RCONEnabled = RCONEnabled
  MaxPlayers = MaxPlayers
  default = default
  set = set
  other = other
  open = open
  close = close
  percent = percent
  doubled = doubled
  Template <- MCTemplate
  Password = ServerPassword
  Configs <- MCConfigs
  Passwords <- MCPasswords
  Merged = Merged
  MaxNest = 3
  MaxEdits = 3
INVARIANT SettingsRight
INVARIANT OptionsKept
INVARIANT FileSurvives
