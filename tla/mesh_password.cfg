SPECIFICATION Spec
CONSTANTS
  Statuses <- MCStatuses
  Ssids <- MCSsids
  Passwords <- MCPasswords
  InitialSsid = "123456"
  Empty = ""
PROPERTIES
  DismissedMeansSame
