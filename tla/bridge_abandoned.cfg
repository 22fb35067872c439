SPECIFICATION FairSpec
CONSTANTS
  v1 = v1
  v2 = v2
  Receivers <- MCReceivers
  Statuses <- MCStatuses
  Ssids <- MCSsids
  Passwords <- MCPasswords
  InitialSsid = "123456"
  Empty = ""
  RxCap = 2
  LineCap = 3
  QueueCap = 1
  ReportCap = 0
  MaxSegs = 1
  MaxReports = 0
  PromptSensor = FALSE
  FlushCuts = FALSE
  PromptReceiver = TRUE
PROPERTIES
  WaitingEnds
