SPECIFICATION Spec
CONSTANTS
  v1 = v1
  v2 = v2
  Receivers <- MCReceivers
  Statuses <- MCStatuses
  Ssids <- MCSsids
  Passwords <- MCPasswords
  InitialSsid = "123456"
  Empty = ""
  RxCap = 2
  LineCap = 3
  QueueCap = 1
  ReportCap = 1
  MaxSegs = 1
  MaxReports = 2
  PromptSensor = FALSE
  FlushCuts = TRUE
  PromptReceiver = TRUE
SYMMETRY ReceiverSymmetry
INVARIANTS
  TypeOK
  ReceiverOwnsLine
  OneReceiver
  NothingLeftOver
  FinalChunkLast
  AnswerComplete
  LineExclusive
  AnswersFresh
PROPERTIES
  ImplementsExchange
