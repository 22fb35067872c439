SPECIFICATION Spec
CONSTANTS
  d1 = d1
  d2 = d2
  NoMac = NoMac
  NoFile = NoFile
  Devices <- MCDevices
  Mesh = {d1}
  DateAt <- MCDateAt
  MaxTime = 1
  IdMod = 2
  MsgLimit = 0
  MaxReports = 2
INVARIANTS
  TypeOK
  StuckStrandsNothing
  IdsUnique
  WindowOrdered
  FileNameCurrent
PROPERTIES
  ImplementsLog
  ReportsEnd
