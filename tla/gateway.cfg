SPECIFICATION GatewaySpec
CONSTANTS
  Statuses <- MCStatuses
  Ssids <- MCSsids
  Passwords <- MCPasswords
  InitialSsid = "123456"
  Empty = ""
  Codes <- MCCodes
  MaxEvents = 3
INVARIANTS
  GatewayTypeOK
  MemoryCatchesUp
  HaltsAtBootOrOnMessage
  ServesThePhone
PROPERTIES
  QuietWhenStable
  StaysServed
