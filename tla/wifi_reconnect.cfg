SPECIFICATION Spec
CONSTANTS
  ApConfigs <- MCApConfigs
  StaConfigs <- MCStaConfigs
  Addresses <- MCAddresses
  NoIp = "none"
  Accepted <- MCAccepted
  DefaultAp = "ap"
  DefaultSta = "sta"
  MaxAttempts = 1
  EventCap = 2
INVARIANTS
  ReconnectPending
