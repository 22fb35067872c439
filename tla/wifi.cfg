SPECIFICATION DirectFairSpec
CONSTANTS
  ApConfigs <- MCApConfigs
  StaConfigs <- MCStaConfigs
  Addresses <- MCAddresses
  NoIp = NoIp
  Accepted <- MCAccepted
  DefaultAp <- MCDefaultAp
  DefaultSta <- MCDefaultSta
  MaxAttempts = 1
  EventCap = 2
  Symbols <- MCSymbols
  Numeral <- MCNumeral
  Percent <- MCPercent
  Width <- MCWidth
  Commands <- MCCommands
  ApOverruns <- MCApOverruns
  StaOverruns <- MCStaOverruns
INVARIANTS
  TypeOK
  RestartExclusive
  SettingsInForce
  
  ReconnectPendingNear
  StoredAsSent
PROPERTIES
  RestartReturns
  StationGoesOn
