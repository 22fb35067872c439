SPECIFICATION ModuleSpec
CONSTANTS
  MaxTime = 5
  NewTimes <- MCNewTimes
  StartDays <- MCStartDays
  StartSecond = 86398
  LastDay = 47116
  Unread <- MCUnread
  Unwritten <- MCUnwritten
  StrayBytes <- MCStrayBytes
INVARIANTS
  NeverAhead
  NeverBehind
  ModuleKeepsTime
  DateAgrees
  DatesRoundTrip
  AlarmsReadBack
CONSTRAINT
  DaysOnce
