SPECIFICATION Spec
CONSTANTS
  LockIds = {l1}
  Periods = {15}
  Days = {1}
  NoLock = NoLock
  FirstDay = 11
  LastDay = 17
  LastTabDay = 12
  MaxEntries = 2
  MaxRetries = 1
  ExceptionIds = {x1}
  NoItem = NoItem
  MaxLoads = 3
CHECK_DEADLOCK FALSE
INVARIANTS
  AlertsKeepOrder
  PromptTimerIsExact
  ReadsOwnWrites
  TimerTellsTrue
PROPERTIES
  TimerEnds
  DrawersGetFree
