SPECIFICATION LiveSpec
CONSTANTS
  t1 = t1
  t2 = t2
  e1 = e1
  e2 = e2
  e3 = e3
  Thread = {t1, t2}
  Ops <- FlushWhileStopping
  Event = {e1}
  RowId = {1}
  TooLarge = {}
  Method = "GET"
  BatchSize = 1
  HasFlushTimeout = FALSE
  CallbackStatus <- NoStatuses
  CustomRetry <- NoRules
  MaxStarts = 1
  StorageFaults = FALSE
  CanCrash = FALSE
  Client = "apple"
  StatusCode = {200}
  StackValue = {}
PROPERTIES
  StopUnblocksFlush
