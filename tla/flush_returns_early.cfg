SPECIFICATION FlushSpec
CONSTANTS
  t1 = t1
  t2 = t2
  e1 = e1
  e2 = e2
  e3 = e3
  Thread = {t1}
  Ops <- TrackAndFlush
  Event = {e1}
  RowId = {1}
  TooLarge = {}
  Method = "POST"
  BatchSize = 1
  HasFlushTimeout = TRUE
  CallbackStatus <- NoStatuses
  CustomRetry <- NoRules
  MaxStarts = 1
  StorageFaults = FALSE
  CanCrash = FALSE
  Client = "apple"
  StatusCode = {200}
  StackValue = {}
PROPERTIES
  FlushDoneMeansDrained
