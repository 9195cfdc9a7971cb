SPECIFICATION Spec
CONSTANTS
  t1 = t1
  t2 = t2
  e1 = e1
  e2 = e2
  e3 = e3
  Thread = {t1}
  Ops <- StartStopTrack
  Event = {e1, e2}
  RowId = {1, 2}
  TooLarge = {e1}
  Method = "GET"
  BatchSize = 2
  HasFlushTimeout = TRUE
  CallbackStatus <- TerminalStatuses
  CustomRetry <- NoRules
  MaxStarts = 1
  StorageFaults = TRUE
  CanCrash = TRUE
  Client = "windows"
  StatusCode = {200, 400}
  StackValue = {}
INVARIANTS
  NoLoss
  BatchStillStored
  CallbackTruthful
