SPECIFICATION Spec
CONSTANTS
  t1 = t1
  t2 = t2
  e1 = e1
  e2 = e2
  e3 = e3
  Thread = {t1, t2}
  Ops <- TwoControllers
  Event = {e1}
  RowId = {1}
  TooLarge = {}
  Method = "POST"
  BatchSize = 1
  HasFlushTimeout = TRUE
  CallbackStatus <- NoStatuses
  CustomRetry <- NoRules
  MaxStarts = 3
  StorageFaults = FALSE
  CanCrash = FALSE
  Client = "apple"
  StatusCode = {200, 400}
  StackValue = {}
PROPERTIES
  TerminatesOnlyDuringStop
