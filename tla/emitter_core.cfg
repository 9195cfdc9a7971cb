SPECIFICATION Spec
CONSTANTS
  t1 = t1
  t2 = t2
  e1 = e1
  e2 = e2
  e3 = e3
  Thread = {t1, t2}
  Ops <- TrackAndStop
  Event = {e1, e2, e3}
  RowId = {1, 2, 3}
  TooLarge = {e3}
  Method = "POST"
  BatchSize = 2
  HasFlushTimeout = TRUE
  CallbackStatus <- NoStatuses
  CustomRetry <- NoRules
  MaxStarts = 1
  StorageFaults = FALSE
  CanCrash = FALSE
  Client = "apple"
  StatusCode = {200, 400, 500}
  StackValue = {}
SYMMETRY EventSymmetry
INVARIANTS
  BatchIsDivided
  NoLoss
  StopNeverJoinsSleeper
  NoResendOfSettled
PROPERTIES
  QueueSpec
