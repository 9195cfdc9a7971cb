SPECIFICATION RoundSpec
CONSTANTS
  N = 4
  PayloadSize = {10, 56, 62, 141}
  ByteLimitPost = 250
  Base = 100
  Factor = 2
  RetryCountCap = 10
  JitterPercent = 10
  Seed = {0, 499, 500, 999}
  MaxRetries = 12
INVARIANTS
  NoNeedlessSplit
  PlanIsSendPlan
  BodyNearLimit
  WithinJitter
PROPERTIES
  DelaysGrow
