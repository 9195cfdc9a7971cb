SPECIFICATION TrackingSpec
CONSTANTS
  Thread = {t1, t2}
  Event = {1, 2}
  NoEvent = NoEvent
  MaxTime = 1
  ForegroundTimeout = 0
  BackgroundTimeout = 0
  MaxRestarts = 0
  HighAlnum = {}
  s1 = s1
  s2 = s2
  Subjects <- MCSubjects
  EventData <- MCEventData
  Trackers <- MCTrackers
  Attribute <- MCAttribute
  Value <- MCValue
  MaxChanges = 1
SYMMETRY Symmetry
INVARIANTS
  SentAsTracked
  CallOrderKept
  StoredThrewOrLogged
CHECK_DEADLOCK FALSE
