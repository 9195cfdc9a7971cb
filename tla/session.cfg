SPECIFICATION Spec
CONSTANTS
  Thread = {t1, t2}
  Event = {e1, e2, e3}
  NoEvent = NoEvent
  MaxTime = 2
  ForegroundTimeout = 0
  BackgroundTimeout = 1
  MaxRestarts = 1
SYMMETRY Symmetry
INVARIANTS
  TypeOK
  SessionsConsistent
  NoEventIndexSkipped
  NewSessionHonoured
  NoStaleSession
  SessionsFormChain
  SavedIsNotForgotten
