SPECIFICATION Spec
CONSTANTS
  Conn = {c1, c2}
  Event = {e1, e2, e3}
  RowId = {1, 2, 3}
  Session = {s1, s2}
  NoSession = NoSession
  BatchSize = 2
INVARIANTS
  IdsFollowInsertion
  DropsOnlyAfterFailure
PROPERTIES
  DeletesWhatWasRead
