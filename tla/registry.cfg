SPECIFICATION Spec
CONSTANTS
  Thread = {t1, t2}
  Tracker = {x1, x2, y}
  Namespace = {n1, n2}
  nullptr = nullptr
  x1 = x1
  x2 = x2
  y = y
  n1 = n1
  n2 = n2
  get_namespace <- Namespaces
INVARIANTS
  TypeOK
  ReferencedIsAlive
  DaemonsBelongToTrackers
  DefaultIsRegistered
PROPERTIES
  NamespaceKeepsTracker
  Destroyed
  CallsReturn
