SPECIFICATION Spec
CONSTANTS
  Database = {db1, db2}
  Store = {s1}
  Null = Null
  HttpClients = {c1}
  DefaultClient = DefaultClient
  Url <- MCUrl
  Collectors <- MCCollectors
  Method = {"GET", "POST"}
  Namespace = {n1, n2}
  MaxCalls = 2
  MaxChanges = 2
SYMMETRY Symmetry
INVARIANTS
  StoresAsConfigured
  ClientSetIsUsed
  CollectorUrlKept
CHECK_DEADLOCK FALSE
