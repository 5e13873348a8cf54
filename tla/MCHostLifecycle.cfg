SPECIFICATION FairSpec
CONSTANTS
  a = a  b = b
  Clients = {a}
  Addresses = {1, 2}
  None = None
  MaxHosts = 3
  MaxRetries = 1
  MaxCrashes = 1
  MaxErrors = 1
  MaxWriteErrors = 1
  MaxRemoveErrors = 1
  MaxWorkerStops = 1
INVARIANTS
  TypeOK
  NothingLeftBehind
  StartsFewHosts
PROPERTIES
  HostsEnd
  Reconnects
  ClientsEnd
CHECK_DEADLOCK FALSE
