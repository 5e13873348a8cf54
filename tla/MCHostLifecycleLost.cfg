SPECIFICATION Spec
CONSTANTS
  a = a  b = b
  Clients = {a}
  Addresses = {1, 2}
  None = None
  MaxHosts = 2
  MaxRetries = 2
  MaxCrashes = 0
  MaxErrors = 0
  MaxWriteErrors = 0
  MaxRemoveErrors = 0
  MaxWorkerStops = 1
PROPERTIES
  StaysPublished
CHECK_DEADLOCK FALSE
