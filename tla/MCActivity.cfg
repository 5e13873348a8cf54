SPECIFICATION Spec
CONSTANTS
  t1 = t1  i1 = i1
  Tabs = {t1, i1}
  Incognito = {i1}
  Kinds = {"tab-activated", "tab-moved"}
  None = None
  MaxSessions = 2
  MaxChanges = 3
  MaxStops = 1
  MaxFaults = 1
CHECK_DEADLOCK FALSE
INVARIANTS
  TypeOK
  OnlyWhatHappened
  CaughtUp
