SPECIFICATION Spec
CONSTANTS
  GroupIDs <- MCGroupIDs
  InitGroups = {}
  Tabs <- ThreeTabs
  Keys <- MCKeys
  Plans <- NewGroup
  Ungrouped = Ungrouped
  Closed = Closed
  Unassigned = Unassigned
  None = None
  MaxEdits = 0
  MaxTries = 1
CHECK_DEADLOCK FALSE
INVARIANTS
  UndoneRightAway
