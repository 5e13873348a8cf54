SPECIFICATION FairSpec
CONSTANTS
  c1 = c1  c2 = c2
  p1 = p1  p2 = p2
  Clients = {c1, c2}
  PreviewIDs = {p1}
  GroupIDs <- MCGroupIDs
  InitGroups <- OneGroup
  Tabs <- TwoTabs
  Keys <- MCKeys
  Plans <- PlansForTwo
  Ungrouped = Ungrouped
  Closed = Closed
  Unassigned = Unassigned
  None = None
  MaxPreviews = 1
  MaxEdits = 0
  MaxFaults = 0
  MaxCancels = 2
  MaxExits = 1
INVARIANTS
  RestoredMeansRestored
PROPERTIES
  CallsReturn
