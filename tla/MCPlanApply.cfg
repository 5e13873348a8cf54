SPECIFICATION Spec
CONSTANTS
  c1 = c1  c2 = c2
  p1 = p1  p2 = p2
  Clients = {c1, c2}
  PreviewIDs = {p1, p2}
  GroupIDs <- MCGroupIDs
  InitGroups <- OneGroup
  Tabs <- TwoTabs
  Keys <- MCKeys
  Plans <- PlansForTwo
  Ungrouped = Ungrouped
  Closed = Closed
  Unassigned = Unassigned
  None = None
  MaxPreviews = 2
  MaxEdits = 1
  MaxFaults = 1
  MaxCancels = 0
  MaxExits = 0
SYMMETRY Symmetry
INVARIANTS
  TypeOK
  AppliedAtMostOnce
  OneChangeAtATime
  WorksOnThePreviewedState
