SPECIFICATION Spec
CONSTANTS
  c1 = c1  c2 = c2
  p1 = p1  p2 = p2
  Clients = {c1}
  PreviewIDs = {p1, p2}
  GroupIDs <- MCGroupIDs
  InitGroups <- TwoGroups
  Tabs <- ThreeTabs
  Keys <- MCKeys
  Plans <- PlansForThree
  Ungrouped = Ungrouped
  Closed = Closed
  Unassigned = Unassigned
  None = None
  MaxPreviews = 2
  MaxEdits = 0
  MaxFaults = 2
  MaxCancels = 0
  MaxExits = 0
INVARIANTS
  CreatedBeforeUse
  RestoredMeansRestored
  AppliedMeansApplied
