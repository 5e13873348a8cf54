SPECIFICATION Spec
CONSTANTS
  GroupIDs <- MCGroupIDs
  InitGroups <- TwoGroups
  Tabs <- ThreeTabs
  Keys <- MCKeys
  Plans <- MCPlans
  Ungrouped = Ungrouped
  Closed = Closed
  Unassigned = Unassigned
  None = None
  MaxEdits = 2
  MaxTries = 3
CHECK_DEADLOCK FALSE
INVARIANTS
  TypeOK
  ReturnedMeansBack
  ReportIsHonest
  RetriesSuffice
