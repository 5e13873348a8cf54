SPECIFICATION Spec
CONSTANTS
  t1 = t1  t2 = t2
  c1 = c1
  Clients = {c1}
  Tabs = {t1, t2}
  Urls = {"here", "ignored", "denied"}
  Ignored = {"ignored"}
  Denied = {"denied"}
  Letters = {"a", "b", "n"}
  Texts <- MCTexts
  Openings <- MCOpenings
  NewLine = "n"
  None = None
  SourceLimit = 5
  DiffLimits = {2, 5}
  MaxEntries = 4
  MaxCells = 6
  MaxRevisions = 2
  MaxStops = 1
SYMMETRY Symmetry
CHECK_DEADLOCK FALSE
INVARIANTS
  TypeOK
  OfOneMoment
  ValidMeansSamePage
  RevokedIsInvalid
  DiffIsRight
