SPECIFICATION MCSpec
CONSTANTS
  Null = Null
  Second = 2
  MaxChars = 8
  MaxInt = 40
  Numbers <- MCNumbers
  Literals <- MCLiterals
  Durations <- MCDurations
  Units <- MCUnits
  Now = 40
  MaxLost = 1
  MaxChanges = 1
  MaxFaults = 1
  MaxKills = 1
  MaxHosts = 1
  MaxOthers = 1
INVARIANTS
  ClosesOnlyApproved
  StatusIsTrue
  ReadAsWritten
  ListedAsAsked
  FailedInstallRestores
  ReadableManifest
  UninstallRemovesOurs
PROPERTIES
  KeepsWhatIsNotOurs
