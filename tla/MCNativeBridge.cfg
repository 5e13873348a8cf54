SPECIFICATION FairSpec
CONSTANTS
  c1 = c1  c2 = c2  c3 = c3
  Calls <- ThreeCalls
  Handshake = Handshake
  None = None
  HostAccepts = TRUE
  MaxCancels = 1
  MaxOversized = 1
  MaxStops = 1
INVARIANTS
  TypeOK
  RunNeverBlocks
  EndsOnlyAfterCancel
PROPERTIES
  ImplementsRemoteCalls
  CallsEnd
