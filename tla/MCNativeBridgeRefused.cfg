SPECIFICATION FairSpec
CONSTANTS
  c1 = c1  c2 = c2  c3 = c3
  Calls <- TwoCalls
  Handshake = Handshake
  None = None
  HostAccepts = FALSE
  MaxCancels = 0
  MaxOversized = 0
  MaxStops = 0
PROPERTIES
  HandshakeEnds
