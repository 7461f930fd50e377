CONSTANTS
  Devices <- MCWhole
  MaxLost = 1
  MaxInFlight = 2
SPECIFICATION FairSpec
PROPERTY RequestsRouted
