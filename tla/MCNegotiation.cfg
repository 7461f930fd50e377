CONSTANTS
  Devices <- MCDevices
  MaxLost = 2
  MaxInFlight = 2
SPECIFICATION FairSpec
INVARIANT SentToListeners
PROPERTY PublishersRouted
PROPERTY ServicesRecover
