CONSTANTS
  Block <- MCBlock
  LocalMac <- MCLocalMac
  SIGNAL_MIN <- MCSignalMin
  Messages <- MCMessages
  Networks <- MCNetworks
  Network <- MCNetwork
  Destinations <- MCDestinations
  SenderMac <- MCSenderMac
  Nonces <- MCNonces
  Reserved <- MCReserved
  Radiotaps <- MCRadiotaps
  NextReads <- MCNextReads
  Trailers <- MCTrailers
  Alterations <- MCAlterations
SPECIFICATION Spec
INVARIANTS TypeOK DeliveredIntact FittingAccepted FilterExact
