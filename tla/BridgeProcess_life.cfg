CONSTANTS
  EnableIPv6 = TRUE
  MaxFailures = 1
  MaxDrops = 1
  MaxReconnects = 2
  Platforms = {"linux", "espidf"}
  PahoHoldsMutex = FALSE
  MaxCalls = 2
SPECIFICATION FairSpec
INVARIANTS TypeOK StartedConnected NoOrphanThreads
PROPERTIES AbortsOnlyAtEdges TerminationCompletes FatalErrorRestarts
CHECK_DEADLOCK FALSE
