CONSTANTS
  EnableIPv6 = TRUE
  MaxFailures = 0
  MaxDrops = 0
  MaxReconnects = 2
  Platforms = {"linux"}
  PahoHoldsMutex = TRUE
  MaxCalls = 1
SPECIFICATION Spec
INVARIANT CallbackNeverBlocked
CHECK_DEADLOCK FALSE
