SPECIFICATION FairSpec
CONSTANTS
  Topic = {t1}
  Client = {c1}
  Local = local
  Worker = {w1, w2}
  Timer = timer
  Conn = conn
  Free = free
  NoEntry = none
  NoJob = nojob
  SubLifetime = 3
  Interval = 2
  NoExpire = 100
  UnknownUnsubOk = TRUE
  MaxRequests = 3
  MaxFailures = 0
  MaxDrops = 1
PROPERTY UnusedIsRemoved
