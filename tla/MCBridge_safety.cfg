SPECIFICATION Spec
CONSTANTS
  Topic = {t1, t2}
  Client = {c1, c2}
  Local = local
  Worker = {w1, w2}
  Timer = timer
  Conn = conn
  Free = free
  NoEntry = none
  NoJob = nojob
  SubLifetime = 3
  Interval = 2
  NoExpire = 100
  UnknownUnsubOk = TRUE
  MaxRequests = 4
  MaxFailures = 1
  MaxDrops = 2
SYMMETRY Symmetry
INVARIANT TypeOK UsedIsSubscribed ResubscribeCovers
PROPERTY NoPrematureRemoval ImplementsInterest
