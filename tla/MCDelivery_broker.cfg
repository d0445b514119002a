SPECIFICATION FairSpec
CONSTANTS
  c1 = c1
  bridge = bridge
  data = data
  rssi = rssi
  probe = probe
  one = one
  all = all
  Client = {c1}
  Bridge = bridge
  Topic = {data}
  RssiTopic = rssi
  ProbeTopic = probe
  EmptyTopic = ""
  Filter = {one, all}
  Matching <- MatchTable
  Reported = {"PROBE_RES", "PUB"}
  MaxMessages = 1
  MaxRequests = 1
  MaxLosses = 1
INVARIANT TypeOK CallsWithinOverlap
PROPERTY ReachesSubscribers Drains
CHECK_DEADLOCK FALSE
