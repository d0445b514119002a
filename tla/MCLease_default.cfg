SPECIFICATION FairSpec
CONSTANTS
  Topic = {t1}
  App = {a1}
  Ticker = Ticker
  Connector = Connector
  SubLifetime <- ShortLifetime
  Interval = 1
  NoEntry = NoEntry
  NoTopic = NoTopic
  Free = Free
  MaxLosses = 3
  MaxInbox = 1
  BridgeLifetime <- LongLifetime
  MaxRestarts = 1
INVARIANT TypeOK
PROPERTY ExpiresOnlyIfGivenUp SubscribedIsServed GivenUpIsForgotten
