SPECIFICATION FairSpec
CONSTANT
  MaxCalls = 4
INVARIANT TypeOK IdleIsClean
PROPERTY ClockSetOnlyWhenAsked CallReturns
CHECK_DEADLOCK FALSE
