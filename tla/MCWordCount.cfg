SPECIFICATION FairSpec
CONSTANTS
  Words = {"a", "b"}
  NumMappers = 2
  NumReducers = 1
  Home <- MCHome
  Stream <- MCStream
  Timeout = 0
  Killable = {1, 3}
  Suspected = {"down"}
  MaxKills = 1
  MaxRestarts = 0
INVARIANT TypeOK
INVARIANT ExactlyOnce
INVARIANT NothingLost
INVARIANT ExitAfterReading
INVARIANT ExitOnlyAfterAllDone
PROPERTY JobEnds
PROPERTY FailureRepaired
CHECK_DEADLOCK FALSE
