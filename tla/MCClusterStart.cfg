SPECIFICATION FairSpec
CONSTANTS
  NumServers = 3
  Givens <- Topologies
  ListenSleep = 3
  AESleep = 6
  StartSleep = 6
  Slack = 1
INVARIANT TypeOK
INVARIANT ThreadsSurvive
INVARIANT PoolsBuilt
PROPERTY ComesUp
CHECK_DEADLOCK FALSE
