SPECIFICATION FairSpec
CONSTANTS
  HeaderLen = 3
  Sizes = {1, 2}
  MaxCalls = 3
PROPERTIES
  QueuesOfMessages
  ReplyOfThisCall
  CallReturns
  HandlerEnds
CHECK_DEADLOCK FALSE
