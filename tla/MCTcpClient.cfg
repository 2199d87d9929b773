SPECIFICATION Spec
CONSTANTS
  t1 = t1
  t2 = t2
  Threads = {t1, t2}
  PoolSz = 2
  None = None
SYMMETRY Symmetry
INVARIANTS
  TypeOK
  SocketExclusive
  ReplyMatchesRequest
  ExhaustedOnlyWhileBuilding
CHECK_DEADLOCK FALSE
