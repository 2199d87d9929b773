SPECIFICATION FairSpec
CONSTANTS
  s1 = s1
  s2 = s2
  g1 = g1
  v1 = v1
  v2 = v2
  k = k
  Setters = {s1, s2}
  Getters = {}
  Keys = {k}
  Values = {v1}
  Unset = Unset
  N = 3
  PoolSz = 2
  None = None
PROPERTY EventuallyServiced
CHECK_DEADLOCK FALSE
