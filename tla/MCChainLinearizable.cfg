SPECIFICATION Spec
CONSTANTS
  s1 = s1
  s2 = s2
  g1 = g1
  v1 = v1
  v2 = v2
  k = k
  Setters = {s1, s2}
  Getters = {g1}
  Keys = {k}
  Values = {v1, v2}
  Unset = Unset
  N = 2
  PoolSz = 2
  None = None
SYMMETRY Symmetry
INVARIANTS
  TypeOK
  LoneReplicasAgree
PROPERTY Linearizable
CHECK_DEADLOCK FALSE
