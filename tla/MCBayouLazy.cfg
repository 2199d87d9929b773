SPECIFICATION Spec
CONSTANTS
  NumServers = 2
  None = None
  k1 = k1
  k2 = k2
  Clients = {k1, k2}
  Readers = {k1, k2}
  ServerOf <- TwoServers
  Warm = FALSE
  MaxEach = 1
  MaxRequests = 2
  MaxSevers = 0
INVARIANT AckedSurvives
CHECK_DEADLOCK FALSE
