SPECIFICATION FairSpec
CONSTANTS
  NumServers = 3
  None = None
  k1 = k1
  k2 = k2
  Clients = {k1, k2}
  Readers = {}
  ServerOf <- AtSlaves
  Warm = TRUE
  MaxEach = 1
  MaxRequests = 2
  MaxSevers = 0
INVARIANT CommittedAgree
PROPERTY Converges
CHECK_DEADLOCK FALSE
