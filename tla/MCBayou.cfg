SPECIFICATION FairSpec
CONSTANTS
  NumServers = 2
  None = None
  k1 = k1
  k2 = k2
  Clients = {k1, k2}
  Readers = {k2}
  ServerOf <- TwoServers
  Warm = FALSE
  MaxEach = 2
  MaxRequests = 3
  MaxSevers = 1
INVARIANT TypeOK
INVARIANT NoGaps
INVARIANT AntiEntropyGoesOn
INVARIANT AckedKept
INVARIANT ChkInvariants
INVARIANT CommittedOnce
PROPERTY Converges
CHECK_DEADLOCK FALSE
