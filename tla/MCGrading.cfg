SPECIFICATION FairSpec
CONSTANTS
  None = None
  MaxSubmissions = 2
INVARIANT TypeOK
INVARIANT LeftoversDie
INVARIANT OwnVerdict
INVARIANT ScoresAreEarned
PROPERTY GradingEnds
CHECK_DEADLOCK FALSE
