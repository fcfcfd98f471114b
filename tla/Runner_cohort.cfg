SPECIFICATION FairSpec
CONSTANTS
  p = p
  q = q
  Runners = {p}
  Setups <- Long
INVARIANT CohortDecides
PROPERTY Settles
CHECK_DEADLOCK FALSE
