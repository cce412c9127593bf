SPECIFICATION FairSpec
CONSTANTS
  NumEndpoints = 2
  Addresses = {n1, n2}
  Overrides = {n2}
  MaxChanges = 2
  MaxFaults = 1
  None = None
INVARIANTS
  TypeOK
  RouteKept
PROPERTY
  Converges
CHECK_DEADLOCK FALSE
