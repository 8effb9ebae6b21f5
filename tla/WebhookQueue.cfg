SPECIFICATION FairSpec
CONSTANTS
  Jobs = {j1, j2, j3}
  Processes = {p1, p2}
  Nothing = Nothing
  QueueSize = 1
  MaxRetries = 2
  MaxCalls = 4
  MaxMishaps = 1
CHECK_DEADLOCK FALSE
INVARIANTS TypeOK SingleDelivery PostsBounded
PROPERTIES StrandedByMishap Settles
