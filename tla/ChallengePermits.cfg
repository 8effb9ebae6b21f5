SPECIFICATION Spec
CONSTANTS
  Challenges = {k1}
  Connections = {c1, c2}
  Requests = {r1, r2}
  Tokens = {t1}
  Processes = {p1, p2}
  None = None
  MaxConcurrent = 1
  MaxMishaps = 1
CHECK_DEADLOCK FALSE
INVARIANT PermitsReturned
