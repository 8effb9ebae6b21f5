SPECIFICATION Spec
CONSTANTS
  Users = {u1}
  Known = {}
  Templates = {t1, t2}
  Handlers = {h1, h2}
  Processes = {p1}
  None = None
  FaissEnabled = TRUE
  MaxMishaps = 0
CHECK_DEADLOCK FALSE
SYMMETRY Symmetry
INVARIANT ReplacedForgotten
