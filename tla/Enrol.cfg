SPECIFICATION FairSpec
CONSTANTS
  Users = {u1}
  Known = {}
  Templates = {t1, t2}
  Handlers = {h1, h2}
  Processes = {p1, p2}
  None = None
  FaissEnabled = TRUE
  MaxMishaps = 1
CHECK_DEADLOCK FALSE
INVARIANTS TypeOK TemplatesBounded NewestKept IndexCovers FaissAnswersFresh
PROPERTIES BareOnlyByCut EnrolmentEnds
