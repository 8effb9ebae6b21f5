SPECIFICATION FairSpec
CONSTANTS
  Jobs = {j1, j2}
  NoJob = NoJob
  Handlers = {h1}
  Workers = {w1}
  Slots = {s1, s2}
  Routes = {"verify"}
  BatchSize = 1
  EncodePermits = 1
  InflightLimit = 2
  MaxQueueSize = 2
  ServiceSlots = 1
  DelayBacklog = 3
  WorkerExpiry = FALSE
  MaxMishaps = 1
CHECK_DEADLOCK FALSE
PROPERTIES EveryJobAnswered BatchEnds LegacyPhotoLeaves
