SPECIFICATION FairSpec
CONSTANTS
  Jobs = {j1, j2}
  NoJob = NoJob
  Handlers = {h1, h2}
  Workers = {w1}
  Slots = {s1}
  Routes = {"verify_async"}
  BatchSize = 1
  EncodePermits = 1
  InflightLimit = 3
  MaxQueueSize = 2
  ServiceSlots = 1
  DelayBacklog = 2
  WorkerExpiry = FALSE
  MaxMishaps = 1
CHECK_DEADLOCK FALSE
PROPERTY RestartRestoresInflight
