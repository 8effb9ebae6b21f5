SPECIFICATION Spec
CONSTANTS
  Jobs = {j1, j2, j3}
  NoJob = NoJob
  Handlers = {h1, h2}
  Workers = {w1, w2}
  Slots = {s1}
  Routes = {"verify_async"}
  BatchSize = 2
  EncodePermits = 1
  InflightLimit = 2
  MaxQueueSize = 1
  ServiceSlots = 1
  DelayBacklog = 2
  WorkerExpiry = TRUE
  MaxMishaps = 1
CHECK_DEADLOCK FALSE
SYMMETRY Symmetry
INVARIANTS TypeOK SettledOnce InflightAccounting AdmissionOvershoot NoLostJob StrayPhotoIsMishap
PROPERTIES AnswerFinal PhotoKeptForWorker ContractSpec
