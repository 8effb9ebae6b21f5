SPECIFICATION ServiceSpec
CONSTANTS
  Parts = {"batch", "verify", "routes", "verdict", "scale"}
  None = None
  Batches <- MCBatches
  BatchPolicies <- MCPolicies
  Requests = {r1, r2}
  Batch <- MCBatch
  RequestCases <- MCRequestCases
  JobCases <- MCJobCases
  Users = {1, 2}
  Registered <- MCRegistered
  AsInteger <- MCAsInteger
  Permits = 1
  MaxSetbacks = 1
  Submissions <- MCSubmissions
  Nobody = Nobody
  SubmissionCases <- MCCases
  MaxActive = 1
  InflightLimit = 1
  RateLimit = 1
  MaxRouteTroubles = 1
  Frames <- MCFrames
  NoEar = NoEar
  Open = Open
  MinFrames = 4
  MaxFrames = 5
  Asked = 2
  Loads <- MCLoads
  Pause = 6
  MaxScaleMishaps = 1
INVARIANTS ServiceTypeOK BatchAgrees NothingUnchecked ReplayFlagged LogsAccounted SlotsAccounted WindowSet LiveEarned
PROPERTIES WaiterHears ShrinkExplained Converges
CHECK_DEADLOCK FALSE
