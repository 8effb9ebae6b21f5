SPECIFICATION ServiceSpec
CONSTANTS
  Parts = {"batch"}
  None = None
  Batches <- MCFacelessPairs
  BatchPolicies <- MCPolicies
  Requests = {r1, r2}
  Batch <- MCBatch
  RequestCases <- MCRequestCases
  JobCases <- MCJobCases
  Users = {1, 2}
  Registered <- MCRegistered
  AsInteger <- MCAsInteger
  Permits = 1
  MaxSetbacks = 1
  Submissions <- MCSubmissions
  Nobody = Nobody
  SubmissionCases <- MCCases
  MaxActive = 1
  InflightLimit = 2
  RateLimit = 2
  MaxRouteTroubles = 1
  Frames <- MCFrames
  NoEar = NoEar
  Open = Open
  MinFrames = 4
  MaxFrames = 5
  Asked = 2
  Loads <- MCLoads
  Pause = 6
  MaxScaleMishaps = 1
INVARIANT ReasonIsOwn

CHECK_DEADLOCK FALSE
