SPECIFICATION RequestsSpec
CONSTANTS
  Parts = {"sync", "call", "link", "prewarm", "snapshot", "rate", "moves", "write", "names", "search"}
  TTL = 3  MaxDelay = 1  MaxEdits = 2  MaxFaults = 1  MaxInFlight = 3
  Dialled = {"a", "b", "c"}  AlarmIn = 2  MaxDropped = 1
  Added = {"a"}  Requests = {1, 2, 3}  Resolvers = {1}  MaxAddFaults = 1  MaxExpiries = 1
  Loads = {1, 2}  Life = 2  FetchTime = 1  MaxVersions = 3  MaxClock = 5
  CallRequests = {1, 2, 3}  Phones = {"p", "q"}  CallLimit = 2  Window = 3  Dedup = 2  Second = 2  MaxCallTime = 4
  Length = 4  Ring = 2  Trigger = 2  Prewarms = {1, 2}  Unsure = {4}
  CandidateJobs = {1, 2}  Consultants = {"x", "y"}  AnsweredCalls = {"cx", "cn"}  CallBookings = {"b"}  MaxMoves = 1
  Known = {1, 2, 3}  NameScores = {0, 38, 45, 95}  Boosts = {0, 25}  UniqueGap = 8  AutoFloor = 92
  TruncationRatio = 85  Fanout = 2  WideCap = 3  MaxOptions = 2  MaxFailed = 1
  Searched = {1, 2, 3}  InitialRows = {1}  Linked = {2, 3}  Boost = 25  Limit = 1  PoolLimit = 2  PoolCap = 3  MaxLog = 3
  Batch <- AllAdded  By <- ConsultantOf
  CallerOf <- AnsweredBy  Offers <- FullPipeline
  NameScore <- ScoreOf  Profiles <- SomeProfiles
INVARIANT RequestTypesOK
INVARIANT QuietEditsConverge
INVARIANT CallRecordHolds
INVARIANT AttributionAgrees
INVARIANT NextWasWarmed
INVARIANT ShownInTime
INVARIANT RateHeld
INVARIANT AssistantIsRight
PROPERTY StageMovesHold
PROPERTY ComesToRest
CHECK_DEADLOCK FALSE
