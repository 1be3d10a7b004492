SPECIFICATION SyncSpec
CONSTANTS
    c1 = c1
    c2 = c2
    c3 = c3
    j1 = j1
    j2 = j2
    j3 = j3
    Subtasks = {"candidates", "jobs", "calls", "sweep"}
    Candidates = {c1, c2, c3}
    Malformed = {c3}
    Profile <- SharesProfile
    Cap = 3
    DayLength = 2
    MaxCrashes = 1
    MaxTime = 3
    Jobs = {j1, j2, j3}
    MalformedJobs = {j3}
    MaxFailedJobs = 2
    WatchdogAge = 1
    Calls = {a1, a2}
    Overlap = 4
    MaxDuration = 1
    MaxCallFailures = 2
    MaxDeaths = 1
    MaxCallTime = 6
    k1 = k1
    Movers = {m1}
    Sweeps = {cron}
    SweepOverlap = 1
    Lookback = 2
    Lag = 1
    MaxMoves = 2
    MaxSweepTime = 4
INVARIANT TypesOK
INVARIANT NothingBehindCursor
INVARIANT BareMeansDenied
INVARIANT OnlyOutageLeavesBehind
PROPERTY BacklogsLand
PROPERTY SweepRecovers
CHECK_DEADLOCK FALSE
