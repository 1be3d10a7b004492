SPECIFICATION SyncSpec
CONSTANTS
    c1 = c1
    c2 = c2
    c3 = c3
    j1 = j1
    j2 = j2
    j3 = j3
    Subtasks = {"candidates"}
    Candidates = {c1, c2, c3}
    Malformed = {}
    Profile <- NoneShares
    Cap = 2
    DayLength = 1
    MaxCrashes = 0
    MaxTime = 4
    Jobs = {j1, j2, j3}
    MalformedJobs = {j3}
    MaxFailedJobs = 0
    WatchdogAge = 1
    Calls = {a1, a2}
    Overlap = 4
    MaxDuration = 1
    MaxCallFailures = 0
    MaxDeaths = 0
    MaxCallTime = 0
    k1 = k1
    Movers = {m1}
    Sweeps = {cron}
    SweepOverlap = 1
    Lookback = 2
    Lag = 1
    MaxMoves = 2
    MaxSweepTime = 4
PROPERTIES HugeBacklogDrains
CHECK_DEADLOCK FALSE
