\* The executions are interchangeable, and named alike in every part.
SPECIFICATION StatsSpec
CONSTANTS
    Parts = {"log", "push", "weeks", "pipelines", "backfill", "paged"}
    Candidates = {k1}
    Pipeline <- ShortLadder
    Movers = {m1}
    Hooks = {w1}
    Sweeps = {e1, e2}
    Overlap = 1
    Lookback = 2
    Lag = 1
    MaxMoves = 2
    MaxTime = 2
    Pairs = {p1, p2}  Users = {"u"}  Targets = {"prod"}  Reports = {e1, e2}
    Week = 2  Gap = 1  MaxRows = 2  MaxPushTime = 2
    Spring = 313  Autumn = 649  Hours = 1200
    Lists <- JobLists  Interviews = {"Interview"}  Judged <- JudgedMoves
    Invocations = {e1, e2}  ListTTL = 1  Span = 1  MaxEdits = 1  MaxListTime = 3
    Ids = {1, 2, 3, 4}  BatchSize = 2  PageCap = 3
    People = {1, 2, 3, 4, 5}  PerPage = 2  MaxPages = 2  MaxShifts = 2
SYMMETRY Alike
CONSTRAINT Explored
INVARIANTS StatsTypeOK LostOnlyByRevert ReportedWasTrue LogIsRight
PROPERTIES AttributionKept
CHECK_DEADLOCK FALSE
