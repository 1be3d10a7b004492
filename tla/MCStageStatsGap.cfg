SPECIFICATION GapSpec
CONSTANTS
    Candidates = {k1}
    Pipeline <- ShortLadder
    Movers = {m1}
    Hooks = {}
    Sweeps = {cron}
    Overlap = 1
    Lookback = 2
    Lag = 1
    MaxMoves = 2
    MaxTime = 3
INVARIANTS LostOnlyIfUnswept
