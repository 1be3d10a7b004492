SPECIFICATION MusicSpec
CONSTANTS
    Halves = {"queue", "gate", "inline"}
    e1 = e1
    Clients = {c1, c2, c3}
    Plays = {p1, p2}
    Enqueues = {e1, e2}
    CooldownPlay = 3
    CooldownEnqueue = 4
    SettleTime = 1
    MaxDefer = 2
    Heartbeat = 5
    MaxQueue = 2
    MaxAttempts = 2
    MaxRestarts = 1
    Throttled = {"toggle"}
    ThrottleTime = 10
    DeliverTimeout = 10
    BurstLimit = 2
    BurstWindow = 6
    MinSpacing = 2
INVARIANT MusicTypesOK
INVARIANT CommandsKept
INVARIANT WakesInTime
INVARIANT DemandCounted
PROPERTY CommandsLand
PROPERTY KeepsTrying
