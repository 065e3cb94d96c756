SPECIFICATION TradeFlow
CONSTANTS
    Conns = {"a", "b"}
    CriticalConns = {"a"}
    RecycleEvery = 2
    AttemptMod = 2
    Series = {"s"}
    Streamed = {"s"}
    SeedLimit = 5
    GapBuffer = 3
    MaxGapAge = 3
    MaxFill = 1
    BulkLimit = 2
    Missing = Missing
    CsMaxTime = 5
    CsMaxRestarts = 2
    Symbols = {"a", "b", "c"}
    FuturesAnswers <- MCFutures
    SpotAnswers <- MCSpot
    TierOneCount = 1
    TierTwoCount = 2
    WsLimit = 1
    PruneEnabled = TRUE
    Loops = {"refresh", "poll", "scan"}
    RefreshTask = "refresh"
    PollTask = "poll"
    Managers = {"spot", "futures", "liq"}
    HistoryMax = 1
    LastUpdate = 3
    BatchSize = 2
    SendAttempts = 3
    MaxPolls = 2
    Watched = {"g", "w"}
    Gems = {"g"}
    Interval <- MCInterval
    Trades = {"t1", "t2"}
    Combo <- MCCombo
    Window = 1
    MinSamples = 1
    HardRate = 25
    SoftRate = 45
    FilterWired = FALSE
    MaxViews = 1
    Intervals = {"1m", "5m"}
    Minutes <- MCMinutes
    Analysed = "1m"
    Lookback = 4
    CvdHistory = 4
    ClosePrices = {1, 2}
    CvdValues = {0, 1}
    MaxMinute = 4
    LiqHistory = 2
    LiqWindow = 1
    Flood = 3
    OiReadings = {1000, 1006, 1012}
    OiHistory = 3
    OiLookback = 2
    Headlines = {"ban", "listing"}
    Coins = {"BTC", "ETH"}
    DedupTtl = 2
    IndexValues = {15, 18, 22, 85}
    FearBelow = 20
    GreedAbove = 80
    Unseen = Unseen
    GemPairs = {"p", "q"}
    Candidates <- MCCandidates
    Chains = {"none", "whale"}
    Caps = {0, 1, 2}
    FirstCap = 1
    MaxRange = 40
    GemInterval = 1
    GemMinConfidence = 55
INVARIANT
    CvdOnTheGrid
CHECK_DEADLOCK FALSE
