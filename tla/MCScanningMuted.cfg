SPECIFICATION Focused
CONSTANTS
    Symbols <- MCSymbols
    Rank <- MCRank
    Thin = {}
    ChannelOrder <- MCOrder
    ScalpChannels <- MCScalp
    Tier2Excluded <- MCScalp
    Patient = {}
    Sides = {"LONG"}
    Findings <- MCFindings
    Reranked = {"Y"}
    CycleMod = 2
    Tier2Every = 1
    Tier3Every = 2
    MaxConcurrent = 2
    DegradedPairs = 1
    Cooldown <- MCCooldown
    ScalpCap = 1
    Backlog = 1
    NoJob = NoJob
    Scanned = "S"
    ScanContexts <- MCContexts
    Positions <- MCPositions
    MinConfidence <- MCMinConfidence
    MaxSameSide = 1
    Crowd <- MCCrowd
    Pausable = {"SPOT"}
    Asking = {"P", "Q"}
    Frames = {"5m", "1m"}
    Readings <- MCReadings
    Hysteresis = 3
INVARIANT
    NoChannelIsMuted
