SPECIFICATION FairSpec
CONSTANTS
    a = a
    b = b
    c = c
    d = d
    Signals <- MCContenders
    Symbols <- MCSymbols
    Channels <- MCChannels
    Groups <- MCGroups
    Directions <- MCDirections
    SymbolOf <- MCSymbolOf
    ChannelOf <- MCChannelOf
    DirectionOf <- MCDirectionOf
    GroupsOf <- MCGroupsOf
    BadLevels = {}
    RiskBlocked = {}
    Configured <- MCChannels
    Confidence = {60, 80}
    MinConfidence <- MCMinConfidence
    FreeConfidence = 75
    ChannelMax <- MCChannelMax
    MaxPerGroup = 2
    MaxPerSymbol = 2
    Cooldown <- MCCooldown
    StaleAfter <- MCStaleAfter
    MinLifespan <- MCMinLifespan
    MaxHold <- MCMaxHold
    AgeCap = 3
    MaxRetries = 2
    QueueMax = 1
    Copies <- MCOneCopy
    FreeLimits = {0, 1}
    InitialFreeLimit = 1
    AIModes = {TRUE}
    QueueKinds = {TRUE, FALSE}
    CleanupEvery = 2
    NoLock = NoLock
PROPERTIES
    LockReleased
    EventuallyDecided
