SPECIFICATION Spec
CONSTANTS
    a = a
    b = b
    c = c
    d = d
    Signals <- MCSignals
    Symbols <- MCSymbols
    Channels <- MCChannels
    Groups <- MCGroups
    Directions <- MCDirections
    SymbolOf <- MCSymbolOf
    ChannelOf <- MCChannelOf
    DirectionOf <- MCDirectionOf
    GroupsOf <- MCGroupsOf
    BadLevels = {}
    RiskBlocked = {}
    Configured <- MCChannels
    Confidence = {60, 80}
    MinConfidence <- MCMinConfidence
    FreeConfidence = 100
    ChannelMax <- MCChannelMax
    MaxPerGroup = 1
    MaxPerSymbol = 2
    Cooldown <- MCCooldown
    StaleAfter <- MCStaleAfter
    MinLifespan <- MCMinLifespan
    MaxHold <- MCMaxHold
    AgeCap = 3
    MaxRetries = 1
    QueueMax = 2
    Copies <- MCCopies
    FreeLimits = {}
    InitialFreeLimit = 0
    AIModes = {TRUE}
    QueueKinds = {TRUE}
    CleanupEvery = 2
    NoLock = NoLock
INVARIANTS
    OnePositionPerSymbol
    ChannelCapRespected
    CorrelationLimitRespected
PROPERTIES
    CooldownRespected
    NeverAnnouncedTwice
