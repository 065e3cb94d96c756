SPECIFICATION FairSpec
CONSTANTS
    m = m
    l = l
    Trades <- MCBoth
    LimitTrades <- MCLimit
    Prices <- MCPrices
    InitialStop <- MCInitialStop
    Entry <- MCEntry
    BreakEven <- MCBreakEven
    TP1 <- MCTP1
    TP2 <- MCTP2
    TP3 <- MCTP3
    DcaZone <- MCDcaZone
    TrailDistances = {1, 3}
    MinLifespan = 1
    MaxHold = 2
    Fraction <- MCFraction
    AutoModes = {TRUE, FALSE}
    ExchangeFails = TRUE
    None = None
INVARIANTS
    StopFollowsStatus
    ProvenExitKeepsProfit
    OutcomeRecordedOnce
    PositionWithinOrder
PROPERTIES
    DecidedIsRecorded
    ImplementsLifecycle
