SPECIFICATION FairSpec
CONSTANTS
    Symbols <- MCSymbols
    Jobs <- MCSymbols
    SymbolOf <- MCSymbolOf
    Results <- MCResults
    MaxConsecutive = 2
    MaxHourly = 2
    MaxDrawdown = 3
    Cooldown = 1
    SymbolMax = 2
    SymbolCooldown = 2
    Hour = 1
    Day = 2
    MaxOutcomes = 2
    MaxBacklog = 1
    None = None
INVARIANTS
    SafeWhileRunning
    PauseOpensBacklogOnly
PROPERTIES
    EventuallyResumes
