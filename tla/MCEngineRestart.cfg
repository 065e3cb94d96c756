SPECIFICATION RestartSpec
CONSTANTS
    Loops = {"refresh", "poll", "scan"}
    RefreshTask = "refresh"
    PollTask = "poll"
    Managers = {"spot", "futures", "liq"}
    HistoryMax = 1
PROPERTY
    RestartCompletes
CHECK_DEADLOCK FALSE
