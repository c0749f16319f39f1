CONSTANTS
    NumPlugins = 1
    NoFactory = {}
    MaxTime = 2
    MaxStarts = 2
    CriticalErrors = 0
    Callers = {c1, c2}
    MaxPid = 2
SPECIFICATION FairSpec
PROPERTIES
    OrphansNeedOverlap
    PluginCallsReturn
    WatchersEnd
CHECK_DEADLOCK FALSE
