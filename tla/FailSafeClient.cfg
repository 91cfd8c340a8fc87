SPECIFICATION FailSafeSpec
CONSTANTS
    Fetches = {r1, r2}
    NumServers = 2
    NumRetries = 4
    Timeout = 1
    Interval = 1
    MaxQueue = 3
CHECK_DEADLOCK FALSE
INVARIANT OnePlace
PROPERTY EveryRequestEnds
