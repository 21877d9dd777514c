CONSTANTS
    r1 = r1
    r2 = r2
    Requests = {r1}
    Signed = {}
    Cancels = FALSE
    Shuts = FALSE
    MaxForeign = 1
    MaxFaults = 0
SPECIFICATION RunBroadcasterSpec
CHECK_DEADLOCK FALSE
PROPERTY SyncTimesOut
