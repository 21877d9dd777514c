CONSTANTS
    r1 = r1
    r2 = r2
    Requests = {r1, r2}
    Signed = {r2}
    Cancels = TRUE
    Shuts = TRUE
    MaxForeign = 1
    MaxFaults = 1
SPECIFICATION FairBroadcasterSpec
CHECK_DEADLOCK FALSE
INVARIANTS OnceInOrder AnswerIsTrue
PROPERTIES Returns
