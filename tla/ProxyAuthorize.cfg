CONSTANTS
    NoAddress = NoAddress
    Torn = Torn
    Dialect = "gpu"
    Addresses = {a1, a2}
    MinerIds = {7}
    Jobs = {j1}
    MaxUnanswered = 4
    MaxJobs = 2
    MaxRequests = 4
    MaxNotices = 1
    MaxBreaks = 0
SPECIFICATION Spec
INVARIANT CreditedToSubmitter
CHECK_DEADLOCK FALSE
