CONSTANTS
    NoAddress = NoAddress
    Torn = Torn
    Dialect = "cpu"
    Addresses = {a1, a2}
    MinerIds = {7, 8}
    Jobs = {j1, j2}
    MaxUnanswered = 2
    MaxJobs = 1
    MaxRequests = 3
    MaxNotices = 2
    MaxBreaks = 1
SPECIFICATION FairSpec
CHECK_DEADLOCK FALSE
INVARIANTS AnswersMatched CreditIsEarned
PROPERTIES AcceptedIsCredited
