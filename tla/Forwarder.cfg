CONSTANTS
    Lanes = {"atom", "pol"}
    Txs <- MCTxs
    Fundings = {8, 12}
    Reserve = 2
    MinStart = 5
    Fee = 1
    Tries = 2
    MaxFundings = 1
    MaxFaults = 1
    MaxPolls = 1
    MaxMisreads = 1
    MaxFalse = 1
    MaxCrashes = 1
    MaxFees = 1
SPECIFICATION FairSpec
INVARIANTS HistoryIsSent SentOnce
PROPERTIES CycleEndsAlone
