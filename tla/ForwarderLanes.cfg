CONSTANTS
    Lanes = {"atom", "pol"}
    Txs <- MCTxs
    Fundings = {12}
    Reserve = 2
    MinStart = 5
    Fee = 1
    Tries = 2
    MaxFundings = 1
    MaxFaults = 0
    MaxPolls = 0
    MaxMisreads = 0
    MaxFalse = 0
    MaxCrashes = 0
    MaxFees = 0
SPECIFICATION FairSpec
PROPERTY CycleEnds
