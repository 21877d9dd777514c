CONSTANTS
    Amounts = {0, 1}
    Confirmations = 2
    Chunk = 2
    MaxBlocks = 6
    MaxReorgs = 1
    MaxFailures = 1
    MaxCrashes = 1
SPECIFICATION FairWatchSpec
INVARIANTS BookedOnce
PROPERTIES InflowPaidOut
