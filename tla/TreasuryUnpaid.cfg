CONSTANTS
    Amounts = {0, 1}
    Confirmations = 2
    Chunk = 2
    MaxBlocks = 5
    MaxReorgs = 0
    MaxFailures = 1
    MaxCrashes = 0
SPECIFICATION WatchSpec
INVARIANT ReducedOncePaid
