CONSTANTS
    Requests = {1, 2}
    Recurring = {}
    Amounts = {1, 10}
    Prices = {1, 2}
    Precision = 5
    InitialAkt = 12
    MinMint = 10
    SpreadBps = 1000
    WarnBps = 9500
    HaltBps = 5000
    MinEpochBlocks = 1
    MaxEpochBlocks = 1
    MaxRecords = 1
    MaxAttempts = 2
SPECIFICATION ImportSpec
PROPERTY BurnResolves
