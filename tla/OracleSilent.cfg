CONSTANTS
    Sources = {1, 2}
    InitialSources = {1, 2}
    ParamSets = {{1, 2}, {2}}
    Prices = {1, 2}
    Offsets <- MCOffsets
    BlockTimes = {1, 3}
    MinPriceSources = 1
    MaxStaleness = 2
    MaxDeviationBps = 5000
    TwapWindow = 3
    PriceRetention = 4
    MaxPrune = 2
    FirstWindow = 1
    EpochDuration = 2
    MaxTime = 6
    MaxEntries = 3
SPECIFICATION Spec
CHECK_DEADLOCK FALSE
INVARIANT HaltsWhenStale
