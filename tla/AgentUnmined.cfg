CONSTANTS
    p1 = p1
    p2 = p2
    Providers = {p1}
    Pots = {"treasury"}
    Inflows = {50}
    Fees = {12}
    MinSwap = 10
    FlushMin = 2
    FlushEvery = 1
    Faults = {"unmined"}
    AnyTime = TRUE
    MaxInflows = 2
    MaxFees = 0
    MaxFaults = 1
SPECIFICATION AgentSpec
INVARIANT OnlyNew
