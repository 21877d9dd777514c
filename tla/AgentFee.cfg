CONSTANTS
    p1 = p1
    p2 = p2
    Providers = {p1, p2}
    Pots = {"treasury"}
    Inflows = {10}
    Fees = {12}
    MinSwap = 10
    FlushMin = 2
    FlushEvery = 1
    Faults = {}
    AnyTime = FALSE
    MaxInflows = 2
    MaxFees = 1
    MaxFaults = 0
SPECIFICATION AgentSpec
INVARIANT ReservedCovered
