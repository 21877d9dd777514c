CONSTANTS
    p1 = p1
    p2 = p2
    Providers = {p1}
    Pots = {"treasury"}
    Inflows = {10, 50}
    Fees = {12}
    MinSwap = 10
    FlushMin = 2
    FlushEvery = 2
    Faults = {"unread", "thrown", "landed", "failed", "crash", "torn"}
    AnyTime = TRUE
    MaxInflows = 2
    MaxFees = 1
    MaxFaults = 2
SPECIFICATION FairAgentSpec
INVARIANTS OnlyNew CreditedArrived
PROPERTIES PotsFlushed
