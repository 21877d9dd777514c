CONSTANTS
    Users = {u1, u2}
    MaxPending = 2
    MaxPerDay = 1
    Ages = TRUE
    Elsewhere = TRUE
    MaxDeposits = 1
    MaxFwdFaults = 1
    MaxRestarts = 1
SPECIFICATION FairAccountsSpec
INVARIANTS ToldIsRegistered FeePerUser
PROPERTIES DepositRegistersInTime
