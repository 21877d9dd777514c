CONSTANTS
    Users = {u1, u2}
    MaxPending = 1
    MaxPerDay = 1
    Ages = FALSE
    Elsewhere = FALSE
    MaxDeposits = 1
    MaxFwdFaults = 0
    MaxRestarts = 0
SPECIFICATION FairAccountsSpec
PROPERTY DepositRegisters
