CONSTANTS
    d1 = d1
    d12 = d12
    g1 = g1
    g2 = g2
    h12 = h12
    v1 = v1
    v2 = v2
    v3 = v3
    Accounts = {d1}
    Payments <- MCPayments
    AccountOf <- MCAccountOf
    Reached <- MCReached
    DeploymentOf <- MCDeploymentOf
    Groups = {g1}
    Providers = {v1, v2}
    Reclaimed = {}
    OrderMaxBids = 2
    MaxOrders = 2
SPECIFICATION Spec
INVARIANT EndedLeaseIsNotCharged
