CONSTANTS
    a1 = a1
    b1 = b1
    b12 = b12
    p1 = p1
    p2 = p2
    q1 = q1
    q12 = q12
    tenant = tenant
    friend = friend
    granter = granter
    v1 = v1
    v2 = v2
    Akt = uakt
    Accounts <- AllAccounts
    PaymentOrder <- AllPaymentOrder
    AccountOf <- AllAccountOf
    Reached <- MCReached
    Owner <- MCOwner
    Provider <- MCProvider
    Prim = uact
    Tenants <- WalletTenants
    Granters <- Empty
    Limits <- Empty
    Wallets <- WalletWallets
    SourceLists <- WalletSources
    Prices = {2}
    Dec = 2
    FeeParts = 3
    Rates = {2}
    Amounts = {1, 2}
    MaxHeight = 4
SPECIFICATION Spec
INVARIANT PaymentsAreOfAccount
CONSTRAINT Within
CHECK_DEADLOCK FALSE
