----------------------------- MODULE MCEscrow -----------------------------
(* One account with two payments of different providers, in two              *)
(* denominations, or two accounts with a payment each, the key of one        *)
(* beginning with the key of the other.  With the definitions named Grant a  *)
(* tenant pays from the wallet or from a granter's limit, and a second       *)
(* tenant may use the granter's limit to deposit on the first one's account; *)
(* with those named Wallet there is one tenant, who pays from the wallet.    *)
EXTENDS Escrow

CONSTANTS a1, b1, b12, p1, p2, q1, q12, tenant, friend, granter, v1, v2

\* One account, two payments.
OneAccounts == {a1}
OnePaymentOrder == <<p1, p2>>
OneAccountOf == [p \in {p1, p2} |-> a1]

\* Besides it the accounts of deployments 1 and 12 of the same owner.
AllAccounts == {a1, b1, b12}
AllPaymentOrder == <<p1, p2, q1, q12>>
AllAccountOf == p1 :> a1 @@ p2 :> a1 @@ q1 :> b1 @@ q12 :> b12

MCReached == [a \in Accounts |-> IF a = b1 THEN {b1, b12} ELSE {a}]
MCOwner == [a \in Accounts |-> tenant]
MCProvider == [p \in Payments |-> IF p \in {p1, q1} THEN v1 ELSE v2]

\* The bound of run escrow: either the account that stands alone is used, or
\* the two whose keys collide, and these from the tenant's wallet only.
Within ==
    \/ acct[b1].state = "none" /\ acct[b12].state = "none"
    \/ acct[a1].state = "none" /\ grant = Limits

WalletTenants == {tenant}
WalletWallets == tenant :> [d \in Denoms |-> 3]
WalletSources == {<<"balance">>}

GrantTenants == {tenant, friend}
GrantGranters == <<granter>>
GrantSources == {<<"balance">>, <<"grant", "balance">>}
GrantWallets == (tenant :> [d \in Denoms |-> 2]) @@ (granter :> (Prim :> 2 @@ Akt :> 0))
                  @@ (friend :> [d \in Denoms |-> 0])
GrantLimits == (<<granter, tenant>> :> (Prim :> 1 @@ Akt :> 0))
                 @@ (<<granter, friend>> :> (Prim :> 1 @@ Akt :> 0))

Empty == <<>>
=============================================================================
