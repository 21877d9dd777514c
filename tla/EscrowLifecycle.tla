------------------------- MODULE EscrowLifecycle -------------------------
(***************************************************************************)
(* What x/escrow promises about the STATES of accounts and payments,       *)
(* without any amount.  An account pays a set of payments by the block.    *)
(* Every keeper operation first settles the account: the payments that are *)
(* due are charged, and either all of them are paid or the whole account   *)
(* is overdrawn.  Which payments the deposits cannot cover is left open    *)
(* here; module Escrow computes it and implements this specification.      *)
(***************************************************************************)
EXTENDS FiniteSets

CONSTANTS
    Accounts,   \* escrow accounts that own payments (scope "deployment")
    Payments,   \* payment identifiers
    AccountOf,  \* the account a payment identifier names
    Reached     \* account -> the accounts whose store key begins with its key

ASSUME AccountOfAssumption ==
    /\ AccountOf \in [Payments -> Accounts]
    /\ Reached \in [Accounts -> SUBSET Accounts]
    /\ \A a \in Accounts : a \in Reached[a]

VARIABLES
    acct,        \* [Accounts -> stored account state]
    pay,         \* [Payments -> stored payment state]
    settledNow,  \* accounts whose SettledAt is the current block height
    debt         \* accounts whose Funds[0] is negative

escrowVars == <<acct, pay, settledNow, debt>>

States == {"none", "open", "closed", "overdrawn"}

LifecycleInit ==
    /\ acct = [a \in Accounts |-> "none"]
    /\ pay = [p \in Payments |-> "none"]
    /\ settledNow = {}
    /\ debt = {}

-----------------------------------------------------------------------------
(* accountSettle *)

\* accountPayments scans the store from the key of the account, which ends in
\* the deployment's number without a separator: the payments of deployment 12
\* are found for deployment 1 of the same owner as well.
Collectable(a) == {p \in Payments : AccountOf[p] \in Reached[a]}

\* The payments a settlement charges.  An open payment is collected only when
\* blocks have passed since the last settlement, and never for an overdrawn
\* account, which keeps its SettledAt.
Due(a) ==
    {p \in Collectable(a) :
        \/ pay[p] = "overdrawn"
        \/ pay[p] = "open" /\ acct[a] = "open" /\ a \notin settledNow}

\* "short" are the payments the deposits of the primary denomination do not
\* cover, "left" those that the uakt fallback does not cover either.
Outcomes(a) == {o \in [short : SUBSET Due(a), left : SUBSET Due(a)] :
                   o.left \subseteq o.short}

Overdraws(o) == o.left # {}

\* Payments after a settlement with outcome o; those in "closing" are closed by
\* the operation when they come out of the settlement open.
PayAfter(a, o, closing) ==
    [p \in Payments |->
        IF p \notin Due(a) THEN pay[p]
        ELSE IF Overdraws(o) THEN "overdrawn"
        ELSE IF p \in closing THEN "closed" ELSE "open"]

MarkSettled(a) ==
    settledNow' = IF acct[a] = "open" THEN settledNow \cup {a} ELSE settledNow

Charge(a, o) ==
    /\ MarkSettled(a)
    /\ debt' = IF o.short # {} THEN debt \cup {a} ELSE debt

-----------------------------------------------------------------------------
(* The keeper operations *)

\* Blocks advance: no account has been settled in the new block.
NextBlock ==
    /\ settledNow' = {}
    /\ UNCHANGED <<acct, pay, debt>>

AccountCreate(a) ==
    /\ acct[a] = "none"
    /\ acct' = [acct EXCEPT ![a] = "open"]
    /\ settledNow' = settledNow \cup {a}
    /\ UNCHANGED <<pay, debt>>

\* A deposit to an open account is only stored; in the primary denomination it
\* forgives the negative balance a fallback settlement left behind.
DepositOpen(a) ==
    /\ acct[a] = "open"
    /\ debt' \in {debt, debt \ {a}}
    /\ UNCHANGED <<acct, pay, settledNow>>

\* Variant: the account and its payments are reopened by the deposit.
DepositReopens(a) ==
    /\ acct[a] = "overdrawn"
    /\ \E o \in Outcomes(a) :
        /\ pay' = PayAfter(a, o, {})
        /\ acct' = IF Overdraws(o) THEN acct ELSE [acct EXCEPT ![a] = "open"]
        /\ debt' = IF o.short # {} THEN debt \cup {a} ELSE debt \ {a}
    /\ UNCHANGED settledNow

\* A deposit to an overdrawn account settles it: when nothing is left unpaid
\* the account and its payments are closed.
DepositOverdrawn(a) ==
    /\ acct[a] = "overdrawn"
    /\ \E o \in Outcomes(a) :
        /\ pay' = PayAfter(a, o, Collectable(a))
        /\ acct' = IF Overdraws(o) THEN acct ELSE [acct EXCEPT ![a] = "closed"]
        /\ debt' = IF o.short # {} THEN debt \cup {a} ELSE debt \ {a}
    /\ UNCHANGED settledNow

AccountDeposit(a) == DepositOpen(a) \/ DepositOverdrawn(a)

AccountClose(a) ==
    /\ acct[a] \in {"open", "overdrawn"}
    /\ IF a \in debt
       THEN /\ acct' = [acct EXCEPT ![a] = IF @ = "open" THEN "closed" ELSE @]
            /\ UNCHANGED <<pay, settledNow, debt>>
       ELSE \E o \in Outcomes(a) :
            /\ Charge(a, o)
            /\ pay' = PayAfter(a, o, Collectable(a))
            /\ acct' = [acct EXCEPT ![a] = IF Overdraws(o) THEN "overdrawn"
                                           ELSE IF @ = "open" THEN "closed"
                                           ELSE @]

\* The settlement is kept in the account but not in the payments it charged:
\* PaymentCreate drops the list accountSettle returns.
PaymentCreate(p) ==
    LET a == AccountOf[p]
    IN  /\ acct[a] \in {"open", "overdrawn"}
        /\ a \notin debt
        /\ pay[p] = "none"
        /\ \E o \in Outcomes(a) : ~Overdraws(o) /\ Charge(a, o)
        /\ pay' = [pay EXCEPT ![p] = "open"]
        /\ UNCHANGED acct

\* The body PaymentWithdraw, PaymentClose and AccountSettle share once the account is settled.
SaveSettled(a, o, closing) ==
    /\ Charge(a, o)
    /\ pay' = PayAfter(a, o, closing)
    /\ acct' = [acct EXCEPT ![a] = IF Overdraws(o) THEN "overdrawn" ELSE @]

SettleAndSave(a, closing) == \E o \in Outcomes(a) : SaveSettled(a, o, closing)

\* In debt the settlement reports an overdraft without touching anything.
\* Nothing is paid either when this settlement overdraws the account.  Otherwise
\* the payment must be among those collected: the code panics, and the transaction
\* is reverted, when the account was settled in this block.
PaymentWithdraw(p) ==
    LET a == AccountOf[p]
    IN  /\ acct[a] \in {"open", "overdrawn"}
        /\ pay[p] = "open"
        /\ IF a \in debt THEN UNCHANGED escrowVars
           ELSE \E o \in Outcomes(a) : (Overdraws(o) \/ p \in Due(a)) /\ SaveSettled(a, o, {})

PaymentClosable(p) ==
    /\ acct[AccountOf[p]] \in {"open", "overdrawn"}
    /\ pay[p] \in {"open", "overdrawn"}

PaymentClose(p) ==
    LET a == AccountOf[p]
    IN  /\ PaymentClosable(p)
        /\ IF a \in debt THEN UNCHANGED escrowVars
           ELSE SettleAndSave(a, {p})

AccountSettle(a) ==
    /\ acct[a] \in {"open", "overdrawn"}
    /\ IF a \in debt THEN UNCHANGED escrowVars ELSE SettleAndSave(a, {})

LifecycleNext ==
    \/ NextBlock
    \/ \E a \in Accounts :
        AccountCreate(a) \/ AccountDeposit(a) \/ AccountClose(a) \/ AccountSettle(a)
    \/ \E p \in Payments : PaymentCreate(p) \/ PaymentWithdraw(p) \/ PaymentClose(p)

LifecycleSpec == LifecycleInit /\ [][LifecycleNext]_escrowVars

-----------------------------------------------------------------------------
(* Properties *)

LifecycleTypeOK ==
    /\ acct \in [Accounts -> States]
    /\ pay \in [Payments -> States]
    /\ settledNow \subseteq Accounts
    /\ debt \subseteq Accounts

\* No other account's settlement collects the payments of a.
Untouched(a) == \A b \in Accounts : a \in Reached[b] => b = a

\* An overdraft is all or nothing.  Whatever subset of its payments an account
\* could not cover, the account and every payment of it that is not closed are
\* overdrawn together, so the next deposit settles all of them (keeper.go
\* accountSettle, AccountDeposit).  The first half asks that no other account
\* collects the account's payments, the second also that it collects no others'.
OverdrawnTogether ==
    \A p \in Payments :
        /\ Untouched(AccountOf[p]) /\ pay[p] = "overdrawn" => acct[AccountOf[p]] = "overdrawn"
        /\ /\ Untouched(AccountOf[p]) /\ Reached[AccountOf[p]] = {AccountOf[p]}
           /\ acct[AccountOf[p]] = "overdrawn"
           => pay[p] # "open"

\* An overdrawn account owes something: until it is topped up accountSettle
\* stops at the negative balance, which is what makes a second close, withdraw
\* or PaymentClose of it leave it as it is.
OverdrawnInDebt == \A a \in Accounts : acct[a] = "overdrawn" => a \in debt

\* No payment outlives its account's record.
PaymentHasAccount ==
    \A p \in Payments : pay[p] # "none" => acct[AccountOf[p]] # "none"

LifecycleInv ==
    LifecycleTypeOK /\ OverdrawnTogether /\ OverdrawnInDebt /\ PaymentHasAccount

\* Closed is final for accounts and payments, and an overdrawn account never
\* serves again: the only way out of overdrawn is closed.  The same holds of an
\* overdrawn payment unless another account collects it and can pay.
NoRevival ==
    [][/\ \A a \in Accounts :
            /\ acct[a] = "closed" => acct'[a] = "closed"
            /\ acct[a] = "overdrawn" => acct'[a] \in {"overdrawn", "closed"}
       /\ \A p \in Payments :
            /\ pay[p] = "closed" => pay'[p] = "closed"
            /\ Untouched(AccountOf[p]) /\ pay[p] = "overdrawn"
                 => pay'[p] \in {"overdrawn", "closed"}
      ]_escrowVars
=============================================================================
