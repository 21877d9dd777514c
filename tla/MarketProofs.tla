--------------------------- MODULE MarketProofs ---------------------------
(***************************************************************************)
(* Proofs about the states of escrow accounts and payments, and about the  *)
(* market that moves with them, for any accounts, deployments, groups and  *)
(* providers.                                                              *)
(*                                                                         *)
(* LifecycleInv is inductive as it stands: the step that needs it most is  *)
(* a settlement, where OverdrawnInDebt says that an account which is not   *)
(* in debt is not overdrawn either, so that an overdraft takes all its     *)
(* live payments along.  What is said of the payments of one account       *)
(* holds for accounts that are Untouched: NotCollected is the only place   *)
(* where that is used.                                                     *)
(*                                                                         *)
(* Every market step is an escrow lifecycle step, so these theorems carry  *)
(* over; with them a deployment follows its account.  That bids, bonds,    *)
(* orders and leases move together is shown of the record the callbacks    *)
(* pass along: each callback preserves Coherent, and so does every message *)
(* composed of them.                                                       *)
(*                                                                         *)
(* OneLiveOrder is not inductive: the number of a new order counts the     *)
(* closed ones, and would name an order that exists if there were a gap.   *)
(* Ordered adds that there is none (Numbered), and Paid that a running     *)
(* lease has an open payment on an open account: the payment hook takes    *)
(* the order of a lease away only if another account ended the payment.    *)
(* The hook of the account finds a lease to end by the live order of an    *)
(* open group (Served) and by its active bid (Coherent).                   *)
(***************************************************************************)
EXTENDS Market, FiniteSetTheorems, TLAPS

-----------------------------------------------------------------------------
(* The lifecycle of accounts and payments *)

LEMMA OutcomeType ==
    ASSUME NEW a \in Accounts, NEW o \in Outcomes(a)
    PROVE  /\ o.short \subseteq Due(a)
           /\ o.left \subseteq o.short
           /\ Overdraws(o) => Due(a) # {}
  BY DEF Outcomes, Overdraws

LEMMA PayAfterType ==
    ASSUME NEW a, NEW o, NEW closing, LifecycleTypeOK
    PROVE  PayAfter(a, o, closing) \in [Payments -> States]
  BY DEF PayAfter, LifecycleTypeOK, States

\* A settlement leaves the payments alone that only their own account collects.
LEMMA NotCollected ==
    ASSUME NEW a \in Accounts, NEW p \in Payments, Untouched(AccountOf[p]), AccountOf[p] # a
    PROVE  p \notin Due(a)
  BY DEF Due, Collectable, Untouched

\* One settlement, kept in the account and its payments, preserves the
\* invariant whichever payments the operation closes.
LEMMA SettleStep ==
    ASSUME LifecycleInv, NEW a \in Accounts, NEW closing,
           acct[a] \in {"open", "overdrawn"}, a \notin debt,
           SettleAndSave(a, closing)
    PROVE  LifecycleInv'
  <1> USE AccountOfAssumption
  <1>1. PICK o \in Outcomes(a) :
            /\ Charge(a, o)
            /\ pay' = PayAfter(a, o, closing)
            /\ acct' = [acct EXCEPT ![a] = IF Overdraws(o) THEN "overdrawn" ELSE @]
    BY DEF SettleAndSave, SaveSettled
  <1>2. acct[a] = "open"
    BY DEF LifecycleInv, OverdrawnInDebt
  <1>3. LifecycleTypeOK'
    <2>1. pay' \in [Payments -> States]
      BY <1>1, PayAfterType DEF LifecycleInv
    <2>2. QED
      BY <1>1, <2>1 DEF LifecycleInv, LifecycleTypeOK, States, Charge, MarkSettled
  <1>4. OverdrawnInDebt'
    BY <1>1, OutcomeType DEF LifecycleInv, LifecycleTypeOK, OverdrawnInDebt, Charge, Overdraws
  <1>5. OverdrawnTogether'
    <2> SUFFICES ASSUME NEW p \in Payments, Untouched(AccountOf[p])
                 PROVE  /\ pay'[p] = "overdrawn" => acct'[AccountOf[p]] = "overdrawn"
                        /\ Reached[AccountOf[p]] = {AccountOf[p]}
                             /\ acct'[AccountOf[p]] = "overdrawn" => pay'[p] # "open"
      BY DEF OverdrawnTogether, Untouched
    <2>1. CASE AccountOf[p] # a
      BY <1>1, <2>1, NotCollected DEF LifecycleInv, LifecycleTypeOK, OverdrawnTogether, PayAfter
    <2>2. CASE AccountOf[p] = a /\ p \in Due(a)
      BY <1>1, <1>2, <2>2 DEF LifecycleInv, LifecycleTypeOK, PayAfter
    <2>3. CASE AccountOf[p] = a /\ p \notin Due(a)
      <3>1. pay'[p] = pay[p] /\ pay[p] # "overdrawn"
        BY <1>1, <2>3 DEF PayAfter, Due, Collectable
      <3>2. CASE Overdraws(o)
        <4>1. Reached[a] = {a} => a \notin settledNow
          BY <1>2, <2>3, <3>2, OutcomeType DEF Due, Collectable, LifecycleInv, OverdrawnTogether
        <4>2. QED
          BY <1>1, <1>2, <2>3, <3>1, <4>1 DEF Due, Collectable
      <3>3. CASE ~Overdraws(o)
        BY <1>1, <1>2, <2>3, <3>1, <3>3 DEF LifecycleInv, LifecycleTypeOK
      <3>4. QED
        BY <3>2, <3>3
    <2>4. QED
      BY <2>1, <2>2, <2>3
  <1>6. PaymentHasAccount'
    <2> SUFFICES ASSUME NEW p \in Payments, pay'[p] # "none"
                 PROVE  acct'[AccountOf[p]] # "none"
      BY DEF PaymentHasAccount
    <2>1. pay[p] # "none"
      BY <1>1 DEF PayAfter, Due
    <2>2. QED
      BY <1>1, <2>1 DEF LifecycleInv, LifecycleTypeOK, PaymentHasAccount
  <1>7. QED
    BY <1>3, <1>4, <1>5, <1>6 DEF LifecycleInv

\* A deposit to an overdrawn account, whichever way its settlement goes.
LEMMA DepositOverdrawnStep ==
    ASSUME LifecycleInv, NEW a \in Accounts, DepositOverdrawn(a)
    PROVE  LifecycleInv'
  <1> USE AccountOfAssumption
  <1>1. PICK o \in Outcomes(a) :
            /\ acct[a] = "overdrawn"
            /\ pay' = PayAfter(a, o, Collectable(a))
            /\ acct' = IF Overdraws(o) THEN acct ELSE [acct EXCEPT ![a] = "closed"]
            /\ debt' = IF o.short # {} THEN debt \cup {a} ELSE debt \ {a}
            /\ UNCHANGED settledNow
    BY DEF DepositOverdrawn
  <1>2. LifecycleTypeOK'
    <2>1. pay' \in [Payments -> States]
      BY <1>1, PayAfterType DEF LifecycleInv
    <2>2. QED
      BY <1>1, <2>1 DEF LifecycleInv, LifecycleTypeOK, States
  <1>3. OverdrawnInDebt'
    BY <1>1, OutcomeType DEF LifecycleInv, LifecycleTypeOK, OverdrawnInDebt, Overdraws
  <1>4. ASSUME NEW p \in Payments, AccountOf[p] = a
        PROVE  p \in Due(a) <=> pay[p] = "overdrawn"
    BY <1>1, <1>4 DEF Due, Collectable
  <1>5. OverdrawnTogether'
    <2> SUFFICES ASSUME NEW p \in Payments, Untouched(AccountOf[p])
                 PROVE  /\ pay'[p] = "overdrawn" => acct'[AccountOf[p]] = "overdrawn"
                        /\ Reached[AccountOf[p]] = {AccountOf[p]}
                             /\ acct'[AccountOf[p]] = "overdrawn" => pay'[p] # "open"
      BY DEF OverdrawnTogether, Untouched
    <2>1. CASE AccountOf[p] # a
      BY <1>1, <2>1, NotCollected DEF LifecycleInv, LifecycleTypeOK, OverdrawnTogether, PayAfter
    <2>2. CASE AccountOf[p] = a
      BY <1>1, <1>4, <2>2 DEF LifecycleInv, LifecycleTypeOK, OverdrawnTogether, PayAfter, Collectable
    <2>3. QED
      BY <2>1, <2>2
  <1>6. PaymentHasAccount'
    <2> SUFFICES ASSUME NEW p \in Payments, pay'[p] # "none"
                 PROVE  acct'[AccountOf[p]] # "none"
      BY DEF PaymentHasAccount
    <2>1. pay[p] # "none"
      BY <1>1 DEF PayAfter, Due
    <2>2. QED
      BY <1>1, <2>1 DEF LifecycleInv, LifecycleTypeOK, PaymentHasAccount
  <1>7. QED
    BY <1>2, <1>3, <1>5, <1>6 DEF LifecycleInv

\* Closing an account is a settlement that closes every payment it charged,
\* except for an account in debt, whose payments it does not touch.
LEMMA AccountCloseStep ==
    ASSUME LifecycleInv, NEW a \in Accounts, AccountClose(a)
    PROVE  LifecycleInv'
  <1> USE AccountOfAssumption
  <1>1. CASE a \in debt
    <2>1. /\ acct[a] \in {"open", "overdrawn"}
          /\ acct' = [acct EXCEPT ![a] = IF @ = "open" THEN "closed" ELSE @]
          /\ UNCHANGED <<pay, settledNow, debt>>
      BY <1>1 DEF AccountClose
    <2>2. LifecycleTypeOK'
      BY <2>1 DEF LifecycleInv, LifecycleTypeOK, States
    <2>3. OverdrawnTogether' /\ OverdrawnInDebt' /\ PaymentHasAccount'
      BY <2>1 DEF LifecycleInv, LifecycleTypeOK, OverdrawnTogether, OverdrawnInDebt, PaymentHasAccount
    <2>4. QED
      BY <2>2, <2>3 DEF LifecycleInv
  <1>2. CASE a \notin debt
    <2>1. PICK o \in Outcomes(a) :
            /\ acct[a] \in {"open", "overdrawn"}
            /\ Charge(a, o)
            /\ pay' = PayAfter(a, o, Collectable(a))
            /\ acct' = [acct EXCEPT ![a] = IF Overdraws(o) THEN "overdrawn"
                                          ELSE IF @ = "open" THEN "closed"
                                          ELSE @]
      BY <1>2 DEF AccountClose
    <2>2. acct[a] = "open"
      BY <1>2, <2>1 DEF LifecycleInv, OverdrawnInDebt
    <2>3. LifecycleTypeOK'
      <3>1. pay' \in [Payments -> States]
        BY <2>1, PayAfterType DEF LifecycleInv
      <3>2. QED
        BY <2>1, <3>1 DEF LifecycleInv, LifecycleTypeOK, States, Charge, MarkSettled
    <2>4. OverdrawnInDebt'
      BY <2>1, <2>2, OutcomeType
      DEF LifecycleInv, LifecycleTypeOK, OverdrawnInDebt, Charge, Overdraws
    <2>5. OverdrawnTogether'
      <3> SUFFICES ASSUME NEW p \in Payments, Untouched(AccountOf[p])
                   PROVE  /\ pay'[p] = "overdrawn" => acct'[AccountOf[p]] = "overdrawn"
                          /\ Reached[AccountOf[p]] = {AccountOf[p]}
                               /\ acct'[AccountOf[p]] = "overdrawn" => pay'[p] # "open"
        BY DEF OverdrawnTogether, Untouched
      <3>1. CASE AccountOf[p] # a
        BY <2>1, <3>1, NotCollected DEF LifecycleInv, LifecycleTypeOK, OverdrawnTogether, PayAfter
      <3>2. CASE AccountOf[p] = a /\ p \in Due(a)
        BY <2>1, <2>2, <3>2 DEF LifecycleInv, LifecycleTypeOK, PayAfter, Collectable
      <3>3. CASE AccountOf[p] = a /\ p \notin Due(a)
        <4>1. pay'[p] = pay[p] /\ pay[p] # "overdrawn"
          BY <2>1, <3>3 DEF PayAfter, Due, Collectable
        <4>2. CASE Overdraws(o)
          <5>1. Reached[a] = {a} => a \notin settledNow
            BY <2>2, <3>3, <4>2, OutcomeType DEF Due, Collectable, LifecycleInv, OverdrawnTogether
          <5>2. QED
            BY <2>1, <2>2, <3>3, <4>1, <5>1 DEF Due, Collectable
        <4>3. CASE ~Overdraws(o)
          BY <2>1, <2>2, <3>3, <4>1, <4>3 DEF LifecycleInv, LifecycleTypeOK
        <4>4. QED
          BY <4>2, <4>3
      <3>4. QED
        BY <3>1, <3>2, <3>3
    <2>6. PaymentHasAccount'
      <3> SUFFICES ASSUME NEW p \in Payments, pay'[p] # "none"
                   PROVE  acct'[AccountOf[p]] # "none"
        BY DEF PaymentHasAccount
      <3>1. pay[p] # "none"
        BY <2>1 DEF PayAfter, Due
      <3>2. QED
        BY <2>1, <3>1 DEF LifecycleInv, LifecycleTypeOK, PaymentHasAccount
    <2>7. QED
      BY <2>3, <2>4, <2>5, <2>6 DEF LifecycleInv
  <1>3. QED
    BY <1>1, <1>2

\* A new payment: the settlement before it may not overdraw.
LEMMA PaymentCreateStep ==
    ASSUME LifecycleInv, NEW p \in Payments, PaymentCreate(p)
    PROVE  LifecycleInv'
  <1> USE AccountOfAssumption
  <1> DEFINE a == AccountOf[p]
  <1>1. PICK o \in Outcomes(a) :
            /\ acct[a] \in {"open", "overdrawn"}
            /\ a \notin debt
            /\ pay[p] = "none"
            /\ Charge(a, o)
            /\ pay' = [pay EXCEPT ![p] = "open"]
            /\ UNCHANGED acct
    BY DEF PaymentCreate
  <1>2. acct[a] = "open"
    BY <1>1 DEF LifecycleInv, OverdrawnInDebt
  <1>3. LifecycleTypeOK'
    BY <1>1 DEF LifecycleInv, LifecycleTypeOK, States, Charge, MarkSettled
  <1>4. OverdrawnTogether' /\ OverdrawnInDebt' /\ PaymentHasAccount'
    BY <1>1, <1>2
    DEF LifecycleInv, LifecycleTypeOK, OverdrawnTogether, OverdrawnInDebt, PaymentHasAccount, Charge
  <1>5. QED
    BY <1>3, <1>4 DEF LifecycleInv

\* Steps that leave acct and pay alone, or only open an account.
LEMMA OtherSteps ==
    ASSUME LifecycleInv,
           \/ UNCHANGED escrowVars
           \/ NextBlock
           \/ \E a \in Accounts : AccountCreate(a) \/ DepositOpen(a)
    PROVE  LifecycleInv'
  <1> USE AccountOfAssumption
  <1>1. CASE UNCHANGED escrowVars
    BY <1>1
    DEF escrowVars, LifecycleInv, LifecycleTypeOK, OverdrawnTogether, OverdrawnInDebt, PaymentHasAccount
  <1>2. CASE NextBlock
    BY <1>2
    DEF NextBlock, LifecycleInv, LifecycleTypeOK, OverdrawnTogether, OverdrawnInDebt, PaymentHasAccount
  <1>3. ASSUME NEW a \in Accounts, AccountCreate(a)
        PROVE  LifecycleInv'
    <2>1. LifecycleTypeOK'
      BY <1>3 DEF AccountCreate, LifecycleInv, LifecycleTypeOK, States
    <2>2. OverdrawnTogether' /\ OverdrawnInDebt' /\ PaymentHasAccount'
      BY <1>3
      DEF AccountCreate, LifecycleInv, LifecycleTypeOK, OverdrawnTogether, OverdrawnInDebt, PaymentHasAccount
    <2>3. QED
      BY <2>1, <2>2 DEF LifecycleInv
  <1>4. ASSUME NEW a \in Accounts, DepositOpen(a)
        PROVE  LifecycleInv'
    BY <1>4
    DEF DepositOpen, LifecycleInv, LifecycleTypeOK, OverdrawnTogether, OverdrawnInDebt, PaymentHasAccount
  <1>5. QED
    BY <1>1, <1>2, <1>3, <1>4

\* Every step of the lifecycle preserves the invariant.
LEMMA LifecycleInductive == LifecycleInv /\ [LifecycleNext]_escrowVars => LifecycleInv'
  <1> SUFFICES ASSUME LifecycleInv, [LifecycleNext]_escrowVars
               PROVE  LifecycleInv'
    OBVIOUS
  <1>1. ASSUME NEW a \in Accounts, AccountDeposit(a)
        PROVE  LifecycleInv'
    BY <1>1, DepositOverdrawnStep, OtherSteps DEF AccountDeposit
  <1>2. ASSUME NEW p \in Payments, PaymentWithdraw(p)
        PROVE  LifecycleInv'
    <2>1. AccountOf[p] \in Accounts
      BY AccountOfAssumption
    <2>2. CASE AccountOf[p] \in debt
      BY <1>2, <2>2, OtherSteps DEF PaymentWithdraw
    <2>3. CASE AccountOf[p] \notin debt
      BY <1>2, <2>1, <2>3, SettleStep DEF PaymentWithdraw, SettleAndSave
    <2>4. QED
      BY <2>2, <2>3
  <1>3. ASSUME NEW p \in Payments, PaymentClose(p)
        PROVE  LifecycleInv'
    <2>1. AccountOf[p] \in Accounts
      BY AccountOfAssumption
    <2>2. CASE AccountOf[p] \in debt
      BY <1>3, <2>2, OtherSteps DEF PaymentClose
    <2>3. CASE AccountOf[p] \notin debt
      BY <1>3, <2>1, <2>3, SettleStep DEF PaymentClose, PaymentClosable
    <2>4. QED
      BY <2>2, <2>3
  <1>4. ASSUME NEW a \in Accounts, AccountSettle(a)
        PROVE  LifecycleInv'
    <2>1. CASE a \in debt
      BY <1>4, <2>1, OtherSteps DEF AccountSettle
    <2>2. CASE a \notin debt
      BY <1>4, <2>2, SettleStep DEF AccountSettle
    <2>3. QED
      BY <2>1, <2>2
  <1>5. QED
    BY <1>1, <1>2, <1>3, <1>4, AccountCloseStep, PaymentCreateStep, OtherSteps DEF LifecycleNext

\* The lifecycle invariant holds in every reachable state: accounts and
\* payments are typed, an overdraft takes all live payments of its account and
\* leaves the account in debt (x/escrow/keeper/keeper.go accountSettle).
THEOREM LifecycleInvariant == LifecycleSpec => []LifecycleInv
  <1>1. LifecycleInit => LifecycleInv
    BY DEF LifecycleInit, LifecycleInv, LifecycleTypeOK, OverdrawnTogether,
           OverdrawnInDebt, PaymentHasAccount, States
  <1>2. QED
    BY <1>1, LifecycleInductive, PTL DEF LifecycleSpec

\* Type correctness of the lifecycle, for every set of accounts and payments.
THEOREM LifecycleTypeCorrect == LifecycleSpec => []LifecycleTypeOK
  <1>1. LifecycleInv => LifecycleTypeOK
    BY DEF LifecycleInv
  <1>2. QED
    BY <1>1, LifecycleInvariant, PTL

\* An account and its live payments are overdrawn together, unless the payments of
\* one account are collected by another (accountSettle, accountPayments).
THEOREM OverdraftIsJoint == LifecycleSpec => []OverdrawnTogether
  <1>1. LifecycleInv => OverdrawnTogether
    BY DEF LifecycleInv
  <1>2. QED
    BY <1>1, LifecycleInvariant, PTL

\* The step property behind NoRevival.
LEMMA NoRevivalStep ==
    ASSUME LifecycleInv, [LifecycleNext]_escrowVars
    PROVE  /\ \A a \in Accounts :
                /\ acct[a] = "closed" => acct'[a] = "closed"
                /\ acct[a] = "overdrawn" => acct'[a] \in {"overdrawn", "closed"}
           /\ \A p \in Payments :
                /\ pay[p] = "closed" => pay'[p] = "closed"
                /\ Untouched(AccountOf[p]) /\ pay[p] = "overdrawn" => pay'[p] \in {"overdrawn", "closed"}
  <1> USE AccountOfAssumption
  <1> DEFINE Kept ==
        /\ \A a \in Accounts :
                /\ acct[a] = "closed" => acct'[a] = "closed"
                /\ acct[a] = "overdrawn" => acct'[a] \in {"overdrawn", "closed"}
        /\ \A p \in Payments :
                /\ pay[p] = "closed" => pay'[p] = "closed"
                /\ Untouched(AccountOf[p]) /\ pay[p] = "overdrawn" => pay'[p] \in {"overdrawn", "closed"}
  <1>1. ASSUME NEW a \in Accounts, NEW closing, a \notin debt,
               acct[a] \in {"open", "overdrawn"}, SettleAndSave(a, closing)
        PROVE  Kept
    <2>1. acct[a] = "open"
      BY <1>1 DEF LifecycleInv, OverdrawnInDebt
    <2>2. \A p \in Due(a) :
            pay[p] # "closed" /\ (Untouched(AccountOf[p]) => pay[p] # "overdrawn")
      BY <2>1, NotCollected DEF Due, Collectable, LifecycleInv, OverdrawnTogether
    <2>3. QED
      BY <1>1, <2>1, <2>2 DEF SettleAndSave, SaveSettled, PayAfter, LifecycleInv, LifecycleTypeOK
  <1>2. ASSUME NEW a \in Accounts, AccountClose(a)
        PROVE  Kept
    <2>1. CASE a \in debt
      BY <1>2, <2>1 DEF AccountClose, LifecycleInv, LifecycleTypeOK
    <2>2. CASE a \notin debt
      <3>1. acct[a] = "open"
        BY <1>2, <2>2 DEF AccountClose, LifecycleInv, OverdrawnInDebt
      <3>2. \A p \in Due(a) :
              pay[p] # "closed" /\ (Untouched(AccountOf[p]) => pay[p] # "overdrawn")
        BY <3>1, NotCollected DEF Due, Collectable, LifecycleInv, OverdrawnTogether
      <3>3. QED
        BY <1>2, <2>2, <3>1, <3>2 DEF AccountClose, PayAfter, LifecycleInv, LifecycleTypeOK
    <2>3. QED
      BY <2>1, <2>2
  <1>3. ASSUME NEW a \in Accounts, DepositOverdrawn(a)
        PROVE  Kept
    <2>1. \A p \in Due(a) : p \in Collectable(a) /\ pay[p] # "closed"
      BY DEF Due
    <2>2. QED
      BY <1>3, <2>1 DEF DepositOverdrawn, PayAfter, LifecycleInv, LifecycleTypeOK
  <1>4. ASSUME NEW p \in Payments, PaymentCreate(p)
        PROVE  Kept
    BY <1>4 DEF PaymentCreate, LifecycleInv, LifecycleTypeOK
  <1>5. ASSUME NEW p \in Payments, PaymentWithdraw(p) \/ PaymentClose(p)
        PROVE  Kept
    <2>1. AccountOf[p] \in Accounts
      OBVIOUS
    <2>2. CASE AccountOf[p] \in debt
      BY <1>5, <2>2 DEF PaymentWithdraw, PaymentClose, escrowVars
    <2>3. CASE AccountOf[p] \notin debt
      BY <1>1, <1>5, <2>1, <2>3 DEF PaymentWithdraw, SettleAndSave, PaymentClose, PaymentClosable
    <2>4. QED
      BY <2>2, <2>3
  <1>6. CASE UNCHANGED escrowVars
    BY <1>6 DEF escrowVars
  <1>7. CASE NextBlock
    BY <1>7 DEF NextBlock
  <1>8. ASSUME NEW a \in Accounts, AccountCreate(a) \/ DepositOpen(a)
        PROVE  Kept
    BY <1>8 DEF AccountCreate, DepositOpen, LifecycleInv, LifecycleTypeOK
  <1>9. ASSUME NEW a \in Accounts, AccountSettle(a)
        PROVE  Kept
    <2>1. CASE a \in debt
      BY <1>9, <2>1 DEF AccountSettle, escrowVars
    <2>2. CASE a \notin debt
      BY <1>1, <1>9, <2>2 DEF AccountSettle
    <2>3. QED
      BY <2>1, <2>2
  <1>10. QED
    BY <1>2, <1>3, <1>4, <1>5, <1>6, <1>7, <1>8, <1>9 DEF LifecycleNext, AccountDeposit

\* Closed is final and an overdrawn account never serves again, nor a payment of it
\* that no other account collects
\* (AccountDeposit closes what it can settle, nothing reopens).
THEOREM ClosedIsFinal == LifecycleSpec => NoRevival
  <1>1. LifecycleInv /\ [LifecycleNext]_escrowVars =>
          [/\ \A a \in Accounts :
                /\ acct[a] = "closed" => acct'[a] = "closed"
                /\ acct[a] = "overdrawn" => acct'[a] \in {"overdrawn", "closed"}
           /\ \A p \in Payments :
                /\ pay[p] = "closed" => pay'[p] = "closed"
                /\ Untouched(AccountOf[p]) /\ pay[p] = "overdrawn"
                     => pay'[p] \in {"overdrawn", "closed"}]_escrowVars
    BY NoRevivalStep
  <1>2. QED
    BY <1>1, LifecycleInvariant, PTL DEF LifecycleSpec, NoRevival

-----------------------------------------------------------------------------
(* The market *)

\* The records the callbacks of the market keeper work on.
Records ==
    [dep : [Accounts -> {"none", "active", "closed"}],
     grp : [Groups -> {"none", "open", "paused", "insufficient", "closed"}],
     order : [Orders -> {"none", "open", "active", "closed"}],
     bid : [Bids -> {"none", "open", "active", "lost", "closed"}],
     lease : [Bids -> {"none", "active", "reclaiming", "insufficient", "closed"}],
     bond : [Bids -> {"none", "held", "returned"}]]

LEMMA BidType ==
    ASSUME NEW b \in Bids
    PROVE  /\ OrderOf(b) \in Orders
           /\ GroupOf(OrderOf(b)) \in Groups
           /\ Deployment(b) \in Accounts
           /\ b \in Payments
           /\ AccountOf[b] = Deployment(b)
  <1>1. OrderOf(b) \in Orders
    BY DEF Bids, OrderOf
  <1>2. GroupOf(OrderOf(b)) \in Groups
    BY <1>1 DEF Orders, GroupOf
  <1>3. QED
    BY <1>1, <1>2, MarketAssumption DEF Deployment

LEMMA OrderType ==
    ASSUME NEW o \in Orders
    PROVE  /\ GroupOf(o) \in Groups
           /\ DeploymentOf[GroupOf(o)] \in Accounts
  BY MarketAssumption DEF Orders, GroupOf

-----------------------------------------------------------------------------
(* What the callbacks do, field by field *)

LEMMA GroupsClosedFields ==
    ASSUME NEW m \in Records, NEW groups \in SUBSET Groups, NEW state \in {"closed", "insufficient"}
    PROVE  LET r == GroupsClosed(m, groups, state)
           IN  /\ r \in Records
               /\ r.dep = m.dep /\ r.grp = m.grp
               /\ \A o \in Orders : r.order[o] = IF GroupOf(o) \in groups /\ LiveOrder(o, m)
                                                 THEN "closed" ELSE m.order[o]
               /\ \A b \in Bids :
                    /\ r.bid[b] = IF b \in Closing(m, groups) THEN "closed" ELSE m.bid[b]
                    /\ r.bond[b] = IF b \in Closing(m, groups) THEN "returned" ELSE m.bond[b]
                    /\ r.lease[b] = IF /\ b \in Closing(m, groups)
                                       /\ m.lease[b] \in {"active", "reclaiming"}
                                    THEN state ELSE m.lease[b]
  <1> DEFINE bids == Closing(m, groups)
             closedBids == CloseBids(m, bids)
             closedLeases == CloseLeases(closedBids, bids, state)
             r == GroupsClosed(m, groups, state)
  <1>1. /\ closedBids \in Records
        /\ closedBids.dep = m.dep /\ closedBids.grp = m.grp /\ closedBids.order = m.order
        /\ closedBids.lease = m.lease
        /\ closedBids.bid = [b \in Bids |-> IF b \in bids THEN "closed" ELSE m.bid[b]]
        /\ closedBids.bond = [b \in Bids |-> IF b \in bids THEN "returned" ELSE m.bond[b]]
    BY DEF Records, CloseBids
  <1> HIDE DEF closedBids
  <1>2. /\ closedLeases \in Records
        /\ closedLeases.dep = m.dep /\ closedLeases.grp = m.grp /\ closedLeases.order = m.order
        /\ closedLeases.bid = closedBids.bid /\ closedLeases.bond = closedBids.bond
        /\ closedLeases.lease =
             [b \in Bids |-> IF b \in bids /\ m.lease[b] \in {"active", "reclaiming"}
                             THEN state ELSE m.lease[b]]
    BY <1>1 DEF Records, CloseLeases
  <1> HIDE DEF closedLeases
  <1>3. r = CloseOrders(closedLeases, {o \in Orders : GroupOf(o) \in groups /\ LiveOrder(o, m)})
    BY DEF GroupsClosed, closedLeases, closedBids
  <1> HIDE DEF r
  <1>4. /\ r \in Records
        /\ r.dep = m.dep /\ r.grp = m.grp
        /\ r.bid = closedBids.bid /\ r.bond = closedBids.bond /\ r.lease = closedLeases.lease
        /\ r.order = [o \in Orders |-> IF GroupOf(o) \in groups /\ LiveOrder(o, m)
                                       THEN "closed" ELSE m.order[o]]
    BY <1>2, <1>3 DEF Records, CloseOrders
  <1>5. QED
    BY <1>1, <1>2, <1>4 DEF Records, r

LEMMA SetGroupsFields ==
    ASSUME NEW m \in Records, NEW groups \in SUBSET Groups,
           NEW state \in {"none", "open", "paused", "insufficient", "closed"}
    PROVE  LET r == SetGroups(m, groups, state)
           IN  /\ r \in Records
               /\ r.dep = m.dep /\ r.order = m.order /\ r.bid = m.bid
               /\ r.lease = m.lease /\ r.bond = m.bond
               /\ \A g \in Groups : r.grp[g] = IF g \in groups THEN state ELSE m.grp[g]
  BY DEF Records, SetGroups

\* The groups of a deployment the hook closes.
OpenGroups(m, d) == {g \in Groups : DeploymentOf[g] = d /\ m.grp[g] # "closed"}

\* The record the hook works on once the deployment is closed.
Ended(m, d) == [m EXCEPT !.dep[d] = "closed"]

LEMMA EndedFields ==
    ASSUME NEW m \in Records, NEW d \in Accounts
    PROVE  /\ Ended(m, d) \in Records
           /\ Ended(m, d).dep = [m.dep EXCEPT ![d] = "closed"]
           /\ Ended(m, d).grp = m.grp /\ Ended(m, d).order = m.order
           /\ Ended(m, d).bid = m.bid /\ Ended(m, d).lease = m.lease
           /\ Ended(m, d).bond = m.bond
  BY DEF Records, Ended

LEMMA DeploymentClosedFields ==
    ASSUME NEW m \in Records, NEW d \in Accounts, NEW state \in {"closed", "insufficient"}
    PROVE  LET r == DeploymentClosed(m, d, state)
               c == GroupsClosed(Ended(m, d), OpenGroups(m, d), state)
           IN  /\ r \in Records /\ c \in Records
               /\ r.dep = [m.dep EXCEPT ![d] = "closed"]
               /\ r.order = c.order /\ r.bid = c.bid /\ r.lease = c.lease /\ r.bond = c.bond
               /\ \A g \in Groups : r.grp[g] = IF g \in OpenGroups(m, d) THEN state ELSE m.grp[g]
  <1> DEFINE c == GroupsClosed(Ended(m, d), OpenGroups(m, d), state)
             r == DeploymentClosed(m, d, state)
  <1>0. OpenGroups(m, d) \in SUBSET Groups
    BY DEF OpenGroups
  <1>1. c \in Records /\ c.dep = Ended(m, d).dep /\ c.grp = Ended(m, d).grp
    <2>1. Ended(m, d) \in Records
      BY EndedFields
    <2>2. QED
      BY <1>0, <2>1, GroupsClosedFields, Zenon
  <1>2. r = SetGroups(c, OpenGroups(m, d), state)
    BY DEF DeploymentClosed, OpenGroups, Ended
  <1> HIDE DEF c, r
  <1>3. /\ r \in Records
        /\ r.dep = c.dep /\ r.order = c.order /\ r.bid = c.bid
        /\ r.lease = c.lease /\ r.bond = c.bond
        /\ \A g \in Groups : r.grp[g] = IF g \in OpenGroups(m, d) THEN state ELSE c.grp[g]
    BY <1>0, <1>1, <1>2, SetGroupsFields
  <1>4. /\ r.dep = [m.dep EXCEPT ![d] = "closed"]
        /\ \A g \in Groups : r.grp[g] = IF g \in OpenGroups(m, d) THEN state ELSE m.grp[g]
    BY <1>1, <1>3, EndedFields
  <1>5. QED
    BY <1>1, <1>3, <1>4 DEF c, r

\* What the hook does to the deployment record and to no other.
LEMMA HookedFields ==
    ASSUME NEW m \in Records, NEW d \in Accounts
    PROVE  /\ Hooked(m, d) \in Records
           /\ Hooked(m, d).dep =
                IF m.dep[d] = "active" /\ acct'[d] \in {"closed", "overdrawn"}
                THEN [m.dep EXCEPT ![d] = "closed"] ELSE m.dep
  <1>1. CASE m.dep[d] = "active" /\ acct'[d] = "closed"
    <2>1. Hooked(m, d) = DeploymentClosed(m, d, "closed")
      BY <1>1 DEF Hooked
    <2>2. /\ DeploymentClosed(m, d, "closed") \in Records
          /\ DeploymentClosed(m, d, "closed").dep = [m.dep EXCEPT ![d] = "closed"]
      BY DeploymentClosedFields
    <2>3. QED
      BY <1>1, <2>1, <2>2
  <1>2. CASE m.dep[d] = "active" /\ acct'[d] = "overdrawn"
    <2>1. Hooked(m, d) = DeploymentClosed(m, d, "insufficient")
      BY <1>2 DEF Hooked
    <2>2. /\ DeploymentClosed(m, d, "insufficient") \in Records
          /\ DeploymentClosed(m, d, "insufficient").dep = [m.dep EXCEPT ![d] = "closed"]
      BY DeploymentClosedFields
    <2>3. QED
      BY <1>2, <2>1, <2>2
  <1>3. CASE m.dep[d] # "active" \/ acct'[d] \notin {"closed", "overdrawn"}
    <2>1. Hooked(m, d) = m
      BY <1>3 DEF Hooked
    <2>2. QED
      BY <1>3, <2>1
  <1>4. QED
    BY <1>1, <1>2, <1>3

\* What the payment hook does to the bids whose payments have ended, their leases
\* and their orders.
LEMMA PaymentsEndedFields ==
    ASSUME NEW m \in Records
    PROVE  LET r == PaymentsEnded(m)
           IN  /\ r \in Records
               /\ r.dep = m.dep /\ r.grp = m.grp
               /\ \A o \in Orders : r.order[o] = IF \E b \in Unpaid(m) : OrderOf(b) = o
                                                 THEN "closed" ELSE m.order[o]
               /\ \A b \in Bids :
                    /\ r.bid[b] = IF b \in Unpaid(m) THEN "closed" ELSE m.bid[b]
                    /\ r.bond[b] = IF b \in Unpaid(m) THEN "returned" ELSE m.bond[b]
                    /\ IF b \in Unpaid(m) THEN r.lease[b] \notin {"active", "reclaiming"}
                                           ELSE r.lease[b] = m.lease[b]
  <1> DEFINE bids == Unpaid(m)
             short == {b \in bids : pay'[b] = "overdrawn"}
             closedBids == CloseBids(m, bids)
             shortLeases == CloseLeases(closedBids, short, "insufficient")
             closedLeases == CloseLeases(shortLeases, bids, "closed")
             r == PaymentsEnded(m)
  <1>1. CASE bids = {}
    <2>1. r = m
      BY <1>1 DEF PaymentsEnded
    <2> HIDE DEF r
    <2>2. QED
      BY <1>1, <2>1 DEF r
  <1>2. CASE bids # {}
    <2>1. /\ closedBids \in Records
          /\ closedBids.dep = m.dep /\ closedBids.grp = m.grp /\ closedBids.order = m.order
          /\ closedBids.lease = m.lease
          /\ closedBids.bid = [b \in Bids |-> IF b \in bids THEN "closed" ELSE m.bid[b]]
          /\ closedBids.bond = [b \in Bids |-> IF b \in bids THEN "returned" ELSE m.bond[b]]
      BY DEF Records, CloseBids
    <2> HIDE DEF closedBids
    <2>2. /\ shortLeases \in Records
          /\ shortLeases.dep = m.dep /\ shortLeases.grp = m.grp /\ shortLeases.order = m.order
          /\ shortLeases.bid = closedBids.bid /\ shortLeases.bond = closedBids.bond
          /\ shortLeases.lease =
               [b \in Bids |-> IF b \in short /\ m.lease[b] \in {"active", "reclaiming"}
                               THEN "insufficient" ELSE m.lease[b]]
      BY <2>1 DEF Records, CloseLeases
    <2> HIDE DEF shortLeases
    <2>3. /\ closedLeases \in Records
          /\ closedLeases.dep = m.dep /\ closedLeases.grp = m.grp
          /\ closedLeases.order = m.order
          /\ closedLeases.bid = closedBids.bid /\ closedLeases.bond = closedBids.bond
          /\ closedLeases.lease =
               [b \in Bids |-> IF b \in bids /\ shortLeases.lease[b] \in {"active", "reclaiming"}
                               THEN "closed" ELSE shortLeases.lease[b]]
      BY <2>2 DEF Records, CloseLeases
    <2> HIDE DEF closedLeases
    <2>4. r = CloseOrders(closedLeases, {OrderOf(b) : b \in bids})
      BY <1>2 DEF PaymentsEnded, closedLeases, shortLeases, closedBids
    <2> HIDE DEF r
    <2>5. /\ r \in Records
          /\ r.dep = m.dep /\ r.grp = m.grp
          /\ r.bid = closedBids.bid /\ r.bond = closedBids.bond /\ r.lease = closedLeases.lease
          /\ r.order = [o \in Orders |-> IF o \in {OrderOf(b) : b \in bids}
                                         THEN "closed" ELSE m.order[o]]
      BY <2>3, <2>4 DEF Records, CloseOrders
    <2>6. \A b \in Bids : IF b \in bids THEN r.lease[b] \notin {"active", "reclaiming"}
                                        ELSE r.lease[b] = m.lease[b]
      BY <2>2, <2>3, <2>5
    <2> HIDE DEF bids
    <2>7. \A o \in Orders : r.order[o] = IF \E b \in bids : OrderOf(b) = o
                                         THEN "closed" ELSE m.order[o]
      <3> SUFFICES ASSUME NEW o \in Orders
                   PROVE  r.order[o] = IF \E b \in bids : OrderOf(b) = o
                                       THEN "closed" ELSE m.order[o]
        OBVIOUS
      <3>1. r.order[o] = IF o \in {OrderOf(b) : b \in bids} THEN "closed" ELSE m.order[o]
        BY <2>5
      <3>2. o \in {OrderOf(b) : b \in bids} <=> \E b \in bids : OrderOf(b) = o
        OBVIOUS
      <3>3. QED
        BY <3>1, <3>2
    <2>8. \A b \in Bids : /\ r.bid[b] = IF b \in bids THEN "closed" ELSE m.bid[b]
                          /\ r.bond[b] = IF b \in bids THEN "returned" ELSE m.bond[b]
      BY <2>1, <2>5
    <2>9. QED
      BY <2>5, <2>6, <2>7, <2>8, Zenon DEF r, bids
  <1>3. QED
    BY <1>1, <1>2

LEMMA FollowedFields ==
    ASSUME NEW m \in Records, NEW d \in Accounts
    PROVE  Followed(m, d) \in Records /\ Followed(m, d).dep = Hooked(m, d).dep
  <1>1. Hooked(m, d) \in Records
    BY HookedFields
  <1>2. QED
    BY <1>1, PaymentsEndedFields, Zenon DEF Followed

LEMMA CreateOrderFields ==
    ASSUME NEW m \in Records, NEW g \in Groups, CanCreateOrder(m, g)
    PROVE  /\ <<g, NextOrder(m, g)>> \in Orders
           /\ CreateOrder(m, g) \in Records
           /\ CreateOrder(m, g).dep = m.dep /\ CreateOrder(m, g).grp = m.grp
           /\ CreateOrder(m, g).bid = m.bid /\ CreateOrder(m, g).lease = m.lease
           /\ CreateOrder(m, g).bond = m.bond
           /\ CreateOrder(m, g).order = [m.order EXCEPT ![<<g, NextOrder(m, g)>>] = "open"]
  <1> DEFINE ended == {o \in Orders : GroupOf(o) = g /\ m.order[o] = "closed"}
  <1>1. IsFiniteSet({g} \X (1..MaxOrders))
    <2>1. IsFiniteSet(1..MaxOrders)
      BY MarketAssumption, FS_Interval
    <2>2. QED
      BY <2>1, FS_Singleton, FS_Product
  <1>2. ended \subseteq {g} \X (1..MaxOrders)
    BY DEF Orders, GroupOf
  <1>3. Cardinality(ended) \in Nat
    BY <1>1, <1>2, FS_Subset, FS_CardinalityType
  <1>4. NextOrder(m, g) \in 1..MaxOrders
    BY <1>3, MarketAssumption DEF NextOrder, CanCreateOrder
  <1>5. <<g, NextOrder(m, g)>> \in Orders
    BY <1>4 DEF Orders
  <1>6. QED
    BY <1>5 DEF CreateOrder, Records

-----------------------------------------------------------------------------
(* Every market step is an escrow step *)

LEMMA AttemptIsLifecycle ==
    ASSUME NEW b \in Bids, TryPaymentClose(b)
    PROVE  [LifecycleNext]_escrowVars
  BY BidType DEF TryPaymentClose, LifecycleNext

LEMMA EndGroupIsLifecycle ==
    ASSUME NEW g \in Groups, NEW state, EndGroup(g, state)
    PROVE  [LifecycleNext]_escrowVars
  <1> DEFINE leased == {b \in Closing(Market, {g}) : lease[b] # "none"}
  <1>1. leased \subseteq Bids
    BY DEF Closing
  <1>2. IF leased = {} THEN UNCHANGED escrowVars ELSE \E b \in leased : TryPaymentClose(b)
    BY DEF EndGroup
  <1>3. QED
    BY <1>1, <1>2, AttemptIsLifecycle

LEMMA StepIsLifecycle ==
    ASSUME [Next]_vars
    PROVE  [LifecycleNext]_escrowVars
  <1>1. CASE UNCHANGED vars
    BY <1>1 DEF vars
  <1>2. CASE Tick
    BY <1>2 DEF Tick, LifecycleNext
  <1>3. ASSUME NEW d \in Accounts, CreateDeployment(d) \/ CloseDeployment(d) \/ Deposit(d)
        PROVE  [LifecycleNext]_escrowVars
    BY <1>3 DEF CreateDeployment, CloseDeployment, Deposit, LifecycleNext
  <1>4. ASSUME NEW g \in Groups, CloseGroup(g) \/ PauseGroup(g) \/ StartGroup(g)
        PROVE  [LifecycleNext]_escrowVars
    <2>1. CASE CloseGroup(g) \/ PauseGroup(g)
      BY <2>1, EndGroupIsLifecycle DEF CloseGroup, PauseGroup
    <2>2. CASE StartGroup(g)
      BY <2>2 DEF StartGroup
    <2>3. QED
      BY <1>4, <2>1, <2>2
  <1>5. ASSUME NEW b \in Bids,
               \/ CreateBid(b) \/ CloseBid(b)
               \/ CreateLease(b) \/ CloseLease(b) \/ WithdrawLease(b) \/ LeaseStartReclaim(b)
        PROVE  [LifecycleNext]_escrowVars
    <2>1. CASE CreateBid(b) \/ CloseOpenBid(b) \/ LeaseStartReclaim(b)
      BY <2>1 DEF CreateBid, CloseOpenBid, LeaseStartReclaim
    <2>2. CASE CloseLeasedBid(b)
      BY <2>2, AttemptIsLifecycle DEF CloseLeasedBid
    <2>3. CASE CreateLease(b)
      BY <2>3, BidType DEF CreateLease, LifecycleNext
    <2>4. CASE CloseLease(b)
      BY <2>4, BidType DEF CloseLease, LifecycleNext
    <2>5. CASE WithdrawLease(b)
      BY <2>5, BidType DEF WithdrawLease, LifecycleNext
    <2>6. QED
      BY <1>5, <2>1, <2>2, <2>3, <2>4, <2>5 DEF CloseBid
  <1>6. QED
    BY <1>1, <1>2, <1>3, <1>4, <1>5 DEF Next

\* The market drives x/escrow only through the operations it offers, so what
\* holds of the escrow lifecycle holds under the market's messages and hooks.
THEOREM MarketUsesLifecycle == Spec => LifecycleSpec
  <1>1. Init => LifecycleInit
    BY DEF Init
  <1>2. [Next]_vars => [LifecycleNext]_escrowVars
    BY StepIsLifecycle
  <1>3. QED
    BY <1>1, <1>2, PTL DEF Spec, LifecycleSpec

-----------------------------------------------------------------------------
(* A deployment follows its account *)

MarketInv == LifecycleInv /\ Market \in Records /\ DeploymentFollowsAccount

\* An escrow step on the account of d: no other account moves, the account
\* neither appears nor opens.
AccountStep(d) ==
    /\ acct' \in [Accounts -> States]
    /\ \A a \in Accounts \ {d} : acct'[a] = acct[a]
    /\ acct[d] = "none" <=> acct'[d] = "none"
    /\ acct'[d] = "open" => acct[d] = "open"

LEMMA AccountUnchanged ==
    ASSUME LifecycleTypeOK, NEW d \in Accounts, acct' = acct
    PROVE  AccountStep(d)
  BY DEF AccountStep, LifecycleTypeOK

LEMMA SettleIsAccountStep ==
    ASSUME LifecycleTypeOK, NEW d \in Accounts, NEW closing,
           acct[d] \in {"open", "overdrawn"}, SettleAndSave(d, closing)
    PROVE  AccountStep(d)
  <1>1. PICK o : acct' = [acct EXCEPT ![d] = IF Overdraws(o) THEN "overdrawn" ELSE acct[d]]
    BY DEF SettleAndSave, SaveSettled
  <1>2. QED
    BY <1>1 DEF AccountStep, LifecycleTypeOK, States

LEMMA CloseIsAccountStep ==
    ASSUME LifecycleTypeOK, NEW d \in Accounts, AccountClose(d)
    PROVE  AccountStep(d)
  <1>1. PICK new \in {acct[d], "closed", "overdrawn"} : acct' = [acct EXCEPT ![d] = new]
    BY DEF AccountClose
  <1>2. acct[d] \in {"open", "overdrawn"}
    BY DEF AccountClose
  <1>3. QED
    BY <1>1, <1>2 DEF AccountStep, LifecycleTypeOK, States

LEMMA DepositIsAccountStep ==
    ASSUME LifecycleTypeOK, NEW d \in Accounts, AccountDeposit(d)
    PROVE  AccountStep(d)
  <1>1. CASE DepositOpen(d)
    BY <1>1, AccountUnchanged DEF DepositOpen
  <1>2. CASE DepositOverdrawn(d)
    <2>1. PICK new \in {acct[d], "closed"} : acct' = [acct EXCEPT ![d] = new] \/ acct' = acct
      BY <1>2 DEF DepositOverdrawn
    <2>2. QED
      BY <1>2, <2>1 DEF AccountStep, LifecycleTypeOK, States, DepositOverdrawn
  <1>3. QED
    BY <1>1, <1>2 DEF AccountDeposit

LEMMA PaymentIsAccountStep ==
    ASSUME LifecycleTypeOK, NEW b \in Bids,
           PaymentWithdraw(b) \/ PaymentClose(b) \/ PaymentCreate(b) \/ TryPaymentClose(b)
    PROVE  AccountStep(Deployment(b))
  <1> DEFINE d == Deployment(b)
  <1>1. d \in Accounts /\ AccountOf[b] = d
    BY BidType
  <1> HIDE DEF d
  <1>2. ASSUME PaymentWithdraw(b) PROVE AccountStep(d)
    <2>1. CASE d \in debt
      BY <1>1, <1>2, <2>1, AccountUnchanged DEF PaymentWithdraw, escrowVars
    <2>2. CASE d \notin debt
      BY <1>1, <1>2, <2>2, SettleIsAccountStep DEF PaymentWithdraw, SettleAndSave
    <2>3. QED
      BY <2>1, <2>2
  <1>3. ASSUME PaymentClose(b) PROVE AccountStep(d)
    <2>1. CASE d \in debt
      BY <1>1, <1>3, <2>1, AccountUnchanged DEF PaymentClose, escrowVars
    <2>2. CASE d \notin debt
      BY <1>1, <1>3, <2>2, SettleIsAccountStep DEF PaymentClose, PaymentClosable
    <2>3. QED
      BY <2>1, <2>2
  <1>4. ASSUME PaymentCreate(b) PROVE AccountStep(d)
    BY <1>1, <1>4, AccountUnchanged DEF PaymentCreate
  <1>5. ASSUME TryPaymentClose(b) PROVE AccountStep(d)
    BY <1>1, <1>3, <1>5, AccountUnchanged DEF TryPaymentClose, escrowVars
  <1>6. QED
    BY <1>2, <1>3, <1>4, <1>5, Zenon DEF d

LEMMA SetMarketFields ==
    ASSUME NEW m \in Records, SetMarket(m)
    PROVE  Market' \in Records /\ dep' = m.dep
  BY DEF SetMarket, Market, Records

\* A message that acts on the account of d and then runs the hook.
LEMMA FollowStep ==
    ASSUME MarketInv, LifecycleInv', NEW d \in Accounts, AccountStep(d),
           NEW m \in Records, m.dep = dep,
           NEW n \in Records, n.dep = Hooked(m, d).dep, SetMarket(n)
    PROVE  MarketInv'
  <1>1. Market' \in Records /\ dep' = n.dep
    BY SetMarketFields
  <1>2. dep' = IF dep[d] = "active" /\ acct'[d] \in {"closed", "overdrawn"}
               THEN [dep EXCEPT ![d] = "closed"] ELSE dep
    BY <1>1, HookedFields
  <1>3. dep \in [Accounts -> {"none", "active", "closed"}]
    BY DEF MarketInv, Records, Market
  <1>4. DeploymentFollowsAccount'
    BY <1>2, <1>3 DEF DeploymentFollowsAccount, MarketInv, AccountStep, States
  <1>5. QED
    BY <1>1, <1>4 DEF MarketInv

\* A message that acts on no account and on no deployment.
LEMMA QuietStep ==
    ASSUME MarketInv, LifecycleInv', acct' = acct, dep' = dep, Market' \in Records
    PROVE  MarketInv'
  BY DEF MarketInv, DeploymentFollowsAccount

LEMMA CloseTypes ==
    ASSUME NEW m \in Records
    PROVE  /\ \A bids : CloseBids(m, bids) \in Records /\ CloseBids(m, bids).dep = m.dep
           /\ \A bids : /\ CloseLeases(m, bids, "closed") \in Records
                        /\ CloseLeases(m, bids, "closed").dep = m.dep
           /\ \A orders : /\ CloseOrders(m, orders) \in Records
                          /\ CloseOrders(m, orders).dep = m.dep
  <1>1. \A bids : CloseBids(m, bids) \in Records /\ CloseBids(m, bids).dep = m.dep
    BY DEF Records, CloseBids
  <1>2. \A bids : /\ CloseLeases(m, bids, "closed") \in Records
                  /\ CloseLeases(m, bids, "closed").dep = m.dep
    BY DEF Records, CloseLeases
  <1>3. \A orders : CloseOrders(m, orders) \in Records /\ CloseOrders(m, orders).dep = m.dep
    BY DEF Records, CloseOrders
  <1>4. QED
    BY <1>1, <1>2, <1>3

\* The record of a lease that ends: the lease, its bid and its order close.
EndedLease(b) == CloseOrders(CloseBids(CloseLeases(Market, {b}, "closed"), {b}), {OrderOf(b)})

LEMMA EndedLeaseType ==
    ASSUME Market \in Records, NEW b \in Bids
    PROVE  EndedLease(b) \in Records /\ EndedLease(b).dep = dep
  <1>1. Market.dep = dep
    BY DEF Market
  <1>2. QED
    BY <1>1, CloseTypes DEF EndedLease

LEMMA CreateDeploymentStep ==
    ASSUME MarketInv, LifecycleInv', NEW d \in Accounts, CreateDeployment(d)
    PROVE  MarketInv'
  <1>1. Market' \in Records
    BY DEF CreateDeployment, MarketInv, Market, Records
  <1>2. /\ acct' = [acct EXCEPT ![d] = "open"] /\ acct \in [Accounts -> States]
        /\ dep' = [dep EXCEPT ![d] = "active"] /\ dep \in [Accounts -> {"none", "active", "closed"}]
    BY DEF CreateDeployment, AccountCreate, MarketInv, LifecycleInv, LifecycleTypeOK,
           Market, Records
  <1>3. DeploymentFollowsAccount'
    BY <1>2 DEF MarketInv, DeploymentFollowsAccount
  <1>4. QED
    BY <1>1, <1>3 DEF MarketInv

\* CloseDeployment, Deposit and WithdrawLease change no market record before the hook.
LEMMA OnlyHookStep ==
    ASSUME MarketInv, LifecycleInv', NEW d \in Accounts, AccountStep(d), Follow(Market, d)
    PROVE  MarketInv'
  <1>1. Market \in Records /\ Market.dep = dep
    BY DEF MarketInv, Market
  <1>2. QED
    BY <1>1, FollowedFields, FollowStep DEF Follow

LEMMA EndGroupStep ==
    ASSUME MarketInv, LifecycleInv', NEW g \in Groups, NEW state \in {"closed", "paused"},
           EndGroup(g, state)
    PROVE  MarketInv'
  <1> DEFINE d == DeploymentOf[g]
             leased == {b \in Closing(Market, {g}) : lease[b] # "none"}
             closed == GroupsClosed(Market, {g}, "closed")
             m == SetGroups(closed, {g}, state)
  <1>1. d \in Accounts /\ Market \in Records /\ Market.dep = dep /\ LifecycleTypeOK
    BY MarketAssumption DEF MarketInv, LifecycleInv, Market
  <1>2. \A b \in leased : b \in Bids /\ Deployment(b) = d
    BY DEF Closing, Deployment
  <1>3. AccountStep(d)
    <2>1. IF leased = {} THEN UNCHANGED escrowVars ELSE \E b \in leased : TryPaymentClose(b)
      BY DEF EndGroup
    <2>2. CASE UNCHANGED escrowVars
      BY <1>1, <2>2, AccountUnchanged DEF escrowVars
    <2>3. CASE \E b \in leased : TryPaymentClose(b)
      BY <1>1, <1>2, <2>3, PaymentIsAccountStep, Zenon
    <2>4. QED
      BY <2>1, <2>2, <2>3
  <1>4. closed \in Records /\ closed.dep = dep
    <2>1. {g} \in SUBSET Groups
      OBVIOUS
    <2>2. QED
      BY <1>1, <2>1, GroupsClosedFields, Zenon
  <1>5. m \in Records /\ m.dep = dep
    <2>1. {g} \in SUBSET Groups
      OBVIOUS
    <2> HIDE DEF closed
    <2>2. QED
      BY <1>4, <2>1, SetGroupsFields
  <1>6. SetMarket(Followed(m, d))
    BY DEF EndGroup, Follow
  <1>7. QED
    <2> HIDE DEF m, d
    <2>1. QED
      BY <1>1, <1>3, <1>5, <1>6, FollowedFields, FollowStep

LEMMA StartGroupStep ==
    ASSUME MarketInv, LifecycleInv', NEW g \in Groups, StartGroup(g)
    PROVE  MarketInv'
  <1> DEFINE m == SetGroups(Market, {g}, "open")
  <1>1. CanCreateOrder(Market, g) /\ SetMarket(CreateOrder(m, g)) /\ acct' = acct
    BY DEF StartGroup, escrowVars
  <1>2. Market \in Records /\ Market.dep = dep
    BY DEF MarketInv, Market
  <1>3. m \in Records /\ m.dep = dep /\ m.order = Market.order
    BY <1>2, SetGroupsFields
  <1>4. CanCreateOrder(m, g)
    BY <1>1, <1>3 DEF CanCreateOrder, NextOrder, LiveOrder
  <1> HIDE DEF m
  <1>5. CreateOrder(m, g) \in Records /\ CreateOrder(m, g).dep = dep
    BY <1>3, <1>4, CreateOrderFields
  <1>6. QED
    BY <1>1, <1>5, SetMarketFields, QuietStep

LEMMA CreateLeaseStep ==
    ASSUME MarketInv, LifecycleInv', NEW b \in Bids, CreateLease(b)
    PROVE  MarketInv'
  <1> DEFINE o == OrderOf(b)
             others == {c \in Bids : OrderOf(c) = o /\ c # b /\ bid[c] = "open"}
             matched == [Market EXCEPT !.lease[b] = "active", !.order[o] = "active",
                                       !.bid[b] = "active"]
  <1>1. acct' = acct
    BY DEF CreateLease, PaymentCreate
  <1>2. Market \in Records /\ Market.dep = dep
    BY DEF MarketInv, Market
  <1>3. /\ matched \in Records /\ matched.dep = dep
    BY <1>2 DEF Records
  <1>4. \/ SetMarket(matched)
        \/ \E first \in others :
                SetMarket([matched EXCEPT !.bid[first] = "lost", !.bond[first] = "returned"])
    BY DEF CreateLease
  <1> HIDE DEF matched
  <1>5. \E m \in Records : m.dep = dep /\ SetMarket(m)
    BY <1>3, <1>4 DEF Records
  <1>6. QED
    BY <1>1, <1>5, SetMarketFields, QuietStep

LEMMA CloseLeasedBidStep ==
    ASSUME MarketInv, LifecycleInv', NEW b \in Bids, CloseLeasedBid(b)
    PROVE  MarketInv'
  <1> DEFINE d == Deployment(b)
             ended == EndedLease(b)
             m == SetGroups(ended, {GroupOf(OrderOf(b))}, "paused")
  <1>1. Market \in Records /\ Market.dep = dep /\ LifecycleTypeOK
    BY DEF MarketInv, LifecycleInv, Market
  <1>2. d \in Accounts /\ GroupOf(OrderOf(b)) \in Groups
    BY BidType
  <1>3. AccountStep(d)
    BY <1>1, PaymentIsAccountStep DEF CloseLeasedBid
  <1>4. ended \in Records /\ ended.dep = dep
    BY <1>1, EndedLeaseType
  <1>5. SetMarket(Followed(m, d))
    BY DEF CloseLeasedBid, Follow, EndedLease
  <1>6. m \in Records /\ m.dep = dep
    <2> HIDE DEF ended
    <2>1. QED
      BY <1>2, <1>4, SetGroupsFields
  <1> HIDE DEF m, d
  <1>7. QED
    BY <1>2, <1>3, <1>5, <1>6, FollowedFields, FollowStep

LEMMA CloseLeaseStep ==
    ASSUME MarketInv, LifecycleInv', NEW b \in Bids, CloseLease(b)
    PROVE  MarketInv'
  <1> DEFINE d == Deployment(b)
             g == GroupOf(OrderOf(b))
             ended == EndedLease(b)
             after == Followed(ended, d)
  <1>1. Market \in Records /\ Market.dep = dep /\ LifecycleTypeOK
    BY DEF MarketInv, LifecycleInv, Market
  <1>2. d \in Accounts /\ g \in Groups
    BY BidType
  <1>3. AccountStep(d)
    BY <1>1, PaymentIsAccountStep DEF CloseLease
  <1>4. ended \in Records /\ ended.dep = dep
    BY <1>1, EndedLeaseType
  <1>5. IF after.grp[g] # "open" THEN SetMarket(after)
        ELSE CanCreateOrder(after, g) /\ SetMarket(CreateOrder(after, g))
    BY DEF CloseLease, EndedLease
  <1> HIDE DEF ended, d, g
  <1>6. after \in Records
    BY <1>2, <1>4, FollowedFields
  <1>7. \E n \in Records : n.dep = after.dep /\ SetMarket(n)
    <2> HIDE DEF after
    <2>1. QED
      BY <1>2, <1>5, <1>6, CreateOrderFields
  <1>8. after.dep = Hooked(ended, d).dep
    BY <1>2, <1>4, FollowedFields
  <1>9. QED
    BY <1>2, <1>3, <1>4, <1>7, <1>8, FollowStep

LEMMA MarketInductive == MarketInv /\ [Next]_vars => MarketInv'
  <1> SUFFICES ASSUME MarketInv, [Next]_vars
               PROVE  MarketInv'
    OBVIOUS
  <1>1. LifecycleInv' /\ LifecycleInv /\ LifecycleTypeOK
    BY StepIsLifecycle, LifecycleInductive DEF MarketInv, LifecycleInv
  <1>2. Market \in Records
    BY DEF MarketInv
  <1>3. CASE UNCHANGED vars
    BY <1>1, <1>2, <1>3, QuietStep DEF vars, escrowVars, marketVars, Market
  <1>4. CASE Tick
    BY <1>1, <1>2, <1>4, QuietStep DEF Tick, NextBlock, Market
  <1>5. ASSUME NEW d \in Accounts, CreateDeployment(d) \/ CloseDeployment(d) \/ Deposit(d)
        PROVE  MarketInv'
    <2>1. CASE CloseDeployment(d)
      BY <1>1, <2>1, CloseIsAccountStep, OnlyHookStep DEF CloseDeployment
    <2>2. CASE Deposit(d)
      BY <1>1, <2>2, DepositIsAccountStep, OnlyHookStep DEF Deposit
    <2>3. QED
      BY <1>1, <1>5, <2>1, <2>2, CreateDeploymentStep
  <1>6. ASSUME NEW g \in Groups, CloseGroup(g) \/ PauseGroup(g) \/ StartGroup(g)
        PROVE  MarketInv'
    BY <1>1, <1>6, EndGroupStep, StartGroupStep DEF CloseGroup, PauseGroup
  <1>7. ASSUME NEW b \in Bids,
               \/ CreateBid(b) \/ CloseBid(b)
               \/ CreateLease(b) \/ CloseLease(b) \/ WithdrawLease(b) \/ LeaseStartReclaim(b)
        PROVE  MarketInv'
    <2>1. CASE CreateBid(b)
      <3>1. Market' \in Records
        BY <1>2, <2>1 DEF CreateBid, Market, Records
      <3>2. QED
        BY <1>1, <2>1, <3>1, QuietStep DEF CreateBid, escrowVars
    <2>2. CASE CloseOpenBid(b)
      <3>1. Market.dep = dep
        BY DEF Market
      <3>2. QED
        BY <1>1, <1>2, <2>2, <3>1, CloseTypes, SetMarketFields, QuietStep
        DEF CloseOpenBid, escrowVars
    <2>3. CASE LeaseStartReclaim(b)
      <3>1. Market' \in Records
        BY <1>2, <2>3 DEF LeaseStartReclaim, Market, Records
      <3>2. QED
        BY <1>1, <2>3, <3>1, QuietStep DEF LeaseStartReclaim, escrowVars
    <2>4. CASE WithdrawLease(b)
      <3>1. AccountStep(Deployment(b)) /\ Deployment(b) \in Accounts
        BY <1>1, <2>4, BidType, PaymentIsAccountStep DEF WithdrawLease
      <3>2. QED
        BY <1>1, <2>4, <3>1, OnlyHookStep DEF WithdrawLease
    <2>5. QED
      BY <1>1, <1>7, <2>1, <2>2, <2>3, <2>4, CreateLeaseStep, CloseLeasedBidStep, CloseLeaseStep
      DEF CloseBid
  <1>8. QED
    BY <1>3, <1>4, <1>5, <1>6, <1>7 DEF Next

\* The escrow invariant, the types of the market's records and
\* DeploymentFollowsAccount are inductive together.
THEOREM MarketInvariant == Spec => []MarketInv
  <1>1. Init => MarketInv
    <2>1. Init => LifecycleInv
      BY DEF Init, LifecycleInit, LifecycleInv, LifecycleTypeOK, OverdrawnTogether,
             OverdrawnInDebt, PaymentHasAccount, States
    <2>2. Init => Market \in Records
      BY DEF Init, Market, Records
    <2>3. Init => DeploymentFollowsAccount
      BY DEF Init, LifecycleInit, DeploymentFollowsAccount
    <2>4. QED
      BY <2>1, <2>2, <2>3 DEF MarketInv
  <1>2. QED
    BY <1>1, MarketInductive, PTL DEF Spec

\* Whichever message closes or overdraws an account, and however its payments
\* stood, the hook has closed the deployment in the same step, and no deployment
\* is closed while its account is open (OnEscrowAccountClosed).
THEOREM DeploymentsFollowAccounts == Spec => []DeploymentFollowsAccount
  <1>1. MarketInv => DeploymentFollowsAccount
    BY DEF MarketInv
  <1>2. QED
    BY <1>1, MarketInvariant, PTL

-----------------------------------------------------------------------------
(* Bids, their bonds, their leases and their orders *)

BondsFollow(m) ==
    \A b \in Bids :
        /\ m.bid[b] \in {"open", "active"} <=> m.bond[b] = "held"
        /\ m.bid[b] \in {"lost", "closed"} <=> m.bond[b] = "returned"

LeasesFollow(m) ==
    \A b \in Bids :
        /\ m.lease[b] \in {"active", "reclaiming"} <=> m.bid[b] = "active"
        /\ m.bid[b] = "active" => m.order[OrderOf(b)] = "active"
        /\ \A c \in Bids :
            OrderOf(b) = OrderOf(c) /\ m.bid[b] = "active" /\ m.bid[c] = "active" => b = c

OrdersMatched(m) ==
    \A o \in Orders : m.order[o] = "active" =>
        \E b \in Bids : OrderOf(b) = o /\ m.bid[b] = "active"

\* Groups and orders belong to a deployment that was created, so creating one
\* overwrites no order.
Sourced(m) ==
    /\ \A g \in Groups : m.grp[g] # "none" => m.dep[DeploymentOf[g]] # "none"
    /\ \A o \in Orders : m.order[o] # "none" => m.dep[DeploymentOf[GroupOf(o)]] # "none"

Coherent(m) == BondsFollow(m) /\ LeasesFollow(m) /\ OrdersMatched(m) /\ Sourced(m)

LEMMA GroupsClosedCoherent ==
    ASSUME NEW m \in Records, NEW groups \in SUBSET Groups,
           NEW state \in {"closed", "insufficient"}, Coherent(m)
    PROVE  Coherent(GroupsClosed(m, groups, state))
  <1> DEFINE r == GroupsClosed(m, groups, state)
             bids == Closing(m, groups)
  <1>1. /\ r \in Records
        /\ r.dep = m.dep /\ r.grp = m.grp
        /\ \A o \in Orders : r.order[o] = IF GroupOf(o) \in groups /\ LiveOrder(o, m)
                                          THEN "closed" ELSE m.order[o]
        /\ \A b \in Bids :
             /\ r.bid[b] = IF b \in bids THEN "closed" ELSE m.bid[b]
             /\ r.bond[b] = IF b \in bids THEN "returned" ELSE m.bond[b]
             /\ r.lease[b] = IF b \in bids /\ m.lease[b] \in {"active", "reclaiming"}
                             THEN state ELSE m.lease[b]
    BY GroupsClosedFields
  <1> HIDE DEF r
  <1>2. /\ \A b \in bids : b \in Bids /\ GroupOf(OrderOf(b)) \in groups
        /\ \A b \in Bids : GroupOf(OrderOf(b)) \in groups /\ m.bid[b] = "active" => b \in bids
    BY DEF Closing, Coherent, LeasesFollow
  <1> HIDE DEF bids
  <1>3. BondsFollow(r)
    BY <1>1 DEF BondsFollow, Coherent
  <1>4. LeasesFollow(r)
    <2>1. ASSUME NEW b \in Bids
          PROVE  r.lease[b] \in {"active", "reclaiming"} <=> r.bid[b] = "active"
      BY <1>1 DEF Coherent, LeasesFollow
    <2>2. ASSUME NEW b \in Bids, r.bid[b] = "active"
          PROVE  r.order[OrderOf(b)] = "active"
      <3>1. b \notin bids /\ m.bid[b] = "active"
        BY <1>1, <2>2
      <3>2. GroupOf(OrderOf(b)) \notin groups /\ OrderOf(b) \in Orders
        BY <1>2, <3>1, BidType
      <3>3. QED
        BY <1>1, <3>1, <3>2 DEF Coherent, LeasesFollow
    <2>3. ASSUME NEW b \in Bids, NEW c \in Bids, OrderOf(b) = OrderOf(c),
                 r.bid[b] = "active", r.bid[c] = "active"
          PROVE  b = c
      <3>1. m.bid[b] = "active" /\ m.bid[c] = "active"
        BY <1>1, <2>3
      <3>2. QED
        BY <2>3, <3>1 DEF Coherent, LeasesFollow
    <2>4. QED
      BY <2>1, <2>2, <2>3 DEF LeasesFollow
  <1>5. OrdersMatched(r)
    <2>1. ASSUME NEW o \in Orders, r.order[o] = "active"
          PROVE  \E b \in Bids : OrderOf(b) = o /\ r.bid[b] = "active"
      <3>1. GroupOf(o) \notin groups /\ m.order[o] = "active"
        BY <1>1, <2>1 DEF LiveOrder
      <3>2. PICK b \in Bids : OrderOf(b) = o /\ m.bid[b] = "active"
        BY <3>1 DEF Coherent, OrdersMatched
      <3>3. b \notin bids
        BY <1>2, <3>1, <3>2
      <3>4. QED
        BY <1>1, <3>2, <3>3
    <2>2. QED
      BY <2>1 DEF OrdersMatched
  <1>6. Sourced(r)
    BY <1>1 DEF Sourced, Coherent, LiveOrder
  <1>7. Coherent(r)
    BY <1>3, <1>4, <1>5, <1>6 DEF Coherent
  <1>8. QED
    BY <1>7 DEF r

\* The state of a group that exists, and closing a deployment, disturb nothing.
LEMMA CoherentDependsOn ==
    ASSUME NEW m \in Records, NEW n \in Records, Coherent(m),
           n.order = m.order, n.bid = m.bid, n.bond = m.bond, n.lease = m.lease,
           \A d \in Accounts : m.dep[d] # "none" => n.dep[d] # "none",
           \A g \in Groups : n.grp[g] # "none" => n.dep[DeploymentOf[g]] # "none"
    PROVE  Coherent(n)
  <1>1. BondsFollow(n) /\ LeasesFollow(n) /\ OrdersMatched(n)
    BY DEF Coherent, BondsFollow, LeasesFollow, OrdersMatched
  <1>2. Sourced(n)
    BY OrderType DEF Coherent, Sourced
  <1>3. QED
    BY <1>1, <1>2 DEF Coherent

LEMMA SetGroupsCoherent ==
    ASSUME NEW m \in Records, NEW g \in Groups, Coherent(m),
           NEW state \in {"open", "paused", "closed"}, m.dep[DeploymentOf[g]] # "none"
    PROVE  Coherent(SetGroups(m, {g}, state))
  <1> DEFINE r == SetGroups(m, {g}, state)
  <1>1. /\ r \in Records
        /\ r.dep = m.dep /\ r.order = m.order /\ r.bid = m.bid
        /\ r.lease = m.lease /\ r.bond = m.bond
        /\ \A h \in Groups : r.grp[h] = IF h \in {g} THEN state ELSE m.grp[h]
    BY SetGroupsFields
  <1> HIDE DEF r
  <1>2. \A h \in Groups : r.grp[h] # "none" => r.dep[DeploymentOf[h]] # "none"
    BY <1>1 DEF Coherent, Sourced
  <1>3. Coherent(r)
    BY <1>1, <1>2, CoherentDependsOn
  <1>4. QED
    BY <1>3 DEF r

LEMMA HookedCoherent ==
    ASSUME NEW m \in Records, NEW d \in Accounts, Coherent(m)
    PROVE  Coherent(Hooked(m, d))
  <1>1. ASSUME NEW state \in {"closed", "insufficient"}
        PROVE  Coherent(DeploymentClosed(m, d, state))
    <2> DEFINE e == Ended(m, d)
               c == GroupsClosed(e, OpenGroups(m, d), state)
               r == DeploymentClosed(m, d, state)
    <2>1. /\ e \in Records /\ e.dep = [m.dep EXCEPT ![d] = "closed"]
          /\ e.grp = m.grp /\ e.order = m.order /\ e.bid = m.bid
          /\ e.lease = m.lease /\ e.bond = m.bond
      BY EndedFields
    <2>2. OpenGroups(m, d) \in SUBSET Groups
      BY DEF OpenGroups
    <2>3. /\ r \in Records /\ c \in Records
          /\ r.dep = [m.dep EXCEPT ![d] = "closed"]
          /\ r.order = c.order /\ r.bid = c.bid /\ r.lease = c.lease /\ r.bond = c.bond
          /\ \A g \in Groups : r.grp[g] = IF g \in OpenGroups(m, d) THEN state ELSE m.grp[g]
      BY DeploymentClosedFields
    <2>4. c.dep = e.dep
      <3> HIDE DEF e
      <3>1. QED
        BY <2>1, <2>2, GroupsClosedFields
    <2> HIDE DEF e
    <2>5. /\ \A a \in Accounts : m.dep[a] # "none" => e.dep[a] # "none"
          /\ \A g \in Groups : m.grp[g] # "none" => e.dep[DeploymentOf[g]] # "none"
      BY <2>1, MarketAssumption DEF Records, Coherent, Sourced
    <2>6. Coherent(e)
      BY <2>1, <2>5, CoherentDependsOn
    <2>7. Coherent(c)
      BY <2>1, <2>2, <2>6, GroupsClosedCoherent
    <2> HIDE DEF c, r
    <2>8. \A g \in Groups : r.grp[g] # "none" => r.dep[DeploymentOf[g]] # "none"
      <3>1. \A g \in OpenGroups(m, d) : DeploymentOf[g] = d
        BY DEF OpenGroups
      <3>2. r.dep = e.dep /\ r.dep[d] = "closed"
        BY <2>1, <2>3 DEF Records
      <3>3. QED
        BY <2>3, <2>5, <3>1, <3>2
    <2>9. Coherent(r)
      <3>1. r.dep = c.dep
        BY <2>1, <2>3, <2>4
      <3>2. \A a \in Accounts : c.dep[a] # "none" => r.dep[a] # "none"
        BY <3>1
      <3>3. QED
        BY <2>3, <2>7, <2>8, <3>2, CoherentDependsOn
    <2>10. QED
      BY <2>9 DEF r
  <1>2. Hooked(m, d) \in {m, DeploymentClosed(m, d, "closed"),
                             DeploymentClosed(m, d, "insufficient")}
    BY DEF Hooked
  <1>3. QED
    BY <1>1, <1>2

\* A bid the payment hook ends was the active one of its order.
LEMMA PaymentsEndedCoherent ==
    ASSUME NEW m \in Records, Coherent(m)
    PROVE  Coherent(PaymentsEnded(m))
  <1> DEFINE r == PaymentsEnded(m)
             bids == Unpaid(m)
  <1>1. /\ r \in Records
        /\ r.dep = m.dep /\ r.grp = m.grp
        /\ \A o \in Orders : r.order[o] = IF \E b \in bids : OrderOf(b) = o
                                          THEN "closed" ELSE m.order[o]
        /\ \A b \in Bids :
             /\ r.bid[b] = IF b \in bids THEN "closed" ELSE m.bid[b]
             /\ r.bond[b] = IF b \in bids THEN "returned" ELSE m.bond[b]
             /\ IF b \in bids THEN r.lease[b] \notin {"active", "reclaiming"}
                              ELSE r.lease[b] = m.lease[b]
    BY PaymentsEndedFields
  <1> HIDE DEF r
  <1>2. \A b \in bids : b \in Bids /\ m.bid[b] = "active" /\ m.order[OrderOf(b)] = "active"
    BY DEF Unpaid, Coherent, LeasesFollow
  <1> HIDE DEF bids
  <1>3. \A b \in bids : \A c \in Bids : OrderOf(c) = OrderOf(b) /\ m.bid[c] = "active" => c = b
    BY <1>2 DEF Coherent, LeasesFollow
  <1>4. BondsFollow(r)
    BY <1>1 DEF BondsFollow, Coherent
  <1>5. LeasesFollow(r)
    BY <1>1, <1>3, BidType DEF Coherent, LeasesFollow
  <1>6. OrdersMatched(r)
    BY <1>1 DEF Coherent, OrdersMatched
  <1>7. Sourced(r)
    BY <1>1, <1>2 DEF Coherent, Sourced
  <1>8. QED
    BY <1>4, <1>5, <1>6, <1>7 DEF Coherent, r

LEMMA FollowedCoherent ==
    ASSUME NEW m \in Records, NEW d \in Accounts, Coherent(m)
    PROVE  Coherent(Followed(m, d))
  BY HookedFields, HookedCoherent, PaymentsEndedCoherent DEF Followed

LEMMA CreateOrderCoherent ==
    ASSUME NEW m \in Records, NEW g \in Groups, CanCreateOrder(m, g), Coherent(m),
           m.grp[g] # "none"
    PROVE  Coherent(CreateOrder(m, g))
  <1> DEFINE new == <<g, NextOrder(m, g)>>
             r == CreateOrder(m, g)
  <1>1. /\ new \in Orders /\ GroupOf(new) = g
        /\ r.dep = m.dep /\ r.grp = m.grp /\ r.bid = m.bid /\ r.lease = m.lease
        /\ r.bond = m.bond
        /\ r.order = [m.order EXCEPT ![new] = "open"]
    BY CreateOrderFields DEF GroupOf
  <1> HIDE DEF r, new
  <1>2. m.order[new] \notin {"open", "active"}
    BY <1>1 DEF CanCreateOrder, LiveOrder
  <1>3. \A o \in Orders : r.order[o] = IF o = new THEN "open" ELSE m.order[o]
    BY <1>1 DEF Records
  <1>4. BondsFollow(r)
    BY <1>1 DEF Coherent, BondsFollow
  <1>5. LeasesFollow(r)
    BY <1>1, <1>2, <1>3, BidType DEF Coherent, LeasesFollow
  <1>6. OrdersMatched(r)
    BY <1>1, <1>3 DEF Coherent, OrdersMatched
  <1>7. Sourced(r)
    BY <1>1, <1>3 DEF Coherent, Sourced
  <1>8. QED
    BY <1>4, <1>5, <1>6, <1>7 DEF r, Coherent

-----------------------------------------------------------------------------
(* The messages keep the records coherent *)

LEMMA SetMarketCoherent ==
    ASSUME NEW m \in Records, SetMarket(m), Coherent(m)
    PROVE  Coherent(Market)'
  <1>1. /\ dep' = m.dep /\ grp' = m.grp /\ order' = m.order
        /\ bid' = m.bid /\ lease' = m.lease /\ bond' = m.bond
    BY DEF SetMarket
  <1>2. QED
    BY <1>1 DEF Coherent, BondsFollow, LeasesFollow, OrdersMatched, Sourced, Market

\* A running bid ends with its lease and its order.
LEMMA EndedLeaseCoherent ==
    ASSUME Market \in Records, Coherent(Market), NEW b \in Bids, bid[b] = "active"
    PROVE  Coherent(EndedLease(b))
  <1> DEFINE r == EndedLease(b)
  <1>1. lease[b] \in {"active", "reclaiming"} /\ OrderOf(b) \in Orders
    BY BidType DEF Coherent, LeasesFollow, Market
  <1>2. /\ r.dep = dep /\ r.grp = grp
        /\ \A o \in Orders : r.order[o] = IF o = OrderOf(b) THEN "closed" ELSE order[o]
        /\ \A c \in Bids :
            /\ r.bid[c] = IF c = b THEN "closed" ELSE bid[c]
            /\ r.bond[c] = IF c = b THEN "returned" ELSE bond[c]
            /\ r.lease[c] = IF c = b THEN "closed" ELSE lease[c]
    BY <1>1 DEF EndedLease, CloseOrders, CloseBids, CloseLeases, Market
  <1>3. /\ BondsFollow(Market) /\ LeasesFollow(Market)
        /\ OrdersMatched(Market) /\ Sourced(Market)
    BY DEF Coherent
  <1>4. /\ Market.dep = dep /\ Market.grp = grp /\ Market.order = order /\ Market.bid = bid
        /\ Market.bond = bond /\ Market.lease = lease
    BY DEF Market
  <1> HIDE DEF r
  <1>5. BondsFollow(r)
    BY <1>2, <1>3, <1>4 DEF BondsFollow
  <1>6. LeasesFollow(r)
    BY <1>1, <1>2, <1>3, <1>4, BidType DEF LeasesFollow
  <1>7. OrdersMatched(r)
    BY <1>2, <1>3, <1>4 DEF OrdersMatched
  <1>8. Sourced(r)
    BY <1>1, <1>2, <1>3, <1>4 DEF Sourced, LeasesFollow
  <1>9. QED
    BY <1>5, <1>6, <1>7, <1>8 DEF r, Coherent

LEMMA CreateDeploymentCoherent ==
    ASSUME MarketInv, Coherent(Market), NEW d \in Accounts, CreateDeployment(d)
    PROVE  Coherent(Market)'
  <1> DEFINE groups == {g \in Groups : DeploymentOf[g] = d}
  <1>1. /\ dep[d] = "none"
        /\ dep' = [dep EXCEPT ![d] = "active"]
        /\ \A g \in Groups : grp'[g] = IF g \in groups THEN "open" ELSE grp[g]
        /\ \A o \in Orders : order'[o] = IF o[1] \in groups /\ o[2] = 1 THEN "open" ELSE order[o]
        /\ bid' = bid /\ lease' = lease /\ bond' = bond
    BY DEF CreateDeployment
  <1>2. dep \in [Accounts -> {"none", "active", "closed"}]
    BY DEF MarketInv, Records, Market
  <1>3. \A o \in Orders : o[1] \in groups => order[o] = "none"
    BY <1>1 DEF Coherent, Sourced, Market, GroupOf
  <1>4. LeasesFollow(Market)'
    BY <1>1, <1>3, BidType DEF Coherent, LeasesFollow, Market
  <1>5. OrdersMatched(Market)'
    BY <1>1 DEF Coherent, OrdersMatched, Market
  <1>6. BondsFollow(Market)'
    BY <1>1 DEF Coherent, BondsFollow, Market
  <1>7. Sourced(Market)'
    <2>1. \A a \in Accounts : dep[a] # "none" => dep'[a] # "none"
      BY <1>1, <1>2
    <2>2. dep'[d] # "none"
      BY <1>1, <1>2
    <2>3. \A g \in Groups : grp'[g] # "none" => dep'[DeploymentOf[g]] # "none"
      BY <1>1, <2>1, <2>2, MarketAssumption DEF Coherent, Sourced, Market
    <2>4. \A o \in Orders : order'[o] # "none" => dep'[DeploymentOf[GroupOf(o)]] # "none"
      BY <1>1, <2>1, <2>2, OrderType DEF Coherent, Sourced, Market, GroupOf
    <2>5. QED
      BY <2>3, <2>4 DEF Sourced, Market
  <1>8. QED
    BY <1>4, <1>5, <1>6, <1>7 DEF Coherent

LEMMA EndGroupCoherent ==
    ASSUME MarketInv, Coherent(Market), NEW g \in Groups, NEW state \in {"closed", "paused"},
           grp[g] # "none", EndGroup(g, state)
    PROVE  Coherent(Market)'
  <1> DEFINE closed == GroupsClosed(Market, {g}, "closed")
             m == SetGroups(closed, {g}, state)
             d == DeploymentOf[g]
  <1>1. /\ d \in Accounts /\ {g} \in SUBSET Groups
        /\ Market \in Records /\ Market.dep = dep /\ dep[d] # "none"
    BY MarketAssumption DEF MarketInv, Coherent, Sourced, Market
  <1>2. closed \in Records /\ closed.dep = dep /\ Coherent(closed)
    BY <1>1, GroupsClosedFields, GroupsClosedCoherent, Zenon
  <1>3. SetMarket(Followed(m, d))
    BY DEF EndGroup, Follow
  <1> HIDE DEF closed
  <1>4. m \in Records /\ Coherent(m)
    BY <1>1, <1>2, SetGroupsFields, SetGroupsCoherent
  <1> HIDE DEF m, d
  <1>5. QED
    BY <1>1, <1>3, <1>4, FollowedFields, FollowedCoherent, SetMarketCoherent

LEMMA StartGroupCoherent ==
    ASSUME MarketInv, Coherent(Market), NEW g \in Groups, StartGroup(g)
    PROVE  Coherent(Market)'
  <1> DEFINE m == SetGroups(Market, {g}, "open")
  <1>1. /\ CanCreateOrder(Market, g) /\ SetMarket(CreateOrder(m, g))
        /\ grp[g] # "none"
    BY DEF StartGroup
  <1>2. /\ Market \in Records /\ Market.dep[DeploymentOf[g]] # "none"
    BY <1>1 DEF MarketInv, Coherent, Sourced, Market
  <1>3. m \in Records /\ m.order = Market.order /\ m.grp[g] = "open"
    BY <1>2, SetGroupsFields
  <1>4. Coherent(m)
    BY <1>2, SetGroupsCoherent
  <1>5. CanCreateOrder(m, g)
    BY <1>1, <1>3 DEF CanCreateOrder, NextOrder, LiveOrder
  <1> HIDE DEF m
  <1>6. QED
    BY <1>1, <1>3, <1>4, <1>5, CreateOrderFields, CreateOrderCoherent, SetMarketCoherent

LEMMA CloseOpenBidCoherent ==
    ASSUME MarketInv, Coherent(Market), NEW b \in Bids, CloseOpenBid(b)
    PROVE  Coherent(Market)'
  <1>1. /\ bid[b] = "open"
        /\ \A c \in Bids : bid'[c] = IF c = b THEN "closed" ELSE bid[c]
        /\ \A c \in Bids : bond'[c] = IF c = b THEN "returned" ELSE bond[c]
        /\ dep' = dep /\ grp' = grp /\ order' = order /\ lease' = lease
    BY DEF CloseOpenBid, SetMarket, CloseBids, Market
  <1>2. BondsFollow(Market)'
    BY <1>1 DEF Coherent, BondsFollow, Market
  <1>3. LeasesFollow(Market)'
    BY <1>1 DEF Coherent, LeasesFollow, Market
  <1>4. OrdersMatched(Market)'
    BY <1>1 DEF Coherent, OrdersMatched, Market
  <1>5. Sourced(Market)'
    BY <1>1 DEF Coherent, Sourced, Market
  <1>6. QED
    BY <1>2, <1>3, <1>4, <1>5 DEF Coherent

LEMMA CreateBidCoherent ==
    ASSUME MarketInv, Coherent(Market), NEW b \in Bids, CreateBid(b)
    PROVE  Coherent(Market)'
  <1>1. /\ bid[b] = "none"
        /\ \A c \in Bids : bid'[c] = IF c = b THEN "open" ELSE bid[c]
        /\ \A c \in Bids : bond'[c] = IF c = b THEN "held" ELSE bond[c]
        /\ dep' = dep /\ grp' = grp /\ order' = order /\ lease' = lease
    BY DEF CreateBid, MarketInv, Records, Market
  <1>2. BondsFollow(Market)'
    BY <1>1 DEF Coherent, BondsFollow, Market
  <1>3. LeasesFollow(Market)'
    BY <1>1 DEF Coherent, LeasesFollow, Market
  <1>4. OrdersMatched(Market)'
    BY <1>1 DEF Coherent, OrdersMatched, Market
  <1>5. Sourced(Market)'
    BY <1>1 DEF Coherent, Sourced, Market
  <1>6. QED
    BY <1>2, <1>3, <1>4, <1>5 DEF Coherent

\* The bid and its order are matched; one other open bid may be lost.
LEMMA CreateLeaseCoherent ==
    ASSUME MarketInv, Coherent(Market), NEW b \in Bids, CreateLease(b)
    PROVE  Coherent(Market)'
  <1> DEFINE o == OrderOf(b)
             others == {c \in Bids : OrderOf(c) = o /\ c # b /\ bid[c] = "open"}
             matched == [Market EXCEPT !.lease[b] = "active", !.order[o] = "active",
                                       !.bid[b] = "active"]
  <1>1. Market \in Records /\ o \in Orders
    BY BidType DEF MarketInv
  <1>2. /\ bid[b] = "open" /\ order[o] = "open"
        /\ \/ SetMarket(matched)
           \/ \E first \in others :
                SetMarket([matched EXCEPT !.bid[first] = "lost", !.bond[first] = "returned"])
    BY DEF CreateLease
  <1>3. /\ matched.dep = dep /\ matched.grp = grp /\ matched.bond = bond
        /\ matched.order = [order EXCEPT ![o] = "active"]
        /\ matched.lease = [lease EXCEPT ![b] = "active"]
        /\ matched.bid = [bid EXCEPT ![b] = "active"]
        /\ matched \in Records
    BY <1>1 DEF Market, Records
  <1> HIDE DEF matched
  <1>4. PICK lost \in SUBSET others :
            /\ dep' = dep /\ grp' = grp
            /\ order' = [order EXCEPT ![o] = "active"]
            /\ lease' = [lease EXCEPT ![b] = "active"]
            /\ \A c \in Bids :
                /\ bid'[c] = IF c = b THEN "active" ELSE IF c \in lost THEN "lost" ELSE bid[c]
                /\ bond'[c] = IF c \in lost THEN "returned" ELSE bond[c]
    <2>1. CASE SetMarket(matched)
      <3>1. {} \in SUBSET others
        OBVIOUS
      <3>2. /\ dep' = dep /\ grp' = grp
            /\ order' = [order EXCEPT ![o] = "active"]
            /\ lease' = [lease EXCEPT ![b] = "active"]
            /\ bid' = [bid EXCEPT ![b] = "active"] /\ bond' = bond
        BY <1>3, <2>1 DEF SetMarket
      <3>3. bid \in [Bids -> {"none", "open", "active", "lost", "closed"}]
        BY <1>1 DEF Records, Market
      <3>4. \A c \in Bids : bid'[c] = IF c = b THEN "active" ELSE bid[c]
        BY <3>2, <3>3
      <3>5. QED
        BY <3>1, <3>2, <3>4
    <2>2. ASSUME NEW first \in others,
                 SetMarket([matched EXCEPT !.bid[first] = "lost", !.bond[first] = "returned"])
          PROVE  \E lost \in SUBSET others :
                    /\ dep' = dep /\ grp' = grp
                    /\ order' = [order EXCEPT ![o] = "active"]
                    /\ lease' = [lease EXCEPT ![b] = "active"]
                    /\ \A c \in Bids :
                        /\ bid'[c] = IF c = b THEN "active"
                                     ELSE IF c \in lost THEN "lost" ELSE bid[c]
                        /\ bond'[c] = IF c \in lost THEN "returned" ELSE bond[c]
      <3>1. {first} \in SUBSET others /\ first # b /\ first \in Bids
        OBVIOUS
      <3>2. /\ dep' = dep /\ grp' = grp
            /\ order' = [order EXCEPT ![o] = "active"]
            /\ lease' = [lease EXCEPT ![b] = "active"]
            /\ bid' = [[bid EXCEPT ![b] = "active"] EXCEPT ![first] = "lost"]
            /\ bond' = [bond EXCEPT ![first] = "returned"]
        BY <1>3, <2>2 DEF SetMarket, Records
      <3>3. /\ bid \in [Bids -> {"none", "open", "active", "lost", "closed"}]
            /\ bond \in [Bids -> {"none", "held", "returned"}]
        BY <1>1 DEF Records, Market
      <3>4. \A c \in Bids :
                /\ bid'[c] = IF c = b THEN "active" ELSE IF c \in {first} THEN "lost" ELSE bid[c]
                /\ bond'[c] = IF c \in {first} THEN "returned" ELSE bond[c]
        BY <3>1, <3>2, <3>3
      <3>5. QED
        BY <3>1, <3>2, <3>4
    <2>3. QED
      BY <1>2, <2>1, <2>2
  <1>5. /\ \A p \in Orders : order'[p] = IF p = o THEN "active" ELSE order[p]
        /\ \A c \in Bids : lease'[c] = IF c = b THEN "active" ELSE lease[c]
    BY <1>1, <1>4 DEF Records, Market
  <1>6. /\ \A c \in lost : c # b /\ bid[c] = "open"
        /\ \A c \in Bids : OrderOf(c) = o => bid[c] # "active"
        /\ \A c \in Bids : lease[c] \in {"active", "reclaiming"} <=> bid[c] = "active"
    BY <1>2, <1>4 DEF Coherent, LeasesFollow, Market
  <1> HIDE DEF others
  <1>7. BondsFollow(Market)'
    <2>1. ASSUME NEW c \in Bids
          PROVE  /\ bid'[c] \in {"open", "active"} <=> bond'[c] = "held"
                 /\ bid'[c] \in {"lost", "closed"} <=> bond'[c] = "returned"
      <3>1. /\ bid[c] \in {"open", "active"} <=> bond[c] = "held"
            /\ bid[c] \in {"lost", "closed"} <=> bond[c] = "returned"
        BY DEF Coherent, BondsFollow, Market
      <3>2. /\ bid'[c] = IF c = b THEN "active" ELSE IF c \in lost THEN "lost" ELSE bid[c]
            /\ bond'[c] = IF c \in lost THEN "returned" ELSE bond[c]
        BY <1>4
      <3>3. CASE c = b
        BY <1>2, <1>6, <3>1, <3>2, <3>3
      <3>4. CASE c \in lost
        BY <1>6, <3>2, <3>4
      <3>5. CASE c # b /\ c \notin lost
        BY <3>1, <3>2, <3>5
      <3>6. QED
        BY <3>3, <3>4, <3>5
    <2>2. QED
      BY <2>1 DEF BondsFollow, Market
  <1>8. LeasesFollow(Market)'
    <2>1. ASSUME NEW c \in Bids
          PROVE  /\ lease'[c] \in {"active", "reclaiming"} <=> bid'[c] = "active"
                 /\ bid'[c] = "active" => order'[OrderOf(c)] = "active"
      BY <1>4, <1>5, <1>6, BidType DEF Coherent, LeasesFollow, Market
    <2>2. ASSUME NEW c \in Bids, NEW e \in Bids, OrderOf(c) = OrderOf(e),
                 bid'[c] = "active", bid'[e] = "active"
          PROVE  c = e
      BY <1>4, <1>6, <2>2 DEF Coherent, LeasesFollow, Market
    <2>3. QED
      BY <2>1, <2>2 DEF LeasesFollow, Market
  <1>9. OrdersMatched(Market)'
    <2>1. ASSUME NEW p \in Orders, order'[p] = "active"
          PROVE  \E c \in Bids : OrderOf(c) = p /\ bid'[c] = "active"
      <3>1. CASE p = o
        BY <1>4, <3>1
      <3>2. CASE p # o
        <4>1. PICK c \in Bids : OrderOf(c) = p /\ bid[c] = "active"
          BY <1>5, <2>1, <3>2 DEF Coherent, OrdersMatched, Market
        <4>2. QED
          BY <1>4, <1>6, <4>1
      <3>3. QED
        BY <3>1, <3>2
    <2>2. QED
      BY <2>1 DEF OrdersMatched, Market
  <1>10. Sourced(Market)'
    BY <1>1, <1>2, <1>4, <1>5 DEF Coherent, Sourced, Market
  <1>11. QED
    BY <1>7, <1>8, <1>9, <1>10 DEF Coherent

LEMMA StartReclaimCoherent ==
    ASSUME MarketInv, Coherent(Market), NEW b \in Bids, LeaseStartReclaim(b)
    PROVE  Coherent(Market)'
  <1>1. /\ lease[b] = "active"
        /\ \A c \in Bids : lease'[c] = IF c = b THEN "reclaiming" ELSE lease[c]
        /\ dep' = dep /\ grp' = grp /\ order' = order /\ bid' = bid /\ bond' = bond
    BY DEF LeaseStartReclaim, MarketInv, Records, Market
  <1>2. LeasesFollow(Market)'
    BY <1>1 DEF Coherent, LeasesFollow, Market
  <1>3. QED
    BY <1>1, <1>2 DEF Coherent, BondsFollow, OrdersMatched, Sourced, Market

LEMMA OnlyHookCoherent ==
    ASSUME MarketInv, Coherent(Market), NEW d \in Accounts, Follow(Market, d)
    PROVE  Coherent(Market)'
  BY FollowedFields, FollowedCoherent, SetMarketCoherent DEF Follow, MarketInv

LEMMA CloseLeasedBidCoherent ==
    ASSUME MarketInv, Coherent(Market), NEW b \in Bids, CloseLeasedBid(b)
    PROVE  Coherent(Market)'
  <1> DEFINE d == Deployment(b)
             g == GroupOf(OrderOf(b))
             ended == EndedLease(b)
             m == SetGroups(ended, {g}, "paused")
  <1>1. /\ Market \in Records /\ d \in Accounts /\ g \in Groups /\ d = DeploymentOf[g]
        /\ bid[b] = "active"
    BY BidType DEF MarketInv, CloseLeasedBid, Deployment
  <1>2. dep[d] # "none"
    BY <1>1, BidType DEF Coherent, LeasesFollow, Sourced, Market
  <1>3. ended \in Records /\ ended.dep = dep /\ Coherent(ended)
    BY <1>1, EndedLeaseType, EndedLeaseCoherent
  <1>4. SetMarket(Followed(m, d))
    BY DEF CloseLeasedBid, Follow, EndedLease
  <1> HIDE DEF ended, g
  <1>5. m \in Records /\ Coherent(m)
    BY <1>1, <1>2, <1>3, SetGroupsFields, SetGroupsCoherent
  <1> HIDE DEF m, d
  <1>6. QED
    BY <1>1, <1>4, <1>5, FollowedFields, FollowedCoherent, SetMarketCoherent

LEMMA CloseLeaseCoherent ==
    ASSUME MarketInv, Coherent(Market), NEW b \in Bids, CloseLease(b)
    PROVE  Coherent(Market)'
  <1> DEFINE d == Deployment(b)
             g == GroupOf(OrderOf(b))
             ended == EndedLease(b)
             after == Followed(ended, d)
  <1>1. Market \in Records /\ d \in Accounts /\ g \in Groups /\ bid[b] = "active"
    BY BidType DEF MarketInv, CloseLease
  <1>2. ended \in Records /\ Coherent(ended)
    BY <1>1, EndedLeaseType, EndedLeaseCoherent
  <1>3. IF after.grp[g] # "open" THEN SetMarket(after)
        ELSE CanCreateOrder(after, g) /\ SetMarket(CreateOrder(after, g))
    BY DEF CloseLease, EndedLease
  <1> HIDE DEF ended, d, g
  <1>4. after \in Records /\ Coherent(after)
    BY <1>1, <1>2, FollowedFields, FollowedCoherent
  <1> HIDE DEF after
  <1>5. CASE after.grp[g] # "open"
    BY <1>3, <1>4, <1>5, SetMarketCoherent
  <1>6. CASE after.grp[g] = "open"
    BY <1>1, <1>3, <1>4, <1>6, CreateOrderFields, CreateOrderCoherent, SetMarketCoherent
  <1>7. QED
    BY <1>5, <1>6

LEMMA CoherentInductive == MarketInv /\ Coherent(Market) /\ [Next]_vars => Coherent(Market)'
  <1> SUFFICES ASSUME MarketInv, Coherent(Market), [Next]_vars
               PROVE  Coherent(Market)'
    OBVIOUS
  <1>1. CASE UNCHANGED vars \/ Tick
    <2>1. dep' = dep /\ grp' = grp /\ order' = order /\ bid' = bid /\ lease' = lease /\ bond' = bond
      BY <1>1 DEF vars, marketVars, Tick
    <2>2. QED
      BY <2>1 DEF Coherent, BondsFollow, LeasesFollow, OrdersMatched, Sourced, Market
  <1>2. ASSUME NEW d \in Accounts, CreateDeployment(d) \/ CloseDeployment(d) \/ Deposit(d)
        PROVE  Coherent(Market)'
    BY <1>2, CreateDeploymentCoherent, OnlyHookCoherent DEF CloseDeployment, Deposit
  <1>3. ASSUME NEW g \in Groups, CloseGroup(g) \/ PauseGroup(g) \/ StartGroup(g)
        PROVE  Coherent(Market)'
    BY <1>3, EndGroupCoherent, StartGroupCoherent DEF CloseGroup, PauseGroup
  <1>4. ASSUME NEW b \in Bids,
               \/ CreateBid(b) \/ CloseBid(b)
               \/ CreateLease(b) \/ CloseLease(b) \/ WithdrawLease(b) \/ LeaseStartReclaim(b)
        PROVE  Coherent(Market)'
    <2>1. CASE WithdrawLease(b)
      BY <2>1, BidType, OnlyHookCoherent DEF WithdrawLease
    <2>2. CASE CreateBid(b) \/ CloseBid(b)
      BY <2>2, CreateBidCoherent, CloseOpenBidCoherent, CloseLeasedBidCoherent DEF CloseBid
    <2>3. CASE CreateLease(b) \/ CloseLease(b) \/ LeaseStartReclaim(b)
      BY <2>3, CreateLeaseCoherent, CloseLeaseCoherent, StartReclaimCoherent
    <2>4. QED
      BY <1>4, <2>1, <2>2, <2>3
  <1>5. QED
    BY <1>1, <1>2, <1>3, <1>4 DEF Next

\* The records of the market are coherent after every message, with whatever
\* the escrow hook did in it.
THEOREM RecordsCoherent == Spec => []Coherent(Market)
  <1>1. Init => Coherent(Market)
    BY DEF Init, Market, Coherent, BondsFollow, LeasesFollow, OrdersMatched, Sourced
  <1>2. QED
    BY <1>1, MarketInvariant, CoherentInductive, PTL DEF Spec

\* Closing a deployment, a group, a bid or a lease, draining an account or losing
\* to another bid ends a bid together with its bond (OnBidLost, OnBidClosed).
THEOREM BondsFollowBids == Spec => []BondFollowsBid
  <1>1. Coherent(Market) => BondFollowsBid
    BY DEF Coherent, BondsFollow, BondFollowsBid, Market
  <1>2. QED
    BY <1>1, RecordsCoherent, PTL

\* A lease runs with exactly one active bid of a matched order, and all three end
\* together (OnGroupClosed, CreateLease, CloseLease, CloseBid).
THEOREM LeaseBidOrderAgree == Spec => []LeaseBidOrder
  <1>1. Coherent(Market) => LeaseBidOrder
    BY DEF Coherent, LeasesFollow, OrdersMatched, LeaseBidOrder, LiveLease, Market
  <1>2. QED
    BY <1>1, RecordsCoherent, PTL

-----------------------------------------------------------------------------
(* The orders of a group are numbered in the order they are placed *)

\* Among finite sets there is one that contains no other.
LEMMA SmallestSet ==
    ASSUME NEW S, NEW T, T \subseteq FiniteSubsetsOf(S), T # {}
    PROVE  \E X \in T : \A Y \in T : Y \subseteq X => Y = X
  <1>1. PICK X \in T : \A Y \in T : <<Y, X>> \notin StrictSubsetOrdering(S)
    <2>1. IsWellFoundedOn(StrictSubsetOrdering(S), FiniteSubsetsOf(S))
      BY FS_StrictSubsetOrderingWellFounded
    <2>2. QED
      BY <2>1, WFMin
  <1>2. T \subseteq SUBSET S
    BY DEF FiniteSubsetsOf
  <1>3. QED
    BY <1>1, <1>2 DEF StrictSubsetOrdering

\* The least-number principle, of a set.
LEMMA LeastNumber ==
    ASSUME NEW S \in SUBSET Nat, S # {}
    PROVE  \E n \in S : \A m \in S : n <= m
  <1> DEFINE T == {1..n : n \in S}
  <1>1. T \subseteq FiniteSubsetsOf(Nat) /\ T # {}
    <2>1. ASSUME NEW n \in S PROVE IsFiniteSet(1..n) /\ 1..n \in SUBSET Nat
      BY FS_Interval
    <2>2. QED
      BY <2>1 DEF FiniteSubsetsOf
  <1>2. PICK X \in T : \A Y \in T : Y \subseteq X => Y = X
    <2> HIDE DEF T
    <2>1. QED
      BY <1>1, SmallestSet
  <1>3. PICK n \in S : X = 1..n
    BY <1>2
  <1>4. ASSUME NEW m \in S, m < n PROVE FALSE
    <2>1. 1..m \subseteq 1..n /\ 1..m \in T
      BY <1>4
    <2>2. 1..m = 1..n
      <3> HIDE DEF T
      <3>1. QED
        BY <1>2, <1>3, <2>1
    <2>3. n \in 1..n /\ n \notin 1..m
      BY <1>4
    <2>4. QED
      BY <2>2, <2>3
  <1>5. QED
    BY <1>4

\* A set of numbers without gaps is counted by its greatest one.
LEMMA InitialSegment ==
    ASSUME NEW M \in Nat, NEW S \in SUBSET (1..M),
           \A i, j \in 1..M : i < j /\ j \in S => i \in S
    PROVE  Cardinality(S) \in Nat /\ S = 1..Cardinality(S)
  <1>1. PICK n \in (1..(M + 1)) \ S : \A m \in (1..(M + 1)) \ S : n <= m
    <2>1. M + 1 \in (1..(M + 1)) \ S /\ (1..(M + 1)) \ S \in SUBSET Nat
      OBVIOUS
    <2>2. QED
      BY <2>1, LeastNumber
  <1>2. S = 1..(n - 1)
    <2>1. ASSUME NEW i \in 1..(n - 1) PROVE i \in S
      BY <1>1
    <2>2. ASSUME NEW i \in S PROVE i \in 1..(n - 1)
      <3>1. CASE i > n
        BY <1>1, <3>1
      <3>2. QED
        BY <1>1, <3>1
    <2>3. QED
      BY <2>1, <2>2
  <1>3. Cardinality(1..(n - 1)) = n - 1
    <2>1. n - 1 \in Nat /\ 1 \in Int
      BY <1>1
    <2>2. QED
      BY <2>1, FS_Interval
  <1>4. QED
    BY <1>1, <1>2, <1>3

\* An order is placed when all earlier ones of its group are closed.
Numbered(m) ==
    \A g \in Groups : \A i, j \in 1..MaxOrders :
        i < j /\ m.order[<<g, j>>] # "none" => m.order[<<g, i>>] = "closed"

LEMMA OrdersOf ==
    ASSUME NEW o \in Orders, NEW g, GroupOf(o) = g
    PROVE  \E i \in 1..MaxOrders : o = <<g, i>>
  BY DEF Orders, GroupOf

LEMMA OrderIn ==
    ASSUME NEW g \in Groups, NEW i \in 1..MaxOrders
    PROVE  <<g, i>> \in Orders /\ GroupOf(<<g, i>>) = g
  BY DEF Orders, GroupOf

\* A group has at most one live order.
LEMMA OneLive ==
    ASSUME NEW m \in Records, Numbered(m), NEW o1 \in Orders, NEW o2 \in Orders,
           GroupOf(o1) = GroupOf(o2), LiveOrder(o1, m), LiveOrder(o2, m)
    PROVE  o1 = o2
  <1>1. PICK g \in Groups, i \in 1..MaxOrders : o1 = <<g, i>>
    BY DEF Orders
  <1>2. PICK j \in 1..MaxOrders : o2 = <<g, j>>
    BY <1>1 DEF Orders, GroupOf
  <1>3. i \in Int /\ j \in Int
    BY MarketAssumption
  <1>4. CASE i < j
    BY <1>1, <1>2, <1>4 DEF Numbered, LiveOrder
  <1>5. CASE j < i
    BY <1>1, <1>2, <1>5 DEF Numbered, LiveOrder
  <1>6. QED
    BY <1>1, <1>2, <1>3, <1>4, <1>5

\* The number of a new order is free, and all before it are closed.
LEMMA NextIsFree ==
    ASSUME NEW m \in Records, NEW g \in Groups, Numbered(m), CanCreateOrder(m, g)
    PROVE  /\ NextOrder(m, g) \in 1..MaxOrders
           /\ m.order[<<g, NextOrder(m, g)>>] = "none"
           /\ \A i \in 1..MaxOrders : i < NextOrder(m, g) => m.order[<<g, i>>] = "closed"
  <1> DEFINE S == {i \in 1..MaxOrders : m.order[<<g, i>>] = "closed"}
             ended == {o \in Orders : GroupOf(o) = g /\ m.order[o] = "closed"}
  <1>1. MaxOrders \in Nat
    BY MarketAssumption
  <1>2. \A i \in 1..MaxOrders : m.order[<<g, i>>] \in {"none", "closed"}
    BY OrderIn DEF Records, CanCreateOrder, LiveOrder
  <1>3. Cardinality(S) \in Nat /\ S = 1..Cardinality(S)
    <2>1. S \in SUBSET (1..MaxOrders)
      OBVIOUS
    <2>2. \A i, j \in 1..MaxOrders : i < j /\ j \in S => i \in S
      BY DEF Numbered
    <2>3. QED
      BY <1>1, <2>1, <2>2, InitialSegment
  <1>4. Cardinality(ended) = Cardinality(S)
    <2> DEFINE f == [i \in S |-> <<g, i>>]
    <2>1. IsFiniteSet(S)
      <3>1. IsFiniteSet(1..MaxOrders)
        BY <1>1, FS_Interval
      <3>2. QED
        BY <3>1, FS_Subset
    <2>2. f \in Bijection(S, ended)
      <3>1. f \in [S -> ended]
        BY OrderIn
      <3>2. \A i, j \in S : f[i] = f[j] => i = j
        OBVIOUS
      <3>3. \A o \in ended : \E i \in S : f[i] = o
        BY OrdersOf
      <3>4. QED
        BY <3>1, <3>2, <3>3 DEF Bijection, Injection, Surjection, IsInjective
    <2>3. QED
      BY <2>1, <2>2, FS_Bijection DEF ExistsBijection
  <1>5. NextOrder(m, g) = 1 + Cardinality(S)
    BY <1>4 DEF NextOrder
  <1> DEFINE n == Cardinality(S)
  <1> HIDE DEF n
  <1>6. n \in Nat /\ S = 1..n /\ NextOrder(m, g) = n + 1 /\ n + 1 <= MaxOrders
    BY <1>3, <1>5 DEF CanCreateOrder, n
  <1>7. n + 1 \notin S /\ n + 1 \in 1..MaxOrders
    BY <1>6
  <1>8. \A i \in 1..MaxOrders : i < n + 1 => i \in S
    BY <1>6
  <1>9. QED
    BY <1>2, <1>6, <1>7, <1>8

HasOrder(m, g) == \E o \in Orders : GroupOf(o) = g /\ LiveOrder(o, m)

\* Only an open group outside X has a live order, and it has one if no other
\* account collects the payments of its deployment.
Served(m, X) ==
    \A g \in Groups :
        /\ HasOrder(m, g) => m.grp[g] = "open" /\ g \notin X
        /\ m.grp[g] = "open" /\ g \notin X /\ Untouched(DeploymentOf[g]) => HasOrder(m, g)

Ordered(m, X) == Numbered(m) /\ Served(m, X)

\* A record with the same groups, in which an order that was not started, live
\* or closed still is.
LEMMA OrderedDependsOn ==
    ASSUME NEW m \in Records, NEW n \in Records, NEW X, Ordered(m, X), n.grp = m.grp,
           \A o \in Orders : /\ m.order[o] = "none" <=> n.order[o] = "none"
                             /\ m.order[o] = "closed" <=> n.order[o] = "closed"
    PROVE  Ordered(n, X)
  <1>1. Numbered(n)
    BY OrderIn DEF Ordered, Numbered
  <1>2. \A o \in Orders : LiveOrder(o, m) <=> LiveOrder(o, n)
    BY DEF LiveOrder, Records
  <1>3. Served(n, X)
    BY <1>2 DEF Ordered, Served, HasOrder
  <1>4. QED
    BY <1>1, <1>3 DEF Ordered

\* The hook leaves the groups it closed without a live order.
LEMMA GroupsClosedOrdered ==
    ASSUME NEW m \in Records, NEW groups \in SUBSET Groups, NEW X \in SUBSET Groups,
           NEW state \in {"closed", "insufficient"}, Ordered(m, X)
    PROVE  Ordered(GroupsClosed(m, groups, state), X \cup groups)
  <1> DEFINE r == GroupsClosed(m, groups, state)
  <1>1. /\ r \in Records /\ r.grp = m.grp
        /\ \A o \in Orders : r.order[o] = IF GroupOf(o) \in groups /\ LiveOrder(o, m)
                                          THEN "closed" ELSE m.order[o]
    BY GroupsClosedFields
  <1> HIDE DEF r
  <1>2. Numbered(r)
    <2>1. ASSUME NEW g \in Groups, NEW i \in 1..MaxOrders, NEW j \in 1..MaxOrders,
                 i < j, r.order[<<g, j>>] # "none"
          PROVE  r.order[<<g, i>>] = "closed"
      <3>1. m.order[<<g, j>>] # "none"
        BY <1>1, <2>1, OrderIn DEF LiveOrder
      <3>2. m.order[<<g, i>>] = "closed"
        BY <2>1, <3>1 DEF Ordered, Numbered
      <3>3. QED
        BY <1>1, <3>2, OrderIn
    <2>2. QED
      BY <2>1 DEF Numbered
  <1>3. \A o \in Orders : LiveOrder(o, r) <=> LiveOrder(o, m) /\ GroupOf(o) \notin groups
    BY <1>1 DEF LiveOrder
  <1>4. Served(r, X \cup groups)
    BY <1>1, <1>3 DEF Ordered, Served, HasOrder
  <1>5. QED
    BY <1>2, <1>4 DEF Ordered, r

\* Groups without a live order that are no longer open need none.
LEMMA SetGroupsOrdered ==
    ASSUME NEW m \in Records, NEW groups \in SUBSET Groups, NEW X \in SUBSET Groups,
           NEW state \in {"paused", "insufficient", "closed"}, Ordered(m, X \cup groups)
    PROVE  Ordered(SetGroups(m, groups, state), X)
  <1> DEFINE r == SetGroups(m, groups, state)
  <1>1. /\ r \in Records /\ r.order = m.order
        /\ \A g \in Groups : r.grp[g] = IF g \in groups THEN state ELSE m.grp[g]
    BY SetGroupsFields
  <1> HIDE DEF r
  <1>2. Numbered(r)
    BY <1>1 DEF Ordered, Numbered
  <1>3. Served(r, X)
    BY <1>1 DEF Ordered, Served, HasOrder, LiveOrder
  <1>4. QED
    BY <1>2, <1>3 DEF Ordered, r

LEMMA HookedOrdered ==
    ASSUME NEW m \in Records, NEW d \in Accounts, NEW X \in SUBSET Groups, Ordered(m, X)
    PROVE  Ordered(Hooked(m, d), X)
  <1>1. ASSUME NEW state \in {"closed", "insufficient"}
        PROVE  Ordered(DeploymentClosed(m, d, state), X)
    <2> DEFINE e == Ended(m, d)
               groups == OpenGroups(m, d)
               c == GroupsClosed(e, groups, state)
    <2>1. groups \in SUBSET Groups
      BY DEF OpenGroups
    <2>2. e \in Records /\ e.grp = m.grp /\ e.order = m.order
      BY EndedFields
    <2>3. DeploymentClosed(m, d, state) = SetGroups(c, groups, state)
      BY DEF DeploymentClosed, OpenGroups, Ended
    <2> HIDE DEF groups, e
    <2>4. Ordered(e, X)
      BY <2>2, OrderedDependsOn
    <2>5. c \in Records /\ Ordered(c, X \cup groups)
      BY <2>1, <2>2, <2>4, GroupsClosedFields, GroupsClosedOrdered, Zenon
    <2> HIDE DEF c
    <2>6. QED
      BY <2>1, <2>3, <2>5, SetGroupsOrdered
  <1>2. Hooked(m, d) \in {m, DeploymentClosed(m, d, "closed"),
                             DeploymentClosed(m, d, "insufficient")}
    BY DEF Hooked
  <1>3. QED
    BY <1>1, <1>2

\* The new order is the only live one of its group, and the last one.
LEMMA CreateOrderOrdered ==
    ASSUME NEW m \in Records, NEW g \in Groups, CanCreateOrder(m, g), m.grp[g] = "open",
           Ordered(m, {g})
    PROVE  Ordered(CreateOrder(m, g), {})
  <1> DEFINE k == NextOrder(m, g)
             r == CreateOrder(m, g)
  <1>1. /\ k \in 1..MaxOrders
        /\ m.order[<<g, k>>] = "none"
        /\ \A i \in 1..MaxOrders : i < k => m.order[<<g, i>>] = "closed"
    BY NextIsFree DEF Ordered
  <1>2. /\ <<g, k>> \in Orders /\ r.grp = m.grp
        /\ r.order = [m.order EXCEPT ![<<g, k>>] = "open"]
    BY CreateOrderFields
  <1> HIDE DEF k, r
  <1>3. \A o \in Orders : r.order[o] = IF o = <<g, k>> THEN "open" ELSE m.order[o]
    BY <1>2 DEF Records
  <1>4. Numbered(r)
    <2>1. ASSUME NEW h \in Groups, NEW i \in 1..MaxOrders, NEW j \in 1..MaxOrders,
                 i < j, r.order[<<h, j>>] # "none"
          PROVE  r.order[<<h, i>>] = "closed"
      <3>1. CASE h = g /\ j = k
        BY <1>1, <1>3, <2>1, <3>1, OrderIn
      <3>2. CASE ~(h = g /\ j = k)
        <4>1. m.order[<<h, j>>] # "none"
          BY <1>3, <2>1, <3>2, OrderIn
        <4>2. m.order[<<h, i>>] = "closed"
          BY <2>1, <4>1 DEF Ordered, Numbered
        <4>3. <<h, i>> # <<g, k>>
          BY <1>1, <4>2
        <4>4. QED
          BY <1>3, <4>2, <4>3, OrderIn
      <3>3. QED
        BY <3>1, <3>2
    <2>2. QED
      BY <2>1 DEF Numbered
  <1>5. Served(r, {})
    <2>1. \A o \in Orders : LiveOrder(o, r) <=> o = <<g, k>> \/ LiveOrder(o, m)
      BY <1>3 DEF LiveOrder
    <2>2. GroupOf(<<g, k>>) = g
      BY DEF GroupOf
    <2>3. QED
      BY <1>2, <2>1, <2>2 DEF Ordered, Served, HasOrder
  <1>6. QED
    BY <1>4, <1>5 DEF Ordered, r

-----------------------------------------------------------------------------
(* Payments that end take their leases along *)

Paid == \A b \in Bids : LiveLease(b) => pay[b] = "open" /\ acct[Deployment(b)] = "open"

\* An escrow step on the account of d.  Of the payments that only their own
\* account collects it ends none but those in "closing" while the account stays
\* open.
PaymentStep(d, closing) ==
    /\ AccountStep(d)
    /\ \A p \in Payments : pay[p] = "open" =>
        /\ pay'[p] \in {"open", "closed", "overdrawn"}
        /\ Untouched(AccountOf[p]) /\ acct'[AccountOf[p]] = "open" /\ p \notin closing
             => pay'[p] = "open"

LEMMA SettleIsPaymentStep ==
    ASSUME LifecycleTypeOK, NEW d \in Accounts, NEW closing,
           acct[d] \in {"open", "overdrawn"}, SettleAndSave(d, closing)
    PROVE  PaymentStep(d, closing)
  <1>1. AccountStep(d)
    BY SettleIsAccountStep
  <1>2. PICK o \in Outcomes(d) :
            /\ pay' = PayAfter(d, o, closing)
            /\ acct' = [acct EXCEPT ![d] = IF Overdraws(o) THEN "overdrawn" ELSE @]
    BY DEF SettleAndSave, SaveSettled
  <1>3. ASSUME NEW p \in Payments, pay[p] = "open"
        PROVE  /\ pay'[p] \in {"open", "closed", "overdrawn"}
               /\ Untouched(AccountOf[p]) /\ acct'[AccountOf[p]] = "open" /\ p \notin closing
                    => pay'[p] = "open"
    <2>1. pay'[p] = IF p \notin Due(d) THEN pay[p]
                    ELSE IF Overdraws(o) THEN "overdrawn"
                    ELSE IF p \in closing THEN "closed" ELSE "open"
      BY <1>2 DEF PayAfter
    <2>2. CASE p \notin Due(d)
      BY <1>3, <2>1, <2>2
    <2>3. CASE p \in Due(d)
      <3>1. Untouched(AccountOf[p]) => AccountOf[p] = d
        BY <2>3, NotCollected
      <3>2. acct'[d] = "open" => ~Overdraws(o)
        BY <1>2 DEF LifecycleTypeOK
      <3>3. QED
        BY <1>3, <2>1, <2>3, <3>1, <3>2
    <2>4. QED
      BY <2>2, <2>3
  <1>4. QED
    BY <1>1, <1>3 DEF PaymentStep

LEMMA CloseIsPaymentStep ==
    ASSUME LifecycleInv, NEW d \in Accounts, AccountClose(d)
    PROVE  PaymentStep(d, {})
  <1>1. AccountStep(d) /\ acct \in [Accounts -> States]
    BY CloseIsAccountStep DEF LifecycleInv, LifecycleTypeOK
  <1>2. acct'[d] # "open" \/ pay' = pay
    BY <1>1 DEF AccountClose
  <1>3. \A p \in Payments : Untouched(AccountOf[p]) /\ AccountOf[p] # d => pay'[p] = pay[p]
    BY NotCollected DEF AccountClose, PayAfter
  <1>4. \A p \in Payments : pay[p] = "open" => pay'[p] \in {"open", "closed", "overdrawn"}
    BY DEF AccountClose, PayAfter
  <1>5. QED
    BY <1>1, <1>2, <1>3, <1>4 DEF PaymentStep

LEMMA DepositIsPaymentStep ==
    ASSUME LifecycleInv, NEW d \in Accounts, AccountDeposit(d)
    PROVE  PaymentStep(d, {})
  <1>1. AccountStep(d) /\ acct \in [Accounts -> States]
    BY DepositIsAccountStep DEF LifecycleInv, LifecycleTypeOK
  <1>2. acct'[d] # "open" \/ pay' = pay
    BY <1>1 DEF AccountDeposit, DepositOpen, DepositOverdrawn
  <1>3. \A p \in Payments : Untouched(AccountOf[p]) /\ AccountOf[p] # d => pay'[p] = pay[p]
    BY NotCollected DEF AccountDeposit, DepositOpen, DepositOverdrawn, PayAfter
  <1>4. \A p \in Payments : pay[p] = "open" => pay'[p] \in {"open", "closed", "overdrawn"}
    BY DEF AccountDeposit, DepositOpen, DepositOverdrawn, PayAfter
  <1>5. QED
    BY <1>1, <1>2, <1>3, <1>4 DEF PaymentStep

LEMMA WithdrawIsPaymentStep ==
    ASSUME LifecycleInv, NEW b \in Bids, PaymentWithdraw(b)
    PROVE  PaymentStep(Deployment(b), {})
  <1>1. Deployment(b) \in Accounts /\ AccountOf[b] = Deployment(b) /\ LifecycleTypeOK
    BY BidType DEF LifecycleInv
  <1>2. UNCHANGED escrowVars => PaymentStep(Deployment(b), {})
    BY <1>1, AccountUnchanged DEF PaymentStep, escrowVars
  <1>3. QED
    BY <1>1, <1>2, SettleIsPaymentStep DEF PaymentWithdraw, SettleAndSave

LEMMA EndIsPaymentStep ==
    ASSUME LifecycleInv, NEW b \in Bids, PaymentClose(b) \/ TryPaymentClose(b)
    PROVE  PaymentStep(Deployment(b), {b})
  <1>1. Deployment(b) \in Accounts /\ AccountOf[b] = Deployment(b) /\ LifecycleTypeOK
    BY BidType DEF LifecycleInv
  <1>2. UNCHANGED escrowVars => PaymentStep(Deployment(b), {b})
    BY <1>1, AccountUnchanged DEF PaymentStep, escrowVars
  <1>3. PaymentClose(b) => PaymentStep(Deployment(b), {b})
    BY <1>1, <1>2, SettleIsPaymentStep DEF PaymentClose, PaymentClosable
  <1>4. QED
    BY <1>2, <1>3 DEF TryPaymentClose

\* The hook reaches every running lease of the deployment it closes.
LEMMA HookEndsLeases ==
    ASSUME NEW m \in Records, NEW X, Coherent(m), Ordered(m, X), NEW d \in Accounts,
           NEW state \in {"closed", "insufficient"}, NEW b \in Bids,
           DeploymentClosed(m, d, state).lease[b] \in {"active", "reclaiming"}
    PROVE  Deployment(b) # d /\ m.lease[b] \in {"active", "reclaiming"}
  <1> DEFINE e == Ended(m, d)
             groups == OpenGroups(m, d)
             c == GroupsClosed(e, groups, state)
  <1>1. groups \in SUBSET Groups
    BY DEF OpenGroups
  <1>2. e \in Records /\ e.order = m.order /\ e.bid = m.bid /\ e.lease = m.lease
    BY EndedFields
  <1>3. DeploymentClosed(m, d, state).lease = c.lease
    BY DeploymentClosedFields
  <1> HIDE DEF e
  <1>4. c.lease[b] = IF b \in Closing(e, groups) /\ e.lease[b] \in {"active", "reclaiming"}
                     THEN state ELSE e.lease[b]
    BY <1>1, <1>2, GroupsClosedFields
  <1>5. m.lease[b] \in {"active", "reclaiming"} /\ b \notin Closing(e, groups)
    <2> HIDE DEF c, groups
    <2>1. QED
      BY <1>2, <1>3, <1>4
  <1>6. m.bid[b] = "active" /\ m.order[OrderOf(b)] = "active" /\ OrderOf(b) \in Orders
    BY <1>5, BidType DEF Coherent, LeasesFollow
  <1>7. m.grp[GroupOf(OrderOf(b))] = "open"
    BY <1>6, BidType DEF Ordered, Served, HasOrder, LiveOrder
  <1>8. GroupOf(OrderOf(b)) \notin groups
    BY <1>2, <1>5, <1>6 DEF Closing
  <1>9. QED
    BY <1>5, <1>7, <1>8, BidType DEF OpenGroups, Deployment

\* A lease that still runs after the hook of the account ran before, and its
\* account stays open.
LEMMA HookedLeases ==
    ASSUME MarketInv, NEW d \in Accounts, AccountStep(d), Paid,
           NEW m \in Records, NEW X, Coherent(m), Ordered(m, X), m.dep = dep,
           \A b \in Bids : m.lease[b] \in {"active", "reclaiming"} => LiveLease(b),
           NEW b \in Bids, Hooked(m, d).lease[b] \in {"active", "reclaiming"}
    PROVE  /\ m.lease[b] \in {"active", "reclaiming"}
           /\ pay[b] = "open" /\ acct'[Deployment(b)] = "open"
  <1>1. /\ m.lease[b] \in {"active", "reclaiming"}
        /\ Deployment(b) = d => m.dep[d] # "active" \/ acct'[d] \notin {"closed", "overdrawn"}
    BY HookEndsLeases DEF Hooked
  <1>2. /\ pay[b] = "open" /\ acct[Deployment(b)] = "open"
        /\ dep[Deployment(b)] = "active"
    BY <1>1, BidType DEF Paid, MarketInv, DeploymentFollowsAccount
  <1>3. CASE Deployment(b) # d
    BY <1>1, <1>2, <1>3, BidType DEF AccountStep
  <1>4. CASE Deployment(b) = d
    <2>1. acct'[d] \in States \ {"closed", "overdrawn"} /\ acct'[d] # "none"
      BY <1>1, <1>2, <1>4 DEF AccountStep
    <2>2. QED
      BY <1>1, <1>2, <1>4, <2>1 DEF States
  <1>5. QED
    BY <1>3, <1>4

\* A message that acts on the account of d and ends the leases whose payment it
\* closes, followed by both hooks.
LEMMA FollowedOrdered ==
    ASSUME MarketInv, Paid, NEW d \in Accounts, NEW closing, PaymentStep(d, closing),
           NEW m \in Records, NEW X \in SUBSET Groups, Coherent(m), Ordered(m, X), m.dep = dep,
           \A b \in Bids : m.lease[b] \in {"active", "reclaiming"}
                => LiveLease(b) /\ b \notin closing
    PROVE  /\ Ordered(Followed(m, d), X)
           /\ \A b \in Bids : Followed(m, d).lease[b] \in {"active", "reclaiming"}
                => pay'[b] = "open" /\ acct'[Deployment(b)] = "open"
  <1> DEFINE h == Hooked(m, d)
             r == Followed(m, d)
             ended == Unpaid(h)
  <1>1. h \in Records /\ Coherent(h) /\ Ordered(h, X)
    BY HookedFields, HookedCoherent, HookedOrdered
  <1>2. r = PaymentsEnded(h)
    BY DEF Followed
  <1>3. \A b \in ended : /\ b \in Bids /\ h.bid[b] = "active"
                         /\ pay'[b] # pay[b] /\ pay'[b] \in {"closed", "overdrawn"}
    BY DEF Unpaid
  <1>4. \A b \in Bids \ ended : \/ h.bid[b] # "active" \/ pay'[b] = pay[b]
                               \/ pay'[b] \notin {"closed", "overdrawn"}
    BY DEF Unpaid
  <1>5. \A b \in Bids : h.lease[b] \in {"active", "reclaiming"} =>
            /\ b \notin closing /\ pay[b] = "open" /\ acct'[Deployment(b)] = "open"
    BY HookedLeases DEF PaymentStep
  <1> HIDE DEF h, r
  <1>6. /\ r \in Records /\ r.grp = h.grp
        /\ \A o \in Orders : r.order[o] = IF \E b \in ended : OrderOf(b) = o
                                          THEN "closed" ELSE h.order[o]
        /\ \A b \in Bids : IF b \in ended THEN r.lease[b] \notin {"active", "reclaiming"}
                                           ELSE r.lease[b] = h.lease[b]
    BY <1>1, <1>2, PaymentsEndedFields
  <1> HIDE DEF ended
  <1>7. \A b \in ended : h.lease[b] \in {"active", "reclaiming"} /\ ~Untouched(Deployment(b))
    <2> SUFFICES ASSUME NEW b \in ended
                 PROVE  h.lease[b] \in {"active", "reclaiming"} /\ ~Untouched(Deployment(b))
      OBVIOUS
    <2>1. b \in Bids /\ h.lease[b] \in {"active", "reclaiming"}
      BY <1>1, <1>3 DEF Coherent, LeasesFollow
    <2>2. pay[b] = "open" /\ acct'[AccountOf[b]] = "open" /\ b \notin closing /\ b \in Payments
      BY <1>5, <2>1, BidType
    <2>3. pay'[b] # "open"
      BY <1>3
    <2>4. QED
      BY <2>1, <2>2, <2>3, BidType DEF PaymentStep
  <1>8. ASSUME NEW b \in Bids, r.lease[b] \in {"active", "reclaiming"}
        PROVE  pay'[b] = "open" /\ acct'[Deployment(b)] = "open"
    <2>1. b \notin ended /\ h.lease[b] \in {"active", "reclaiming"}
      BY <1>6, <1>8
    <2>2. pay[b] = "open" /\ acct'[Deployment(b)] = "open" /\ h.bid[b] = "active"
      BY <1>1, <1>5, <2>1 DEF Coherent, LeasesFollow
    <2>3. pay'[b] \in {"open", "closed", "overdrawn"}
      BY <2>2, BidType DEF PaymentStep
    <2>4. QED
      BY <1>4, <2>1, <2>2, <2>3
  <1>9. \A o \in Orders : h.order[o] = "none" => r.order[o] = "none"
    <2>1. \A b \in ended : h.order[OrderOf(b)] = "active"
      BY <1>1, <1>3 DEF Coherent, LeasesFollow
    <2>2. QED
      BY <1>6, <2>1
  <1>10. Numbered(r)
    <2>1. ASSUME NEW g \in Groups, NEW i \in 1..MaxOrders, NEW j \in 1..MaxOrders,
                 i < j, r.order[<<g, j>>] # "none"
          PROVE  r.order[<<g, i>>] = "closed"
      <3>1. h.order[<<g, j>>] # "none"
        BY <1>9, <2>1, OrderIn
      <3>2. h.order[<<g, i>>] = "closed"
        BY <1>1, <2>1, <3>1 DEF Ordered, Numbered
      <3>3. QED
        BY <1>6, <3>2, OrderIn
    <2>2. QED
      BY <2>1 DEF Numbered
  <1>11. Served(r, X)
    <2>1. ASSUME NEW g \in Groups, HasOrder(r, g)
          PROVE  r.grp[g] = "open" /\ g \notin X
      <3>1. HasOrder(h, g)
        BY <1>6, <2>1 DEF HasOrder, LiveOrder
      <3>2. QED
        BY <1>1, <1>6, <3>1 DEF Ordered, Served
    <2>2. ASSUME NEW g \in Groups, r.grp[g] = "open", g \notin X, Untouched(DeploymentOf[g])
          PROVE  HasOrder(r, g)
      <3>1. PICK o \in Orders : GroupOf(o) = g /\ LiveOrder(o, h)
        BY <1>1, <1>6, <2>2 DEF Ordered, Served, HasOrder
      <3>2. \A b \in ended : OrderOf(b) # o
        BY <1>7, <2>2, <3>1 DEF Deployment
      <3>3. LiveOrder(o, r)
        BY <1>6, <3>1, <3>2 DEF LiveOrder
      <3>4. QED
        BY <3>1, <3>3 DEF HasOrder
    <2>3. QED
      BY <2>1, <2>2 DEF Served
  <1>12. QED
    BY <1>8, <1>10, <1>11 DEF Ordered, r

-----------------------------------------------------------------------------
(* The messages keep the orders of every group so, and no lease unpaid *)

OrderedPaid == Ordered(Market, {}) /\ Paid

LEMMA SetMarketOrdered ==
    ASSUME NEW m \in Records, SetMarket(m), Ordered(m, {})
    PROVE  Ordered(Market, {})'
  <1>1. grp' = m.grp /\ order' = m.order
    BY DEF SetMarket
  <1>2. QED
    BY <1>1 DEF Ordered, Numbered, Served, HasOrder, LiveOrder, Market

LEMMA FollowOrderedPaid ==
    ASSUME MarketInv, Paid, NEW d \in Accounts, NEW closing, PaymentStep(d, closing),
           NEW m \in Records, Coherent(m), Ordered(m, {}), m.dep = dep,
           \A b \in Bids : m.lease[b] \in {"active", "reclaiming"}
                => LiveLease(b) /\ b \notin closing,
           Follow(m, d)
    PROVE  OrderedPaid'
  <1>1. {} \in SUBSET Groups
    OBVIOUS
  <1>2. /\ Ordered(Followed(m, d), {})
        /\ \A b \in Bids : Followed(m, d).lease[b] \in {"active", "reclaiming"}
                => pay'[b] = "open" /\ acct'[Deployment(b)] = "open"
    BY <1>1, FollowedOrdered
  <1>3. Followed(m, d) \in Records /\ SetMarket(Followed(m, d))
    BY FollowedFields DEF Follow
  <1>4. Ordered(Market, {})'
    BY <1>2, <1>3, SetMarketOrdered
  <1>5. Paid'
    BY <1>2, <1>3 DEF Paid, LiveLease, SetMarket
  <1>6. QED
    BY <1>4, <1>5 DEF OrderedPaid

LEMMA OnlyHookOrdered ==
    ASSUME MarketInv, Coherent(Market), OrderedPaid,
           NEW d \in Accounts, PaymentStep(d, {}), Follow(Market, d)
    PROVE  OrderedPaid'
  <1>1. Market \in Records /\ Market.dep = dep /\ Market.lease = lease
    BY DEF MarketInv, Market
  <1> HIDE DEF Market
  <1>2. QED
    BY <1>1, FollowOrderedPaid DEF LiveLease, OrderedPaid

\* Once the matched order is closed its group has no live order left.
LEMMA EndedLeaseOrdered ==
    ASSUME Market \in Records, Coherent(Market), NEW b \in Bids, bid[b] = "active",
           Ordered(Market, {})
    PROVE  Ordered(EndedLease(b), {GroupOf(OrderOf(b))})
  <1> DEFINE r == EndedLease(b)
             o == OrderOf(b)
             g == GroupOf(o)
  <1>1. o \in Orders /\ g \in Groups /\ LiveOrder(o, Market)
    BY BidType DEF Coherent, LeasesFollow, LiveOrder, Market
  <1>2. /\ r.grp = Market.grp
        /\ \A p \in Orders : r.order[p] = IF p = o THEN "closed" ELSE Market.order[p]
    BY DEF EndedLease, CloseOrders, CloseBids, CloseLeases, Market
  <1>3. \A p \in Orders : GroupOf(p) = g /\ LiveOrder(p, Market) => p = o
    BY <1>1, OneLive DEF Ordered
  <1> HIDE DEF r, o
  <1>4. Numbered(r)
    <2>1. ASSUME NEW h \in Groups, NEW i \in 1..MaxOrders, NEW j \in 1..MaxOrders,
                 i < j, r.order[<<h, j>>] # "none"
          PROVE  r.order[<<h, i>>] = "closed"
      <3>1. Market.order[<<h, j>>] # "none"
        BY <1>1, <1>2, <2>1, OrderIn DEF LiveOrder
      <3>2. Market.order[<<h, i>>] = "closed"
        BY <2>1, <3>1 DEF Ordered, Numbered
      <3>3. QED
        BY <1>2, <3>2, OrderIn
    <2>2. QED
      BY <2>1 DEF Numbered
  <1>5. \A p \in Orders : LiveOrder(p, r) <=> LiveOrder(p, Market) /\ GroupOf(p) # g
    BY <1>2, <1>3 DEF LiveOrder
  <1>6. Served(r, {g})
    BY <1>2, <1>5 DEF Ordered, Served, HasOrder
  <1>7. QED
    BY <1>4, <1>6 DEF Ordered, r, o

LEMMA EndedLeaseLeases ==
    ASSUME Market \in Records, Coherent(Market), NEW b \in Bids, bid[b] = "active", NEW c \in Bids,
           EndedLease(b).lease[c] \in {"active", "reclaiming"}
    PROVE  LiveLease(c) /\ c \notin {b}
  <1>1. EndedLease(b).lease[c] = IF c = b /\ lease[c] \in {"active", "reclaiming"}
                                 THEN "closed" ELSE lease[c]
    BY DEF EndedLease, CloseOrders, CloseBids, CloseLeases, Market
  <1>2. QED
    BY <1>1 DEF LiveLease

LEMMA EndGroupOrdered ==
    ASSUME MarketInv, Coherent(Market), OrderedPaid,
           NEW g \in Groups, NEW state \in {"closed", "paused"}, grp[g] # "none",
           EndGroup(g, state)
    PROVE  OrderedPaid'
  <1> DEFINE bids == Closing(Market, {g})
             closed == GroupsClosed(Market, {g}, "closed")
             m == SetGroups(closed, {g}, state)
             d == DeploymentOf[g]
  <1>1. /\ d \in Accounts /\ {g} \in SUBSET Groups /\ {} \in SUBSET Groups
        /\ Market \in Records /\ Market.dep = dep /\ Market.lease = lease /\ dep[d] # "none"
        /\ LifecycleInv /\ LifecycleTypeOK /\ Ordered(Market, {}) /\ Paid
    BY MarketAssumption DEF MarketInv, LifecycleInv, Coherent, Sourced, Market, OrderedPaid
  <1>2. PaymentStep(d, bids)
    <2>1. UNCHANGED escrowVars \/ \E b \in bids : TryPaymentClose(b)
      BY DEF EndGroup
    <2>2. \A b \in bids : b \in Bids /\ Deployment(b) = d
      BY DEF Closing, Deployment
    <2>3. CASE UNCHANGED escrowVars
      BY <1>1, <2>3, AccountUnchanged DEF PaymentStep, escrowVars
    <2>4. ASSUME NEW b \in bids, TryPaymentClose(b) PROVE PaymentStep(d, bids)
      <3>1. PaymentStep(d, {b})
        BY <1>1, <2>2, <2>4, EndIsPaymentStep
      <3>2. QED
        BY <3>1 DEF PaymentStep
    <2>5. QED
      BY <2>1, <2>3, <2>4
  <1>3. /\ closed \in Records /\ closed.dep = dep
        /\ Coherent(closed) /\ Ordered(closed, {} \cup {g})
    BY <1>1, GroupsClosedFields, GroupsClosedCoherent, GroupsClosedOrdered, Zenon
  <1>4. \A b \in Bids : closed.lease[b] \in {"active", "reclaiming"} => LiveLease(b) /\ b \notin bids
    <2>1. \A b \in Bids : closed.lease[b] = IF b \in bids /\ lease[b] \in {"active", "reclaiming"}
                                            THEN "closed" ELSE lease[b]
      BY <1>1, GroupsClosedFields
    <2> HIDE DEF closed, bids
    <2>2. QED
      BY <2>1 DEF LiveLease
  <1>5. Follow(m, d)
    BY DEF EndGroup
  <1> HIDE DEF closed, bids
  <1>6. m \in Records /\ m.dep = dep /\ m.lease = closed.lease /\ Coherent(m)
    BY <1>1, <1>3, SetGroupsFields, SetGroupsCoherent
  <1>7. Ordered(m, {})
    BY <1>1, <1>3, SetGroupsOrdered
  <1> HIDE DEF m, d
  <1>8. QED
    BY <1>1, <1>2, <1>4, <1>5, <1>6, <1>7, FollowOrderedPaid

LEMMA CloseLeasedBidOrdered ==
    ASSUME MarketInv, Coherent(Market), OrderedPaid, NEW b \in Bids, CloseLeasedBid(b)
    PROVE  OrderedPaid'
  <1> DEFINE d == Deployment(b)
             g == GroupOf(OrderOf(b))
             ended == EndedLease(b)
             m == SetGroups(ended, {g}, "paused")
  <1>1. /\ Market \in Records /\ d \in Accounts /\ g \in Groups /\ d = DeploymentOf[g]
        /\ bid[b] = "active" /\ Follow(m, d) /\ PaymentStep(d, {b})
        /\ Ordered(Market, {}) /\ Paid
    BY BidType, EndIsPaymentStep
    DEF MarketInv, CloseLeasedBid, EndedLease, Deployment, OrderedPaid
  <1>2. /\ ended \in Records /\ ended.dep = dep /\ Coherent(ended) /\ Ordered(ended, {g})
        /\ \A c \in Bids : ended.lease[c] \in {"active", "reclaiming"} => LiveLease(c) /\ c \notin {b}
    BY <1>1, EndedLeaseType, EndedLeaseCoherent, EndedLeaseOrdered, EndedLeaseLeases
  <1>3. dep[d] # "none"
    BY <1>1, BidType DEF Coherent, LeasesFollow, Sourced, Market
  <1> HIDE DEF ended, g
  <1>4. m \in Records /\ m.dep = dep /\ m.lease = ended.lease /\ Coherent(m)
    BY <1>1, <1>2, <1>3, SetGroupsFields, SetGroupsCoherent
  <1>5. Ordered(m, {})
    <2>1. {g} \in SUBSET Groups /\ {} \in SUBSET Groups
      BY <1>1
    <2>2. Ordered(ended, {} \cup {g})
      BY <1>2 DEF Ordered, Served, HasOrder
    <2>3. QED
      BY <1>2, <2>1, <2>2, SetGroupsOrdered
  <1> HIDE DEF m, d
  <1>6. QED
    BY <1>1, <1>2, <1>3, <1>4, <1>5, FollowOrderedPaid

LEMMA CloseLeaseOrdered ==
    ASSUME MarketInv, Coherent(Market), OrderedPaid, NEW b \in Bids, CloseLease(b)
    PROVE  OrderedPaid'
  <1> DEFINE d == Deployment(b)
             g == GroupOf(OrderOf(b))
             ended == EndedLease(b)
             after == Followed(ended, d)
  <1>1. /\ Market \in Records /\ d \in Accounts /\ g \in Groups
        /\ bid[b] = "active" /\ PaymentStep(d, {b})
        /\ Ordered(Market, {}) /\ Paid
    BY BidType, EndIsPaymentStep DEF MarketInv, CloseLease, OrderedPaid
  <1>2. /\ ended \in Records /\ ended.dep = dep /\ Coherent(ended) /\ Ordered(ended, {g})
        /\ \A c \in Bids : ended.lease[c] \in {"active", "reclaiming"} => LiveLease(c) /\ c \notin {b}
    BY <1>1, EndedLeaseType, EndedLeaseCoherent, EndedLeaseOrdered, EndedLeaseLeases
  <1>3. IF after.grp[g] # "open" THEN SetMarket(after)
        ELSE CanCreateOrder(after, g) /\ SetMarket(CreateOrder(after, g))
    BY DEF CloseLease, EndedLease
  <1> HIDE DEF ended, d, g
  <1>4. /\ after \in Records /\ Ordered(after, {g})
        /\ \A c \in Bids : after.lease[c] \in {"active", "reclaiming"}
                => pay'[c] = "open" /\ acct'[Deployment(c)] = "open"
    <2>1. {g} \in SUBSET Groups
      BY <1>1
    <2>2. QED
      BY <1>1, <1>2, <2>1, FollowedFields, FollowedOrdered
  <1> HIDE DEF after
  <1>5. Paid'
    <2>1. lease' = after.lease
      BY <1>1, <1>3, <1>4, CreateOrderFields DEF SetMarket
    <2>2. QED
      BY <1>4, <2>1 DEF Paid, LiveLease
  <1>6. Ordered(Market, {})'
    <2>1. CASE after.grp[g] # "open"
      <3>1. Ordered(after, {})
        BY <1>4, <2>1 DEF Ordered, Served
      <3>2. QED
        BY <1>3, <1>4, <2>1, <3>1, SetMarketOrdered
    <2>2. CASE after.grp[g] = "open"
      BY <1>1, <1>3, <1>4, <2>2, CreateOrderFields, CreateOrderOrdered, SetMarketOrdered
    <2>3. QED
      BY <2>1, <2>2
  <1>7. QED
    BY <1>5, <1>6 DEF OrderedPaid

LEMMA CreateDeploymentOrdered ==
    ASSUME MarketInv, Coherent(Market), Ordered(Market, {}), NEW d \in Accounts,
           CreateDeployment(d)
    PROVE  Ordered(Market, {})'
  <1> DEFINE new(g) == DeploymentOf[g] = d
  <1>1. /\ dep[d] = "none"
        /\ \A g \in Groups : grp'[g] = IF new(g) THEN "open" ELSE grp[g]
        /\ \A g \in Groups : \A i \in 1..MaxOrders :
                order'[<<g, i>>] = IF new(g) /\ i = 1 THEN "open" ELSE order[<<g, i>>]
    BY OrderIn DEF CreateDeployment
  <1>2. \A g \in Groups : new(g) => \A i \in 1..MaxOrders : order[<<g, i>>] = "none"
    BY <1>1, OrderIn DEF Coherent, Sourced, Market
  <1> HIDE DEF new
  <1>3. Numbered(Market)'
    <2>1. ASSUME NEW g \in Groups, NEW i \in 1..MaxOrders, NEW j \in 1..MaxOrders,
                 i < j, order'[<<g, j>>] # "none"
          PROVE  order'[<<g, i>>] = "closed"
      BY <1>1, <1>2, <2>1 DEF Ordered, Numbered, Market
    <2>2. QED
      BY <2>1 DEF Numbered, Market
  <1>4. Served(Market, {})'
    <2>1. ASSUME NEW g \in Groups, new(g)
          PROVE  grp'[g] = "open" /\ HasOrder(Market, g)'
      <3>1. 1 \in 1..MaxOrders
        BY MarketAssumption
      <3>2. QED
        BY <1>1, <2>1, <3>1, OrderIn DEF HasOrder, LiveOrder, Market
    <2>2. ASSUME NEW g \in Groups, ~new(g)
          PROVE  grp'[g] = grp[g] /\ (HasOrder(Market, g)' <=> HasOrder(Market, g))
      <3>1. \A o \in Orders : GroupOf(o) = g => order'[o] = order[o]
        BY <1>1, <2>2, OrdersOf
      <3>2. QED
        BY <1>1, <2>2, <3>1 DEF HasOrder, LiveOrder, Market
    <2>3. QED
      BY <2>1, <2>2 DEF Ordered, Served, Market
  <1>5. QED
    BY <1>3, <1>4 DEF Ordered

LEMMA StartGroupOrdered ==
    ASSUME MarketInv, Ordered(Market, {}), NEW g \in Groups, StartGroup(g)
    PROVE  Ordered(Market, {})'
  <1> DEFINE m == SetGroups(Market, {g}, "open")
  <1>1. /\ CanCreateOrder(Market, g) /\ SetMarket(CreateOrder(m, g))
        /\ grp[g] # "open" /\ Market \in Records
    BY DEF StartGroup, MarketInv
  <1>2. /\ m \in Records /\ m.order = Market.order
        /\ \A h \in Groups : m.grp[h] = IF h \in {g} THEN "open" ELSE Market.grp[h]
    BY <1>1, SetGroupsFields
  <1>3. CanCreateOrder(m, g)
    BY <1>1, <1>2 DEF CanCreateOrder, NextOrder, LiveOrder
  <1> HIDE DEF m
  <1>4. Ordered(m, {g})
    BY <1>1, <1>2 DEF Ordered, Numbered, Served, HasOrder, LiveOrder, Market
  <1>5. QED
    BY <1>1, <1>2, <1>3, <1>4, CreateOrderFields, CreateOrderOrdered, SetMarketOrdered

\* A matched order stays the live one of its group; bids and leases move no order.
LEMMA OtherOrdered ==
    ASSUME MarketInv, MarketInv', Ordered(Market, {}), NEW b \in Bids,
           CreateBid(b) \/ CloseOpenBid(b) \/ CreateLease(b) \/ LeaseStartReclaim(b)
    PROVE  Ordered(Market, {})'
  <1>1. /\ Market \in Records /\ Market' \in Records
        /\ Market.grp = grp /\ Market'.grp = grp' /\ Market.order = order /\ Market'.order = order'
    BY DEF MarketInv, Market
  <1>2. grp' = grp /\ (order' = order \/ CreateLease(b))
    BY DEF CreateBid, CloseOpenBid, CloseBids, LeaseStartReclaim, CreateLease, SetMarket, Market
  <1>3. ASSUME CreateLease(b)
        PROVE  order[OrderOf(b)] = "open" /\ order' = [order EXCEPT ![OrderOf(b)] = "active"]
    BY <1>3 DEF CreateLease, SetMarket, Market
  <1>4. \A o \in Orders : /\ order[o] = "none" <=> order'[o] = "none"
                          /\ order[o] = "closed" <=> order'[o] = "closed"
    BY <1>1, <1>2, <1>3, BidType DEF Records
  <1> HIDE DEF Market
  <1>5. Ordered(Market', {})
    BY <1>1, <1>2, <1>4, OrderedDependsOn
  <1>6. QED
    BY <1>5

\* The settlement a new lease begins with fails when the account is overdrawn.
LEMMA CreateLeasePaid ==
    ASSUME MarketInv, Paid, NEW b \in Bids, CreateLease(b)
    PROVE  Paid'
  <1> DEFINE d == Deployment(b)
  <1>1. /\ d \in Accounts /\ AccountOf[b] = d /\ b \in Payments
        /\ acct[d] \in {"open", "overdrawn"} /\ d \notin debt
        /\ pay' = [pay EXCEPT ![b] = "open"] /\ acct' = acct
        /\ lease' = [lease EXCEPT ![b] = "active"]
    BY BidType DEF CreateLease, PaymentCreate, SetMarket, Market
  <1>2. acct[d] = "open" /\ pay \in [Payments -> States]
    BY <1>1 DEF MarketInv, LifecycleInv, LifecycleTypeOK, OverdrawnInDebt
  <1>3. lease \in [Bids -> {"none", "active", "reclaiming", "insufficient", "closed"}]
    BY DEF MarketInv, Records, Market
  <1>4. QED
    BY <1>1, <1>2, <1>3, BidType DEF Paid, LiveLease

\* Messages that end no payment and start no lease.
LEMMA QuietPaid ==
    ASSUME Paid, pay' = pay,
           \A a \in Accounts : acct[a] = "open" => acct'[a] = "open",
           \A b \in Bids : LiveLease(b)' => LiveLease(b)
    PROVE  Paid'
  BY BidType DEF Paid

LEMMA OrderedPaidInductive ==
    MarketInv /\ Coherent(Market) /\ OrderedPaid /\ [Next]_vars => OrderedPaid'
  <1> SUFFICES ASSUME MarketInv, Coherent(Market), OrderedPaid, [Next]_vars
               PROVE  OrderedPaid'
    OBVIOUS
  <1>1. MarketInv' /\ LifecycleInv /\ Ordered(Market, {}) /\ Paid
    BY MarketInductive DEF MarketInv, OrderedPaid
  <1>2. CASE UNCHANGED vars \/ Tick
    <2>1. grp' = grp /\ order' = order
      BY <1>2 DEF vars, marketVars, Tick
    <2>2. Ordered(Market, {})'
      BY <1>1, <2>1 DEF Ordered, Numbered, Served, HasOrder, LiveOrder, Market
    <2>3. Paid'
      BY <1>1, <1>2, QuietPaid DEF vars, escrowVars, marketVars, Tick, NextBlock, LiveLease
    <2>4. QED
      BY <2>2, <2>3 DEF OrderedPaid
  <1>3. ASSUME NEW d \in Accounts, CreateDeployment(d) \/ CloseDeployment(d) \/ Deposit(d)
        PROVE  OrderedPaid'
    <2>1. CASE CreateDeployment(d)
      <3>1. /\ acct \in [Accounts -> States] /\ acct' = [acct EXCEPT ![d] = "open"]
            /\ pay' = pay /\ lease' = lease
        BY <1>1, <2>1 DEF CreateDeployment, AccountCreate, LifecycleInv, LifecycleTypeOK
      <3>2. Paid'
        BY <1>1, <3>1, QuietPaid DEF LiveLease
      <3>3. QED
        BY <1>1, <2>1, <3>2, CreateDeploymentOrdered DEF OrderedPaid
    <2>2. CASE CloseDeployment(d)
      BY <1>1, <2>2, CloseIsPaymentStep, OnlyHookOrdered DEF CloseDeployment
    <2>3. CASE Deposit(d)
      BY <1>1, <2>3, DepositIsPaymentStep, OnlyHookOrdered DEF Deposit
    <2>4. QED
      BY <1>3, <2>1, <2>2, <2>3
  <1>4. ASSUME NEW g \in Groups, CloseGroup(g) \/ PauseGroup(g) \/ StartGroup(g)
        PROVE  OrderedPaid'
    <2>1. CASE CloseGroup(g) \/ PauseGroup(g)
      BY <2>1, EndGroupOrdered DEF CloseGroup, PauseGroup
    <2>2. CASE StartGroup(g)
      <3>1. pay' = pay /\ acct' = acct /\ lease' = lease
        BY <2>2 DEF StartGroup, SetMarket, CreateOrder, SetGroups, Market, escrowVars
      <3>2. Paid'
        BY <1>1, <3>1, QuietPaid DEF LiveLease
      <3>3. QED
        BY <1>1, <2>2, <3>2, StartGroupOrdered DEF OrderedPaid
    <2>3. QED
      BY <1>4, <2>1, <2>2
  <1>5. ASSUME NEW b \in Bids,
               \/ CreateBid(b) \/ CloseBid(b)
               \/ CreateLease(b) \/ CloseLease(b) \/ WithdrawLease(b) \/ LeaseStartReclaim(b)
        PROVE  OrderedPaid'
    <2>1. CASE WithdrawLease(b)
      <3>1. PaymentStep(Deployment(b), {}) /\ Deployment(b) \in Accounts
        BY <1>1, <2>1, BidType, WithdrawIsPaymentStep DEF WithdrawLease
      <3>2. QED
        BY <2>1, <3>1, OnlyHookOrdered DEF WithdrawLease
    <2>2. CASE CreateBid(b) \/ CloseOpenBid(b)
      <3>1. pay' = pay /\ acct' = acct /\ lease' = lease
        BY <2>2 DEF CreateBid, CloseOpenBid, SetMarket, CloseBids, Market, escrowVars
      <3>2. Paid'
        BY <1>1, <3>1, QuietPaid DEF LiveLease
      <3>3. QED
        BY <1>1, <2>2, <3>2, OtherOrdered DEF OrderedPaid
    <2>3. CASE LeaseStartReclaim(b)
      <3>1. /\ pay' = pay /\ acct' = acct
            /\ lease[b] = "active" /\ lease' = [lease EXCEPT ![b] = "reclaiming"]
        BY <2>3 DEF LeaseStartReclaim, escrowVars
      <3>2. \A c \in Bids : LiveLease(c)' => LiveLease(c)
        BY <3>1 DEF LiveLease, MarketInv, Records, Market
      <3>3. Paid'
        BY <1>1, <3>1, <3>2, QuietPaid
      <3>4. QED
        BY <1>1, <2>3, <3>3, OtherOrdered DEF OrderedPaid
    <2>4. CASE CreateLease(b)
      BY <1>1, <2>4, CreateLeasePaid, OtherOrdered DEF OrderedPaid
    <2>5. CASE CloseLeasedBid(b) \/ CloseLease(b)
      BY <2>5, CloseLeasedBidOrdered, CloseLeaseOrdered
    <2>6. QED
      BY <1>5, <2>1, <2>2, <2>3, <2>4, <2>5 DEF CloseBid
  <1>6. QED
    BY <1>2, <1>3, <1>4, <1>5 DEF Next

\* The orders of a group are numbered without a gap, all but the last are closed,
\* and the last one is live only while the group is open, exactly while it is
\* open unless another account collects the payments; and each running lease has
\* an open payment on an open account.
THEOREM OrdersInTurn == Spec => []OrderedPaid
  <1>1. Init => OrderedPaid
    <2>1. ASSUME Init PROVE \A o \in Orders : Market.order[o] = "none"
      BY <2>1 DEF Init, Market
    <2>2. ASSUME Init PROVE \A g \in Groups : Market.grp[g] = "none"
      BY <2>2 DEF Init, Market
    <2>3. Init => Paid
      BY DEF Init, Paid, LiveLease
    <2>4. QED
      BY <2>1, <2>2, <2>3, OrderIn
      DEF OrderedPaid, Ordered, Numbered, Served, HasOrder, LiveOrder
  <1>2. QED
    BY <1>1, MarketInvariant, RecordsCoherent, OrderedPaidInductive, PTL DEF Spec

\* A group never has two live orders, has none unless it is open, and one while it
\* is open, unless the payments of its deployment are collected by another account
\* (CreateOrder, OnGroupClosed, the messages that pause, start and close groups).
THEOREM OneOrderLives == Spec => []OneLiveOrder
  <1>1. MarketInv /\ OrderedPaid => OneLiveOrder
    <2> SUFFICES ASSUME MarketInv, OrderedPaid
                 PROVE  OneLiveOrder
      OBVIOUS
    <2>1. Market \in Records /\ Numbered(Market) /\ Served(Market, {}) /\ Market.grp = grp
      BY DEF MarketInv, OrderedPaid, Ordered, Market
    <2>2. ASSUME NEW g \in Groups, NEW o1 \in Orders, NEW o2 \in Orders,
                 GroupOf(o1) = g, GroupOf(o2) = g, LiveOrder(o1, Market), LiveOrder(o2, Market)
          PROVE  o1 = o2
      BY <2>1, <2>2, OneLive
    <2> HIDE DEF Market
    <2>3. QED
      BY <2>1, <2>2 DEF OneLiveOrder, Served, HasOrder
  <1>2. QED
    BY <1>1, MarketInvariant, OrdersInTurn, PTL

\* Whichever message closes or overdraws an account, no lease of it runs on, and
\* no lease is created on an account that could not pay its payments so far
\* (OnEscrowAccountClosed, PaymentCreate, the messages that end a lease).
THEOREM LeasesArePaid == Spec => []LiveLeaseIsPaid
  <1>1. MarketInv /\ Coherent(Market) /\ OrderedPaid => LiveLeaseIsPaid
    <2> SUFFICES ASSUME MarketInv, Coherent(Market), OrderedPaid,
                        NEW b \in Bids, LiveLease(b)
                 PROVE  /\ pay[b] = "open" /\ acct[Deployment(b)] = "open"
                        /\ dep[Deployment(b)] = "active" /\ grp[GroupOf(OrderOf(b))] = "open"
      BY DEF LiveLeaseIsPaid
    <2>1. pay[b] = "open" /\ acct[Deployment(b)] = "open"
      BY DEF OrderedPaid, Paid
    <2>2. dep[Deployment(b)] = "active"
      BY <2>1, BidType DEF MarketInv, DeploymentFollowsAccount
    <2>3. LiveOrder(OrderOf(b), Market)
      BY DEF Coherent, LeasesFollow, LiveLease, LiveOrder, Market
    <2>4. grp[GroupOf(OrderOf(b))] = "open"
      BY <2>3, BidType DEF OrderedPaid, Ordered, Served, HasOrder, Market
    <2>5. QED
      BY <2>1, <2>2, <2>4
  <1>2. QED
    BY <1>1, MarketInvariant, RecordsCoherent, OrdersInTurn, PTL
=============================================================================
