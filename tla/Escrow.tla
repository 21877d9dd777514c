------------------------------ MODULE Escrow ------------------------------
(***************************************************************************)
(* The x/escrow keeper with its amounts: deposits, funds, grants, the      *)
(* charge per block, the overdraft, the uakt fallback, payouts with the    *)
(* settlement fee, and refunds.  Amounts inside the keeper are decimals,   *)
(* counted here in units of 1/Dec coin; the bank holds whole coins.        *)
(* A keeper operation is one step: its transaction commits or reverts.     *)
(***************************************************************************)
EXTENDS Integers, SequencesExt

CONSTANTS
    Accounts,      \* escrow accounts with payments
    PaymentOrder,  \* every payment once, in the order of the store's keys
    AccountOf,     \* the account a payment identifier names
    Reached,       \* account -> the accounts whose store key begins with its key
    Owner,         \* the owner of an account
    Provider,      \* the owner of a payment
    Tenants,       \* who may sign a deposit
    Granters,      \* who has granted deposits, in the order authz lists them
    Limits,        \* <<granter, tenant>> -> denomination -> initial spend limit
    Wallets,       \* tenant or granter -> denomination -> initial coins
    Prim,          \* denomination of the first deposit, Funds[0]
    Akt,           \* uakt
    Rates,         \* payment rates per block, in units
    Amounts,       \* coins of a deposit message
    SourceLists,   \* the deposit sources a message may list
    Prices,        \* uakt prices the oracle may report, in Prim
    Dec,           \* units per coin
    FeeParts,      \* the fee gives one part of these to each beneficiary
    MaxHeight      \* bound: the last block height

Denoms == {Prim, Akt}
Payments == ToSet(PaymentOrder)
Holders == DOMAIN Wallets \cup ToSet(Granters) \cup Range(Provider) \cup {"escrow", "fees"}

ASSUME EscrowAssumption ==
    /\ IsFiniteSet(Accounts)
    /\ IsInjective(PaymentOrder) /\ PaymentOrder \in Seq(Payments)
    /\ AccountOf \in [Payments -> Accounts]
    /\ Reached \in [Accounts -> SUBSET Accounts] /\ \A a \in Accounts : a \in Reached[a]
    /\ Provider \in [Payments -> Range(Provider)]
    /\ Owner \in [Accounts -> Tenants] /\ Tenants \subseteq DOMAIN Wallets
    /\ Granters \in Seq(ToSet(Granters))
    /\ "escrow" \notin DOMAIN Wallets \cup ToSet(Granters)     \* nobody signs for a module
    /\ Wallets \in [DOMAIN Wallets -> [Denoms -> Nat]]
    /\ Limits \in [DOMAIN Limits -> [Denoms -> Nat]] /\ IsFiniteSet(DOMAIN Limits)
    /\ Dec \in Nat \ {0} /\ FeeParts \in Nat /\ FeeParts > 2
    /\ \A price \in Prices : price \in Nat \ {0} /\ Dec % price = 0
    /\ Rates \subseteq Nat \ {0} /\ Amounts \subseteq Nat \ {0}
    /\ SourceLists \subseteq Seq({"balance", "grant"})
    /\ MaxHeight \in Nat \ {0}

VARIABLES
    height,  \* block height
    acct,    \* account -> stored account
    pay,     \* payment -> stored payment
    bank,    \* holder -> denomination -> coins
    grant    \* <<granter, tenant>> -> denomination -> spend limit left

vars == <<height, acct, pay, bank, grant>>

NoAccount ==
    [state |-> "none", settledAt |-> 0, funds |-> [d \in Denoms |-> 0],
     transferred |-> [d \in Denoms |-> 0], deposits |-> <<>>]

NoPayment ==
    [state |-> "none", rate |-> 0, since |-> 0, balance |-> 0, unsettled |-> 0,
     withdrawn |-> 0]

Init ==
    /\ height = 1
    /\ acct = [a \in Accounts |-> NoAccount]
    /\ pay = [p \in Payments |-> NoPayment]
    /\ bank = [h \in Holders |-> IF h \in DOMAIN Wallets THEN Wallets[h]
                                 ELSE [d \in Denoms |-> 0]]
    /\ grant = Limits

-----------------------------------------------------------------------------
(* Amounts *)

AtMost(x, y) == IF x < y THEN x ELSE y
Coins(units) == units \div Dec

Credit(b, h, d, coins) == [b EXCEPT ![h][d] = @ + coins]

Send(b, from, to, d, coins) == Credit(Credit(b, from, d, 0 - coins), to, d, coins)

\* A bank transfer the sender cannot pay fails and reverts the transaction.
Covered(b) == \A h \in Holders, d \in Denoms : b[h][d] >= 0

\* settlementPayout: one share each to stakers, treasury and burn.
SettlementPayout(b, to, d, coins) ==
    LET share == coins \div FeeParts
    IN  Send(Send(b, "escrow", "fees", d, 3 * share),
             "escrow", to, d, coins - 3 * share)

\* deductFromBalance: the deposits of one denomination are drained in their
\* order, emptied ones are dropped, and what they do not cover is subtracted
\* from the funds as a debt.
DrainDeposit(s, dep, d) ==
    LET take == IF dep.denom = d THEN AtMost(dep.balance, s.left) ELSE 0
    IN  [left |-> s.left - take,
         deposits |-> IF take = dep.balance THEN s.deposits
                      ELSE Append(s.deposits, [dep EXCEPT !.balance = @ - take])]

DrainDeposits(deposits, d, amount) ==
    FoldLeft(LAMBDA s, dep : DrainDeposit(s, dep, d), [left |-> amount, deposits |-> <<>>],
             deposits)

\* Variant: what the deposits do not cover is not recorded.
DeductWithoutDebt(acc, d, amount) ==
    LET Record(drained, settled) ==
            [settled |-> settled,
             acc |-> [acc EXCEPT !.deposits = drained.deposits,
                                 !.funds[d] = @ - settled,
                                 !.transferred[d] = @ + settled]]
        Drained(drained) == Record(drained, amount - drained.left)
    IN  Drained(DrainDeposits(acc.deposits, d, amount))

Deduct(acc, d, amount) ==
    LET Record(drained, settled) ==
            [settled |-> settled,
             acc |-> [acc EXCEPT !.deposits = drained.deposits,
                                 !.funds[d] = @ - amount,
                                 !.transferred[d] = @ + settled]]
        Drained(drained) == Record(drained, amount - drained.left)
    IN  Drained(DrainDeposits(acc.deposits, d, amount))

-----------------------------------------------------------------------------
(* What one keeper operation works on: the account, all payments, the bank  *)
(* and the grants, and what the settlement of this operation collected.     *)

World(a) == [acc |-> acct[a], pay |-> pay, bank |-> bank, grant |-> grant,
             due |-> <<>>, overdrawn |-> FALSE, exhausted |-> FALSE]

Commit(a, w) ==
    /\ Covered(w.bank)
    /\ acct' = [acct EXCEPT ![a] = w.acc]
    /\ pay' = w.pay
    /\ bank' = w.bank
    /\ grant' = w.grant
    /\ UNCHANGED height

\* Variant: the balance that was paid out stays.
KeepBalance(payment, coins) == [payment EXCEPT !.withdrawn = @ + coins]

PaidOut(payment, coins) ==
    [payment EXCEPT !.withdrawn = @ + coins, !.balance = @ - Dec * coins]

\* paymentWithdraw: the whole coins a payment has earned go to its owner.
Withdraw(w, p) ==
    LET earnings == Coins(w.pay[p].balance)
    IN  IF earnings = 0 THEN w
        ELSE [w EXCEPT !.bank = SettlementPayout(@, Provider[p], Prim, earnings),
                       !.pay[p] = PaidOut(@, earnings)]

\* accountPayments: in the order of the store's keys.  The scan starts from the
\* account's key, which ends without a separator, and finds the payments of every
\* account whose key begins like that.
Collect(due, p, a, states) ==
    IF AccountOf[p] \in Reached[a] /\ pay[p].state \in states THEN Append(due, p) ELSE due

Collected(a, states) ==
    FoldLeft(LAMBDA due, p : Collect(due, p, a, states), <<>>, PaymentOrder)

\* What a settlement asks of the account for one payment.
Owed(p, blocks) ==
    IF pay[p].state = "overdrawn" THEN pay[p].unsettled ELSE Dec * Coins(pay[p].rate * blocks)

\* Variant: what an overdrawn payment was owed is not reset when it is charged.
ChargedAgain(payment, owed, settled) ==
    [payment EXCEPT !.state = IF settled < owed THEN "overdrawn" ELSE "open",
                    !.balance = @ + settled,
                    !.unsettled = @ + owed - settled]

Charged(payment, owed, settled) ==
    [payment EXCEPT !.state = IF settled < owed THEN "overdrawn" ELSE "open",
                    !.balance = @ + settled,
                    !.unsettled = owed - settled]

ChargePayment(w, p, owed) ==
    LET Book(r) == [w EXCEPT !.acc = r.acc,
                             !.overdrawn = @ \/ r.settled < owed,
                             !.pay[p] = Charged(@, owed, r.settled)]
    IN  Book(Deduct(w.acc, Prim, owed))

\* accountSettleFullBlocks
ChargeDue(w, blocks) ==
    FoldLeft(LAMBDA v, p : ChargePayment(v, p, Owed(p, blocks)), w, w.due)

\* settleFromAktFallback for one payment: what it is owed is converted at the
\* oracle's price and paid out directly.  A debt in uakt is forgiven and ends the
\* loop, except when nothing at all was left to pay with.
PaidInAkt(payment, paid) ==
    [payment EXCEPT !.unsettled = @ - paid,
                    !.state = IF payment.unsettled = paid THEN "open" ELSE @]

FallbackPayment(w, p, price, needed) ==
    LET Book(r) ==
            IF r.settled = 0 THEN [w EXCEPT !.acc = r.acc]
            ELSE [w EXCEPT
                    !.acc = IF r.settled < needed THEN [r.acc EXCEPT !.funds[Akt] = 0]
                            ELSE r.acc,
                    !.bank = SettlementPayout(@, Provider[p], Akt, Coins(r.settled)),
                    !.pay[p] = PaidInAkt(@, r.settled * price),
                    !.exhausted = r.settled < needed]
    IN  Book(Deduct(w.acc, Akt, needed))

FallbackNext(w, p, price) ==
    IF w.exhausted \/ w.pay[p].state # "overdrawn" \/ w.pay[p].unsettled = 0 THEN w
    ELSE FallbackPayment(w, p, price, w.pay[p].unsettled \div price)

FallbackDue(w, price) == FoldLeft(LAMBDA v, p : FallbackNext(v, p, price), w, w.due)

Fallback(w, price) ==
    IF ~w.overdrawn \/ price = 0 \/ w.acc.funds[Akt] <= 0 THEN w ELSE FallbackDue(w, price)

\* When a charged payment is still overdrawn, the account and all of them are,
\* and they are paid out what they got.
Overdraw(w) ==
    [w EXCEPT !.acc.state = "overdrawn",
              !.pay = [p \in Payments |->
                          IF p \in ToSet(w.due) THEN [@[p] EXCEPT !.state = "overdrawn"]
                          ELSE @[p]]]

WithdrawDue(w) == FoldLeft(LAMBDA v, p : Withdraw(v, p), w, w.due)

Conclude(w) ==
    IF w.overdrawn /\ \E p \in ToSet(w.due) : w.pay[p].state = "overdrawn"
    THEN WithdrawDue(Overdraw(w))
    ELSE [w EXCEPT !.overdrawn = FALSE]

\* accountSettle.  "price" is the uakt price when the fallback is available
\* (minting is halted and the oracle answers), 0 when it is not.
Settle(w, a, price) ==
    LET open == w.acc.state = "open"
        blocks == IF open THEN height - w.acc.settledAt ELSE 0
        due == Collected(a, {"overdrawn"})
                 \o (IF blocks = 0 THEN <<>> ELSE Collected(a, {"open"}))
        started == [w EXCEPT !.acc.settledAt = IF open THEN height ELSE @, !.due = due]
    IN  IF w.acc.funds[Prim] < 0 THEN [w EXCEPT !.overdrawn = TRUE]
        ELSE Conclude(Fallback(ChargeDue(started, blocks), price))

Settlements(w, a) == {Settle(w, a, price) : price \in Prices \cup {0}}

-----------------------------------------------------------------------------
(* Deposits and refunds *)

\* Variant: the updated grant is not saved.
TakeKeepingGrant(s, granter, signer, d) ==
    LET pair == <<granter, signer>>
        take == AtMost(s.grant[pair][d], s.left)
    IN  IF pair \notin DOMAIN s.grant \/ take = 0 THEN s
        ELSE [s EXCEPT !.left = @ - take,
                       !.deposits = Append(@,
                  [owner |-> granter, denom |-> d, source |-> "grant", balance |-> Dec * take])]

\* One grant of AuthorizeDeposits: what its limit allows of the remainder.
TakeFromGrant(s, granter, signer, d) ==
    LET pair == <<granter, signer>>
        take == AtMost(s.grant[pair][d], s.left)
    IN  IF pair \notin DOMAIN s.grant \/ take = 0 THEN s
        ELSE [left |-> s.left - take,
              grant |-> [s.grant EXCEPT ![pair][d] = @ - take],
              deposits |-> Append(s.deposits,
                  [owner |-> granter, denom |-> d, source |-> "grant", balance |-> Dec * take])]

TakeFromGrants(s, signer, d) ==
    FoldLeft(LAMBDA t, granter : TakeFromGrant(t, granter, signer, d), s, Granters)

TakeFromBalance(s, signer, d) ==
    LET take == AtMost(bank[signer][d], s.left)
    IN  IF take = 0 THEN s
        ELSE [s EXCEPT !.left = @ - take,
                       !.deposits = Append(@,
                  [owner |-> signer, denom |-> d, source |-> "balance", balance |-> Dec * take])]

\* AuthorizeDeposits: the sources in the order the message lists them, until
\* the amount is covered; the message fails when something is left.
TakeFrom(s, source, signer, d) ==
    IF source = "balance" THEN TakeFromBalance(s, signer, d) ELSE TakeFromGrants(s, signer, d)

AuthorizeDeposits(signer, d, amount, sources) ==
    FoldLeft(LAMBDA s, source : TakeFrom(s, source, signer, d),
             [left |-> amount, grant |-> grant, deposits |-> <<>>], sources)

\* Variant: the deposit is added to a negative balance.
FetchKeepingDebt(w, dep) ==
    [w EXCEPT !.acc.funds[dep.denom] = @ + dep.balance,
              !.acc.deposits = Append(@, dep),
              !.bank = Send(@, dep.owner, "escrow", dep.denom, Coins(dep.balance))]

\* fetchDepositsToAccount: a negative balance is forgotten.
FetchDeposit(w, dep) ==
    [w EXCEPT !.acc.funds[dep.denom] = (IF @ < 0 THEN 0 ELSE @) + dep.balance,
              !.acc.deposits = Append(@, dep),
              !.bank = Send(@, dep.owner, "escrow", dep.denom, Coins(dep.balance))]

FetchDeposits(w, deposits) == FoldLeft(LAMBDA v, dep : FetchDeposit(v, dep), w, deposits)

\* saveAccount for one deposit: its whole coins return to the depositor, and a
\* grant that still exists between the depositor and the ACCOUNT OWNER grows.
Refund(w, a, dep) ==
    LET coins == Coins(dep.balance)
        pair == <<dep.owner, Owner[a]>>
        sent == [w EXCEPT !.bank = Send(@, "escrow", dep.owner, dep.denom, coins),
                          !.acc.funds[dep.denom] = @ - dep.balance]
    IN  IF dep.source = "grant" /\ pair \in DOMAIN w.grant
        THEN [sent EXCEPT !.grant[pair][dep.denom] = @ + coins]
        ELSE sent

RefundAll(w, a) == FoldLeft(LAMBDA v, dep : Refund(v, a, dep), w, w.acc.deposits)

SaveAccount(w, a) ==
    IF w.acc.state \notin {"closed", "overdrawn"} THEN w
    ELSE [RefundAll(w, a) EXCEPT !.acc.deposits = <<>>]

\* A payment that came out of the settlement open is closed, and paid out.
ClosePayment(w, p) ==
    Withdraw(IF w.pay[p].state = "open" THEN [w EXCEPT !.pay[p].state = "closed"] ELSE w, p)

CloseDue(w) == FoldLeft(LAMBDA v, p : ClosePayment(v, p), w, w.due)

-----------------------------------------------------------------------------
(* The keeper operations *)

\* Blocks are produced; the keeper does nothing on its own (abci.go).
NextBlock ==
    /\ height < MaxHeight
    /\ height' = height + 1
    /\ UNCHANGED <<acct, pay, bank, grant>>

AccountCreate(a, amount, sources) ==
    LET auth == AuthorizeDeposits(Owner[a], Prim, amount, sources)
        opened == [World(a) EXCEPT !.acc.state = "open", !.acc.settledAt = height,
                                   !.grant = auth.grant]
    IN  /\ acct[a].state = "none"
        /\ auth.left = 0
        /\ Commit(a, FetchDeposits(opened, auth.deposits))

\* Anyone may sign a deposit to any account.  A deposit to an overdrawn account
\* settles it, and closes it when nothing is left unpaid.
AccountDeposit(a, signer, d, amount, sources) ==
    LET auth == AuthorizeDeposits(signer, d, amount, sources)
        funded == FetchDeposits([World(a) EXCEPT !.grant = auth.grant], auth.deposits)
    IN  /\ acct[a].state \in {"open", "overdrawn"}
        /\ auth.left = 0
        /\ Covered(funded.bank)
        /\ IF acct[a].state = "open" THEN Commit(a, funded)
           ELSE \E s \in Settlements(funded, a) :
                Commit(a, SaveAccount(
                    [CloseDue(s) EXCEPT !.acc.state = IF s.overdrawn THEN @ ELSE "closed"], a))

AccountClose(a) ==
    /\ acct[a].state \in {"open", "overdrawn"}
    /\ \E s \in Settlements(World(a), a) :
        Commit(a, SaveAccount(
            CloseDue([s EXCEPT !.acc.state = IF @ = "open" THEN "closed" ELSE @]), a))

AccountSettle(a) ==
    /\ acct[a].state \in {"open", "overdrawn"}
    /\ \E s \in Settlements(World(a), a) : Commit(a, SaveAccount(s, a))

\* The settlement is saved with the account, but the payments it charged are
\* dropped: only the new payment is written.
PaymentCreate(p, rate) ==
    LET a == AccountOf[p]
        created == [NoPayment EXCEPT !.state = "open", !.rate = rate, !.since = height]
    IN  /\ acct[a].state \in {"open", "overdrawn"}
        /\ pay[p].state = "none"
        /\ \E s \in Settlements(World(a), a) :
            ~s.overdrawn /\ Commit(a, [s EXCEPT !.pay = [pay EXCEPT ![p] = created]])

\* A payment the settlement did not collect panics, which reverts.
PaymentWithdraw(p) ==
    LET a == AccountOf[p]
    IN  /\ acct[a].state \in {"open", "overdrawn"}
        /\ pay[p].state = "open"
        /\ \E s \in Settlements(World(a), a) :
            /\ ~s.overdrawn => p \in ToSet(s.due)
            /\ Commit(a, SaveAccount(IF s.overdrawn THEN s ELSE Withdraw(s, p), a))

PaymentClose(p) ==
    LET a == AccountOf[p]
    IN  /\ acct[a].state \in {"open", "overdrawn"}
        /\ pay[p].state \in {"open", "overdrawn"}
        /\ \E s \in Settlements(World(a), a) :
            Commit(a, SaveAccount(IF p \in ToSet(s.due) THEN ClosePayment(s, p) ELSE s, a))

Next ==
    \/ NextBlock
    \/ \E a \in Accounts, amount \in Amounts, sources \in SourceLists :
        \/ AccountCreate(a, amount, sources)
        \/ \E signer \in Tenants, d \in Denoms : AccountDeposit(a, signer, d, amount, sources)
    \/ \E a \in Accounts : AccountClose(a) \/ AccountSettle(a)
    \/ \E p \in Payments :
        \/ \E rate \in Rates : PaymentCreate(p, rate)
        \/ PaymentWithdraw(p)
        \/ PaymentClose(p)

Spec == Init /\ [][Next]_vars

-----------------------------------------------------------------------------
(* Properties *)

SumOf(f) == FoldFunction(+, 0, f)

PaymentsOf(a) == {p \in Payments : AccountOf[p] = a}

\* The balances of the deposits in a list that satisfy a condition.
BalanceOf(deps, Counts(_)) ==
    SumOf([i \in 1..Len(deps) |-> IF Counts(deps[i]) THEN deps[i].balance ELSE 0])

DepositTotal(a, d) == BalanceOf(acct[a].deposits, LAMBDA dep : dep.denom = d)

\* What can still return to a granter from the deposits of an account.
Returnable(a, granter, d) ==
    BalanceOf(acct[a].deposits,
              LAMBDA dep : dep.source = "grant" /\ dep.owner = granter /\ dep.denom = d)

\* The limits of a granter.
LimitsOf(granter, d, limits) ==
    SumOf([pair \in {g \in DOMAIN limits : g[1] = granter} |-> limits[pair][d]])

TypeOK ==
    LET States == {"none", "open", "closed", "overdrawn"}
        Deposit == [owner : Holders, denom : Denoms, source : {"balance", "grant"}, balance : Nat \ {0}]
    IN  /\ height \in 1..MaxHeight
        /\ \A a \in Accounts :
            /\ acct[a].state \in States
            /\ acct[a].settledAt \in 0..height
            /\ acct[a].funds \in [Denoms -> Int]
            /\ acct[a].transferred \in [Denoms -> Nat]
            /\ acct[a].deposits \in Seq(Deposit)
        /\ pay \in [Payments -> [state : States, rate : Rates \cup {0}, since : 0..height,
                                 balance : Nat, unsettled : Nat, withdrawn : Nat]]
        /\ bank \in [Holders -> [Denoms -> Nat]]
        /\ grant \in [DOMAIN Limits -> [Denoms -> Nat]]

\* The escrow module can always pay what it has recorded: its coins cover every
\* deposit that can still be refunded and every balance a payment can withdraw,
\* through truncated payouts, fees, fallback payouts and refunds.
Solvent ==
    \A d \in Denoms :
        Dec * bank["escrow"][d] >=
            SumOf([a \in Accounts |-> DepositTotal(a, d)])
              + (IF d = Prim THEN SumOf([p \in Payments |-> pay[p].balance]) ELSE 0)

\* Funds and deposits are the same money told twice: funds that are not negative
\* are the sum of the deposits left, and a debt means there is no deposit left
\* (deductFromBalance, fetchDepositsToAccount, saveAccount).
FundsMatchDeposits ==
    \A a \in Accounts, d \in Denoms :
        DepositTotal(a, d) = IF acct[a].funds[d] > 0 THEN acct[a].funds[d] ELSE 0

\* An account that ended keeps nobody's money: every deposit was refunded when
\* it closed or was overdrawn, and again when a top-up came too short.
EndedIsRefunded ==
    \A a \in Accounts :
        acct[a].state \in {"closed", "overdrawn"} => acct[a].deposits = <<>>

\* No other account's settlement collects the payments of a.
Untouched(a) == \A b \in Accounts : a \in Reached[b] => b = a

\* What the payments of an account are still owed never exceeds the debt
\* recorded in its funds, so a top-up of that size settles all of them; an
\* account that is not overdrawn owes nothing.  It is said of the accounts whose
\* payments no other account collects: PaymentsAreOfAccount is about the others.
DebtCoversUnsettled ==
    \A a \in Accounts : Untouched(a) =>
        SumOf([p \in PaymentsOf(a) |-> pay[p].unsettled]) <=
            IF acct[a].state = "overdrawn" THEN 0 - acct[a].funds[Prim] ELSE 0

\* A payment got more than its rate times the blocks since it was created.
Overcharged(p) ==
    pay[p].balance + Dec * pay[p].withdrawn + pay[p].unsettled
        > pay[p].rate * (height - pay[p].since)

\* No payment that only its own account collects is ever overcharged, however
\* often it is settled, overdrawn, topped up and withdrawn.
NeverOvercharged == \A p \in Payments : Untouched(AccountOf[p]) => ~Overcharged(p)

\* A granter is never exposed beyond the limits it granted: the limits left and
\* the grant deposits that can still return to them stay within what was
\* granted, whoever deposits on whose account.
GrantExposure ==
    \A granter \in ToSet(Granters), d \in Denoms :
        Dec * LimitsOf(granter, d, grant) + SumOf([a \in Accounts |-> Returnable(a, granter, d)])
            <= Dec * LimitsOf(granter, d, Limits)

\* The two halves of what the settlement of charges must keep: a payment gets
\* what its rate allows and no more, and what it did not get in full is the
\* account's debt (accountSettle, AccountDeposit, paymentWithdraw).
ChargesAddUp == NeverOvercharged /\ DebtCoversUnsettled

\* The two halves of what the deposits must keep: they tell the same as the
\* funds, and they are gone when the account has ended.
DepositsAddUp == FundsMatchDeposits /\ EndedIsRefunded

\* The states of accounts and payments follow the lifecycle specification.
Lifecycle ==
    INSTANCE EscrowLifecycle
    WITH acct <- [a \in Accounts |-> acct[a].state],
         pay <- [p \in Payments |-> pay[p].state],
         settledNow <- {a \in Accounts : acct[a].state # "none" /\ acct[a].settledAt = height},
         debt <- {a \in Accounts : acct[a].funds[Prim] < 0}

\* Every operation, whatever the amounts, is an operation of EscrowLifecycle on
\* the states, or leaves them alone.
ImplementsLifecycle == Lifecycle!LifecycleSpec

\* x/escrow/genesis.go ValidateGenesis, "ensure the state is in sync with
\* payment": an open payment has an open account.
PaymentsInSync ==
    \A p \in Payments : pay[p].state = "open" => acct[AccountOf[p]].state = "open"

\* keeper.go on GetAccountPayments, "returns payments for a specific escrow
\* account": a payment earns from its own account, its rate by the block.
PaymentsAreOfAccount == \A p \in Payments : ~Overcharged(p)

\* account.proto on Transferred, "total coins spent by this account": it is what
\* the payments of the account received.
TransferredIsPaid ==
    Prim # Akt =>
        \A a \in Accounts :
            acct[a].transferred[Prim] =
                SumOf([p \in PaymentsOf(a) |-> pay[p].balance + Dec * pay[p].withdrawn])
=============================================================================
