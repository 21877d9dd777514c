# A formal model of abakos

abakos is a compute marketplace: a Cosmos chain (a fork of the Akash node) on
which tenants lease compute from providers, and the off-chain services around
it.  This directory holds TLA+ specifications of its core protocols, the TLC
runs that check them on small instances, and theorems about them proved with
TLAPS.

Run a model with `tlc -config <cfg> <module>` and the proofs with
`tlapm <module>` for FiniteSums, MarketProofs, EscrowProofs, BmeProofs,
OracleProofs, ChainSdkProofs, RelayerProofs and PayoutProofs (EscrowProofs takes
some ten minutes, the others a minute or two).
PROJECT.json lists every run with its module and configuration, the hazards the
properties are for, and the source lines every definition stands for.

## Inventory

| component | state | operations | what is hard | modelled in |
|---|---|---|---|---|
| **escrow** `chain/x/escrow` | accounts (state, settled-at height, funds and deposits per denomination), payments (state, rate, balance, unsettled, withdrawn) | create, deposit, settle, close; payment create, withdraw, close | settlement happens only inside other operations; overdraft, uakt fallback, refunds, truncation, hooks in the middle of a save; a scan that also finds other accounts' payments | EscrowLifecycle, Escrow |
| **deposit authorization** `chain-sdk/go/node/escrow/v1/authz.go` | spend limits of a grant | partial acceptance, restored by refunds | a refund restores the grant of the account's owner, not of the signer | Escrow |
| **market** `chain/x/market` | orders, bids, leases; a bond account per bid | create/close bid, create/close/withdraw lease, start reclaim | four records that must end together, on six paths, most of which discard errors | Market |
| **deployment** `chain/x/deployment` | deployments, groups | create, close; close, pause, start a group | a group's life is entangled with its orders and with the account | Market |
| **market hooks** `chain/x/market/hooks` | none | account closed, payment closed | re-enters deployment, market and escrow from inside saveAccount | Market |
| **bme** `chain/x/bme` | queue of burn/mint records, vault, credits, totals, epochs, circuit breaker | request, fund the vault, execute, cancel, epoch end | retries in cache contexts, attempts, epochs that can be missed, halts | MintQueue, Bme |
| **oracle** `chain/x/oracle` | price records per source, the latest of each, health and aggregated price | add price, change sources, prune, end block | staleness, sources that vanish, timestamps of their own | Oracle |
| **epochs** `chain/x/epochs` | epoch timers | begin block | one tick per block, however late | Oracle |
| **pubsub** `chain/pubsub` | tree of buses, an event buffer each | publish, subscribe, clone, close | goroutines that wait on one another, during shutdown above all | Broadcast, PubSub |
| **tx client** `chain-sdk/go/node/client` | the account's sequence; three goroutines and their channels | broadcast messages, broadcast a signed transaction, resynchronise | lost answers, foreign transactions, a mempool ahead of the last block, shutdown | TxBroadcaster |
| **bridge relayer** `bridge-relayer/forwarder.mjs` | two lanes with a saved phase each; registered and pending deposit accounts | cycles over three chains; endpoint and registrations | crash before save, retries, two lanes measuring one balance, awaits | Forwarder, Forwarding |
| **provider agent** `provider-agent/agent.py` | credited and swapped amounts, shares owed, pots; the watch's last block and pot | detect inflow, split, swap, flush; scan the treasury | unknown outcomes taken as paid, saving at the end of a step | Agent, TreasuryWatch |
| **pool proxy** `pool-proxy/proxy.py` | table of unanswered requests, issued jobs, totals in a file | relay requests, answers, jobs; credit; save | answers in any order, a bounded table, credit only for the right answer | Proxy |
| provider, audit, cert, take | independent records or parameters | set and delete one record | nothing over several steps | |
| dex, contracts, desktop, marketplace, bots, SDK, wiring | | | see "Not modelled" | |

Escrow is the centre.  `market` and `deployment` call it synchronously inside a
transaction; it calls back through `hooks` when an account closes or is
overdrawn.  `bme` and `oracle` decide whether its uakt fallback is available and
at which price; `oracle` is pruned by the hook of `epochs`.  The off-chain
services are separate processes that speak to the chains through transactions
and queries: the relayer delivers USDC to the wallet the agent watches, the
proxy's totals decide whose shares the agent pays, providers and tenants post
transactions with the tx client and follow the chain's events on a pubsub bus.

On chain a transaction commits or reverts as a whole and transactions are
sequential, so there is no interleaving below a message; what is hard is the
order of messages and blocks, and effects inside one message.  Off chain it is
the opposite: every await, channel operation and request is a point where another
goroutine, another lane, a crash or a fault comes in between.

What makes each component correct:

* escrow: the module's coins cover all it has recorded; funds and deposits agree;
  a payment is charged once for every block, by its own account; an overdraft is
  joint; a refund happens once; nothing ended returns.
* market, deployment: a running lease is paid for; bid, bond, order and lease
  end together and once; a group has at most one live order.
* bme: every request is executed or cancelled, once; the vault covers its
  promises; supply is what was minted less what was burned.
* oracle: a price handed out as healthy comes from this block and from enough
  fresh sources; its average is one; pruning keeps what is in use.
* pubsub: every subscriber sees every event once and in order; shutdown ends.
* tx client: a transaction is executed once and in order, its answer is true, and
  every call returns.
* relayer: coins are sent once, cycles end, a deposit gets its registration and
  costs one fee.
* agent: nothing is credited twice or without having arrived; pots are flushed;
  every confirmed transfer is booked once and its value paid out.
* proxy: a credit is one accepted share of the address that submitted it.

## Modules

### EscrowLifecycle: the states of accounts and payments

`acct` and `pay` hold the stored states.  `settledNow` is the set of accounts
whose `SettledAt` equals the current height, which decides whether open payments
are collected; `debt` the accounts whose `Funds[0]` is negative, for which
`accountSettle` returns at once.  Which of the payments that are due the deposits
fail to cover is an arbitrary *outcome*, so the module has no amounts and is
proved for every set of accounts and payments.  It is the abstract specification
of Escrow and the ground Market builds on.

`Reached` is a property of the store's keys.  accountPayments iterates from the
account's key, which ends in the deployment's number, in decimal and without a
separator (keeper.go:1166-1171, key.go:51-57, id.go:108-125): the scan for deployment 1
of an owner also finds the payments of its deployments 10 to 19, 100 and so on.  So
`Reached[a]` holds the accounts whose keys begin with that of a, at least a itself,
and a settlement of a collects the payments of all of them (`Collectable`).  It
charges them to a for the blocks since a was settled, overdraws, reopens or closes
them.  An account is `Untouched` if no other collects its payments; deployment
numbers are chosen by the tenant, by default the block height, so accounts of one
owner usually have numbers of equal length and are untouched.

### Escrow: the keeper with its amounts

A state is the block height, the accounts, the payments, the bank balances and
the spend limits.  An operation works on a record (`World`) the way the code
works on `acc` and `payments`: it is passed through the operators named after the
keeper's functions (`Settle`, `ChargeDue`, `Deduct`, `Fallback`, `Withdraw`,
`FetchDeposits`, `SaveAccount`) and committed once.  `Collected` is the list that
accountPayments returns, other accounts' payments included.  A transfer the bank would
refuse disables the operation: the transaction reverts.  `Lifecycle` instantiates
EscrowLifecycle under a refinement mapping, and `ImplementsLifecycle` says that
every operation on amounts is one of EscrowLifecycle's on states.

Abstractions: a decimal is a number of units of 1/`Dec` coin (`Dec` = 2), prices
divide `Dec` so that the conversion is exact where the code rounds at the 18th
digit; the settlement fee takes one part in `FeeParts` for each of the three
beneficiaries (the code 1%), which are one holder; the mint status and the oracle
answer are one nondeterministic input, a price or 0; a granter's authorization
has neither scope nor expiration.  Hooks are absent here, as in the keeper's own
tests, and added in Market.  On the live chain CreateDeployment takes uakt only,
where the first denomination is uakt and the fallback never applies; accounts in
uact, where it does, exist in genesis and through the keeper.

### Market: deployments, groups, orders, bids and leases

Market EXTENDS EscrowLifecycle: a deployment is its account, a lease's payment is
identified by the bid.  Each message is one action that composes a keeper
operation with the market's callbacks.  The callbacks are functions from record to
record (`GroupsClosed` is OnGroupClosed, `DeploymentClosed` the account hook);
`Follow` applies the account hook when the escrow operation of the step closed or
overdrew the account, and then the payment hook (`PaymentsEnded`).  The bond of a bid, a separate escrow account without
payments, is `none`, `held` or `returned`.  Three facts were used to shorten it:

* PaymentClose, called again inside the hook, changes nothing: the account is
  already stored as closed, which is an error that is logged, or overdrawn with
  negative funds, where the settlement returns at once.
* The payment hook finds the bids of the account's own payments closed, by the
  handler before it or by the account hook, and returns.  Only for a payment that
  another account collected does it find the bid active; it then ends the bid, its
  lease and its order, and leaves the group open without an order.
* The account hook fails for a bid's account (its scope is not a deployment's).
  The account has been stored and refunded by then, and the error is discarded by
  OnBidClosed; in CreateLease it ends the loop over the losing bids.

A reclamation window is an element of `window`; its deadline may pass in any
block, `elapsed`.  Times, prices, attributes and events are left out.

### MintQueue and Bme: the burn/mint engine

MintQueue is the promise: the coins of a request are held until it is executed or
cancelled, once, and the outcome is final.  Bme is the keeper.  `wallet`, `vault`
and `held` are balances, `rec` and `pending` the queue, `credits`, `minted` and
`burned` the ledger, `status` the circuit breaker.  Messages are actions of the
phase `txs`; `Block` enters the EndBlocker, which processes the records of a due
epoch one at a time, in the order of their keys and up to the limit, in the phases
`burning` and `minting`.  A record runs in a cache context, so an execution that
fails part-way writes nothing but its attempt count; with the last attempt it is
cancelled and refunded.  A conversion multiplies by the swap rate, which is rounded
as the decimal it is (`Rounded`, `Precision` parts where the code has 10^18), and
truncates; the collateral ratio is an integer division.  A key is denomination,
owner, height and sequence (codec.go), so a request is identified by its place in
that order.  A `Recurring` identifier stands for an owner whose requests sort there one
after another: it is free again after a cancellation.  Heights are relative to the current
block (`mintIn`, `burnIn` count down), so the model needs no last block.
`ImportGenesis` restarts the chain from its exported state and belongs to
`ImportSpec` only.

### Oracle: price records, health, pruning and epochs

A block is BeginBlocker with the epoch's tick and the pruning hook, any number of
messages, and EndBlocker, which aggregates.  `prices` is the set of records with
source, timestamp, sequence and price; `latest` is latestPriceID, whose entries
may refer to records that are gone.  `Twap` is calculateTWAP over the descending
walk; `TwapIsAverage` compares it with the average, instant by instant, of the
price in force.  Times are seconds scaled down to a few units.

### Broadcast and PubSub: the event bus

Broadcast is the promise: each event published after a subscription began is read
once and in order, and a clone begins where its original has stopped reading.
PubSub has one goroutine per bus.  Its position (`mode`) follows the select loop,
and every action is a case of the select or a rendezvous of two goroutines on an
unbuffered channel, so a bus that publishes is blocked until its child takes the
event.  `target` and `todo` are the loop over the subscriptions, whose order (a Go
map's) is arbitrary.

### TxBroadcaster: the serial broadcaster

The goroutines are `Caller(r)`, `Run`, `Broadcaster` and `SequenceSync`; the
channels are variables that hold what is in them.  The node has a mempool and a
committed sequence: a transaction is checked against the first, a query is answered
from the second.  Others may use the account, requests may fail before or after
the node accepted, callers give up and the client shuts down.

### Forwarder and Forwarding: the bridge relayer

Forwarder has the two lanes.  `mem` and `disk` hold the phase of each in memory and
in state.json; the main loop ticks lane after lane (`turn`) and a tick runs until
its lane waits.  Between the effect of a transaction (`Broadcast`,
`HermesTransfer`) and the step that notes and saves it lies an await: a crash may
come there, or an error for a transaction that was accepted (`Lost`,
`HermesLost`).  After Hermes reported success a poll of the chain may fail
(`PollFails`), and as no try stands around it the lane stays in leg 2 and sends again
at its next tick.  `accepted` counts, beside the code, the transactions accepted for
the cycle.  Both lanes read one balance, `noble`.  Coins have one unit on all chains;
what a lane waits for (`expect`) is one unit or 90% of its amount, as the router gave a
quote or not.

Forwarding has the deposit accounts: the endpoint's request reads Noble, then
answers (`Query`, `AnswerExists`, `AnswerNew`), while the loop looks at the entries
there were when it began, and awaits its transactions.

### Agent and TreasuryWatch: the provider agent

Agent is the payout step with USDT_SOURCE `ibc`, in the stages in which it calls
the outside: `Credit` computes what is new from the live balance and the saved
counters, `Pay` swaps for one host, `Sweep` and `FeeTick` swap the rest, `Flush`
sends one pot, `SaveState` ends the step, without saving if the balance it reads
first cannot be read.  What a swap or transfer does is one of
the `FaultKinds`, so the wallet and the counters may come apart.  One ABA costs one
USDC and addresses with shares have equal ones.

TreasuryWatch is the scan with USDT_SOURCE `kryptex-bsc`: windows of logs up to
the confirmed height, a pot, its distribution, and saving at the end.  The chain
grows, its unconfirmed top is replaced, requests fail, the process restarts, also
with a state file that does not parse, from which it begins anew at the newest
block (`origin`).  A payment may fail; pay_provider catches the exception and the pot
is reduced all the same.  `paid` and `unpaid` count, beside the code, what was given
to pay_provider and came to pass or not; `began` is where the first books began.

### Proxy: the pool proxy

One connection of either dialect.  `asked` lists the requests under the proxy's
own ids, `unanswered` is the table of UpstreamIds, `evicted` the entries it dropped
when it was full, `answers` what the pool has judged and the proxy not read, `issued`
the jobs, of which the oldest is forgotten too.  The pool accepts or rejects whatever
it likes.  proxy.py says at line 336 that the pool rejects a submit of a job the proxy
does not know; a pool that issued the job may accept it, and then the share is not
credited, so `AcceptedIsCredited` speaks of submits whose job was known.  After an
eviction a share is not credited either, and the miner reads the answer under the
proxy's id.  The totals are written to
`file` after a credit; while it is written it cannot be parsed and the proxy does
nothing else, and a process that dies then starts from empty totals.

### Proof modules and MC modules

The modules named `...Proofs` hold the theorems, see below, and FiniteSums the
lemmas about sums and folds that four of them cite; those named `MC...` give those
constants their values that a configuration cannot.  A proof module may be about several components:
ChainSdkProofs about TxBroadcaster and PubSub, RelayerProofs about Forwarder and
Forwarding, PayoutProofs about Proxy, Agent and TreasuryWatch.  So that one module
can extend them all, the definitions of TxBroadcaster, Forwarding, Agent and
TreasuryWatch carry their component in names that would clash (`AgentNext`,
`WatchSpec`).

## Runs

| run | result | states | question |
|---|---|---|---|
| escrow | passes | 161,000 | do the amounts add up through overdraft, fallback, top-up and refund, does a granter stay within its limits, and does the keeper implement the lifecycle? |
| market | passes | 117,000 | do deployment, groups, orders, bids, bonds, leases and payments start and end together, and does nothing ended return? |
| bme | passes | 150,000 | do vault, pending balances, credits and totals agree, and is every request resolved once, and in the end if it is not overtaken for ever? |
| oracle | passes | 2,060,000 | is a healthy price current, is its average one, and does pruning keep what is in use? |
| pubsub | passes | 12,000 | are events neither lost, repeated nor reordered, and does no goroutine wait for ever? |
| tx_broadcaster | passes | 202,000 | is a transaction executed once and in order, is its answer true, and does every call return? |
| forwarder | passes | 929,000 | is the history true, is each transaction of both legs sent, and sent again only for an event that explains it, and does a lane that is alone finish? |
| forwarding | passes | 294,000 | is nobody told of a registration that is none, does nobody cost a second fee, and does a deposit register? |
| agent | passes | 252,000 | is nothing credited twice or without having arrived, and are pots flushed, whatever fails? |
| treasury | passes | 294,000 | is every transfer behind the watch booked once, and the value of every confirmed one given to the payment? |
| proxy | passes | 1,056,000 | does a credit belong to one accepted share of its submitter, and is an accepted share credited unless its entry was dropped? |
| escrow_lost_charge | violated | | is what an account transferred what its payments received (account.proto)? |

`escrow_lost_charge`: a second lease on a deployment settles the first one's blocks
in PaymentCreate and drops the list of charged payments: the tenant is charged and
the provider is never paid.

Seven of the properties are conjunctions of two that belong together:
`DepositsAddUp` (`FundsMatchDeposits`, `EndedIsRefunded`), `ChargesAddUp`
(`NeverOvercharged`, `DebtCoversUnsettled`), `RequestsResolve` (`BurnResolves`,
`MintResolves`), `BusesProgress` (`PublishReturns`, `CloseEnds`), `OnceInOrder`
(`ExecutedOnce`, `InOrder`), `AnswersMatched` (`CreditedToSubmitter`,
`RepliesMatch`) and `InflowPaidOut` (the counter, `GivenOnce`).  Each module has a type invariant, `TypeOK` or named for its
component (`MarketTypeOK`, `WatchTypeOK`), which is not a property of the runs: it,
or what of it the proofs need, is part of the inductive invariants.

### Counterexample configurations

What the code does not keep is written down as a property of the same module, and
a configuration finds its counterexample.  The properties of the runs say what
holds in spite of it.

| configuration (module) | property | what happens |
|---|---|---|
| EscrowPrefix (MCEscrow) | PaymentsAreOfAccount, from a comment on GetAccountPayments | A settlement of deployment 1 collects a payment of deployment 12 of the same owner, which is charged twice for the same blocks. |
| EscrowDangling (MCEscrow) | PaymentsInSync, from genesis.go | Open, settle, and close in one block: the second settlement collects nothing, the account closes, the payment stays open. |
| MarketEndedLease (MCMarket) | EndedLeaseIsNotCharged, from keeper_test.go | A lease withdrawn and closed in one block is closed in the market while its payment keeps charging the account. |
| MarketLosers (MCMarket) | LosersClosed, from a comment in CreateLease | Only the first losing bid is closed: the account hook's error ends the loop. The others keep their bond until the provider closes them or the order ends. |
| BmeStarved (Bme) | MintResolvesAlways | An epoch takes its records from the front; an owner who sorts first and asks again after each cancellation keeps another's request waiting. |
| BmeImport (Bme) | BurnResolves | ExportGenesis leaves out the balances of pending requests; after an import such a request is neither executed nor cancelled. |
| OracleSilent (MCOracle) | HaltsWhenStale, from a comment in abci.go | With the last reporting source removed the denomination is not visited any more and its price stays healthy. |
| OracleSequence (MCOracle) | NewestIsLatest | The sequence of records restarts with each block, so a later record with the timestamp of an earlier one can sort before it. |
| ForwarderLanes (MCForwarder) | CycleEnds, from the file's header | One lane counts the other's coins as its own and sends them on; the other waits for ever. |
| ForwarderRestart (MCForwarder) | CycleEnds | After a crash between broadcast and save the lane broadcasts again, which the chain refuses at every tick. |
| ForwarderPoll (MCForwarder) | CycleEnds | A poll fails after Hermes delivered; the lane sends the amount again, which is refused at every tick. |
| ForwardingEvicted (Forwarding) | DepositRegisters, from the endpoint's answer | A full table drops its oldest entry, whose deposit then waits until the user asks again. |
| AgentFee (MCAgent) | ReservedCovered, from a comment | dex_fee_tick swaps the whole balance, and with it the host shares that wait below the floor. |
| AgentUnmined (MCAgent) | OnlyNew, from a comment | A receipt that does not come in time counts as success; when the swap never lands its coins are new again. |
| TreasuryUnpaid (TreasuryWatch) | ReducedOncePaid, from a comment in step | A payment fails, and the pot is reduced all the same. |
| TreasuryTorn (TreasuryWatch) | HeldNotLost, from a comment | After a torn state file the books begin at the newest block, and what was in the pot is in neither. |
| ProxyAuthorize (Proxy) | CreditedToSubmitter | In the stratum dialect the address is read when the answer comes: a share submitted before another mining.authorize is credited to the new address. |
| BroadcasterHang (MCTxBroadcaster) | SyncTimesOut, from the error's text | The request for a sequence is sent outside the timeout; while the last one is unanswered broadcaster blocks. |

Met while reading, without a configuration: OrderMaxBids admits one bid more than
it says (`>`); the uakt fallback can leave the uakt funds negative with two
overdrawn payments; a bme block that handles both epochs processes one record more
than the limit; the records of a removed oracle source are never pruned and
timestamps have no upper limit; the agent's flush books a transfer that failed in its block,
and the inflow of an epoch without shares goes to the sweep; a restart of the
treasury watch in the middle of a payout pays it again.

### Bounds, and why they suffice

* escrow: an account with two payments, so that one can be short and the other not,
  or (constraint `Within`) two accounts with a payment each, the first of which also
  collects the second's; accounts that do not collect one another's payments share
  only the bank and the grants.  In the second case deposits come from the wallet
  alone.  `MaxHeight` 4 gives three blocks: run, overdraw, top up.  Rate 3 with `Dec` 2
  gives exact and truncated charges; the second tenant can spend the granter's
  limit on the first one's account; small wallets allow several deposits and are
  soon exhausted, and then the model stops, as it does at the last height:
  deadlock is not checked there.  `FeeParts` 3 lets three coins pay a fee; smaller
  amounts truncate it to 0.
* market: two groups of one deployment meet in the hook, two providers bid against
  each other, `MaxOrders` 2 shows the second life of a group.  The constraint
  `WithinOne` keeps these cases to the places where they meet: the second group has
  one order, the second provider bids on the first order, and a reclamation window
  is agreed for the first order.  `WithinTwo` has a second deployment, d12, whose
  payments d1 collects: one provider, one order with a bid in each, so that either
  deployment's account can end the other's lease or its own first.
* bme: two requests in both directions, of an amount below and one above the
  minimum (10; a mint of it leaves a spread), with one record a block, so that one
  waits for the other; two attempts; epochs of two to three blocks; prices 0 (none),
  1 and 2 move the ratio through warning and halt, and with a `Precision` of 5 the
  rate at price 2 is rounded.  There is no last block.  The first identifier
  is recurring, so that its owner may overtake the second request again and again.
  It is reused after a cancellation, not after an execution.  With two identifiers
  only a mint can be starved, while burns are halted or not; a burn needs a third.
* oracle: two sources, of which both must be fresh or one removed; steps of 1 and 3
  time units against a staleness of 2, a window of 3 and a retention of 4, so that
  a record passes every limit; five units of time and three records at a time.
  Timestamps lie at the block's time or before it.  The run stops at `MaxTime`.
* pubsub: every tree of three buses, root, child and grandchild or two children; two events, so that a second
  one is published while the first is still on its way.
* tx_broadcaster: one call of each kind, one foreign transaction, one fault,
  cancelled calls and a shutdown; the sequences are bounded by these.  After the
  shutdown nothing is left to do.
* forwarder: both lanes, one of two transactions; one each of arrival, failed
  request, failed poll, misread balance, false report, crash and fee; two tries of
  leg 2.
* forwarding: as many users as entries (two; one more in ForwardingEvicted), a cap of one registration a day; one
  deposit each, one fault, one restart; users may register elsewhere.
* agent: one host and one pot, two deliveries of a size below and above the floor,
  one accrual of fees, two faults.
* treasury: six blocks, two to confirm, windows of two, so that a scan takes
  several; one reorganisation, one failing request or payment, one crash.
* proxy: two addresses, two ids, so that a miner gives two requests the same; two
  jobs of which one is remembered, three requests of which the table holds two, one
  break; deadlock is not checked because a connection whose requests
  are used up stops.

## Fairness and liveness

* Escrow, Market, Oracle: none.  Nobody is obliged to send a message: an overdrawn
  account may stay so for ever, a lease nobody withdraws from is never settled, and
  sources may fall silent.  No liveness property would be justified, and none is
  stated.
* Bme: `WF(Block)`.  Consensus keeps producing blocks; users owe nothing.
  `MintResolves` assumes that in the end the price stays and the circuit breaker
  does not trip; `BurnResolves` needs no such assumption.  Both are said of a request
  that in the end no new request of its denomination is put before (`LeftInTurn`).
* PubSub: `SF(Goroutine(b))` for every bus.  Goroutines are scheduled and a select
  picks at random among its ready cases, so a case that is ready again and again is
  taken.  Consumers need not read and clients need not close.
* TxBroadcaster: weak fairness of the goroutines, and `WF(SequenceSync)`: the node
  answers a query.  Without the latter calls hang (BroadcasterHang).
* Forwarder: `WF(Tick)` (main is a loop with a timer) and `WF(Arrivals)` (an IBC or
  CCTP transfer that was accepted arrives).  A lane's cycle ends if from the start
  on the lane is `Alone`: no other lane counts its coins, no fee takes them, reports
  are right, and no poll fails after an accepted transfer.  Other requests may fail.
* Forwarding: `WF(PendingTick)` and `WF(NewDay)` (the cap ends).
* Agent: `WF(Step)`: epoch_loop goes on, and every request answers or fails.
* TreasuryWatch: `WF(WatchStep)`, and `SF(Attribute)`: somebody has shares now and then.
* Proxy: `WF(Serve)`: the proxy reads what the pool has sent.

No environment action that the code waits for is fair unless it is named here.

## Proofs

All theorems hold for every value of the constants that satisfies the module's one
named assumption (types of the constants, which payment belongs to which account,
and for Escrow what is said of it below); each module states it.  Those with a
further hypothesis are named.  The proofs go by action, with one step for each
conjunct an action can disturb.

* `MarketProofs`, the lifecycle.  `LifecycleInv` conjoins the type invariant,
  `OverdrawnTogether`, `OverdrawnInDebt` and `PaymentHasAccount`.  The last two are
  needed for the first: a settlement of an overdrawn account that is *not* in debt
  would collect the overdrawn payments and could leave the account's state behind
  them, and a payment of an account that does not exist would make a new account
  inconsistent at its creation.  `ClosedIsFinal` proves `NoRevival`: an overdrawn
  account never reopens because only in debt do PaymentWithdraw and PaymentClose
  leave it alone.  Each settlement is reduced to a lemma about `PayAfter`, the
  states it leaves.  All of it holds for any `Reached`.  `OverdrawnTogether` and
  `NoRevival` say of a payment what depends on its own account alone only if its
  account is `Untouched`; what they say of accounts needs nothing of the kind, but for
  the claim that an overdrawn account has no open payment, in which the account must
  collect no others' either, since a payment of another may overdraw it.
* `MarketProofs`, the market.  `MarketUsesLifecycle`: every message is a step of the
  lifecycle, so its theorems hold of the market.  `DeploymentsFollowAccounts`: a
  message acts on one account (`AccountStep`), and that it neither appears nor
  reopens is what makes the hook's guard sufficient.  `BondsFollowBids` and
  `LeaseBidOrderAgree` follow from `Coherent(Market)`, stated of a record, because
  the callbacks pass one along: each callback preserves it and a message composes
  them.  Beyond the two properties it says that a group or an order that exists has
  a deployment that was created, without which CreateDeployment could overwrite a
  matched order.  `OneOrderLives` rests on `OrdersInTurn`: an order is placed when
  all earlier ones of its group are closed (`Numbered`), and a group has a live
  order only while it is open, exactly while it is open if its deployment's account
  is `Untouched` (`Served`), with the groups a callback has still to serve as a
  parameter.  `LeasesArePaid`: while an `Untouched` account stays open, a message
  closes no payment of it but those it names (`PaymentStep`), and closing one of these
  ends its lease; a payment that another account closes ends its lease by the payment
  hook.
  `Ordered` and the leases are inductive together (`OrdersInTurn`).
* `EscrowProofs`, the amounts.  Every loop of the keeper is a fold over deposits,
  payments, sources or granters, and every property is a sum, so the proofs rest on
  FiniteSums: what a fold keeps (`FoldKeeps`: what each step keeps) and what a sum
  becomes when one term changes (`TotalChange`).  The invariant `IInv` says, besides
  the types, of each account that it is `Sound`:
  - `Told`: in each denomination the deposits add up to the funds, or to nothing
    when the funds are negative;
  - `AccOk`: it was settled no later than now, and if it is overdrawn it is in debt
    in its first denomination;
  - `PayOk` of each of its payments, if no other account collects them
    (`Untouched`): what it got and what it is owed is at most its
    rate for the time since it was created, and while it is open for the time up to
    the account's last settlement; only an overdrawn payment of an overdrawn account
    is owed anything;
  - `PaysOk`: with that, what the payments of an overdrawn account are owed is within
    its debt (they are part of those it collects, `OwnAtMost`);
  - `Ended`: it has no deposits once it is closed or overdrawn;

  of any payment that only an overdrawn one is owed anything (`Owing`), whoever
  collects it; and of the bank and the grants that the escrow's coins cover the deposits of all
  accounts and the balances of all payments (`Covers`), and that the limits left to
  a granter and the deposits that may return to it are within its original limits
  (`Exposes`).  `ChargesAddUp` is not inductive without the bound at the last
  settlement: a payment charged twice for the same blocks would stay within its rate
  until the next one.  `Covers` and `Exposes` speak of all accounts while an
  operation has one in its hands, so they are carried through the operators as
  differences: `Room`, the coins less the claims of the account at hand, never
  shrinks, and `Exposed`, a granter's limits and what may return to it, never grows.
  Each operator of the keeper has one lemma for these and one for the account's
  soundness (`Settles`, `Charges`, `Concludes`, `Leaves`), and an action composes
  them.  The theorems are `EscrowIsSolvent`, `DepositsAlwaysAddUp`,
  `ChargesAlwaysAddUp` and `GrantsAreLimited`.  What they assume of the constants:
  wallets and limits are amounts, rates, deposits and prices positive, prices divide
  `Dec` (otherwise the uakt fallback rounds, see the abstractions of Escrow), and
  nobody signs for the module's own account.  `Solvent`, `DepositsAddUp` and
  `GrantExposure` hold whatever accounts collect: a charge only moves a claim from
  a deposit to a payment, whoever's it is.  `ChargesAddUp` is said of untouched
  accounts; that such an account may itself collect others' payments does no harm,
  since the debt left behind covers all that it failed to pay (`TotalWithin`).
* `EscrowProofs`, the lifecycle.  `EscrowFollowsLifecycle`: every operation on
  amounts is an operation of EscrowLifecycle on states, so what `MarketProofs` shows
  of the lifecycle holds of the keeper's states.  The outcome of the abstract
  settlement is read off the amounts (`Outcome`): exactly the payments due are
  charged, and they come out all open or all overdrawn, the latter only with funds
  below zero.  What each loop does to the states is one lemma (`Billed` for the
  charges and the fallback, `Concludes` for the end of a settlement, `Closes` for
  the payments closed, `SameStates` for the withdrawals).  `IInv` is not enough for
  the correspondence: it needs `Fresh`, that no account starts in debt, which a step
  preserves along with it.  Both levels collect by `Reached`, so nothing is assumed of
  whose payments an account collects.
* `BmeProofs`.  `BmeInv` conjoins the types (`Coins`, `Records`, `Blocks`), that a
  request is in one place (`OnePlace`), `VaultCovers`, `LedgerMatchesSupply` and
  what an epoch set means for its distance (`EpochSet`).  From it
  `VaultAlwaysCovers`, `LedgerExplainsSupply`, `MintEpochNotMissed`, and the
  refinement `BmeIsAQueue`: an EndBlocker step executes or cancels the one record it
  handles, or stutters.  `HeldAddsUp` proves that what the module holds back is the
  sum of the pending requests.
* `FiniteSums`, what a sum over a finite set and a fold over a sequence are.  Both
  are functions chosen for a recursive equation.  That one exists, that it is the
  only one, and what becomes of it when an element is added, removed or changed, is
  proved by taking a smallest counterexample, in place of the library's induction
  theorems.
* `OracleProofs`.  `OracleInv` conjoins the store's shape, the epochs' grid,
  `UsableIsCurrent` and `KeptOrOld`: the record a latest entry refers to is stored
  or older than the retention.  The pruning keeps it because its cut-off never
  passes the retention.  `HealthyIsCurrent`, `PruningKeepsLatest`, `EpochsOnGrid`.
  `AverageOverTime` proves `TwapIsAverage`: the weighted sum that calculateTWAP
  builds from the records is the sum over every instant of the window of the price
  in force at it.  The instants are counted twice, once by instant and once by
  record: one record is in force at each instant (`Newest`), and it is in force for
  as many instants as its weight says.
* `ChainSdkProofs`, the event bus.  The invariant says where the goroutines can be
  (`Listed`, `Loops`, `Childless`, `Bounded`), that a buffer is exactly the events
  not read (`BufferIsUnread`) and how far a child may be behind its parent
  (`UpToDate`): by the one event being handed over, and only while the parent's loop
  has it left. From it `NothingLostInBuffers`, `SubscribersKeepUp`, `ParentsOutlive`
  and the refinement `BusKeepsPromise`.
* `ChainSdkProofs`, the broadcaster.  `AcceptedOnceInOrder` and `AnswersAreTrue`,
  for any requests, faults and foreign transactions.  In `BroadcasterInv`, what is
  pending, handed over and worked on are consecutive parts of what `Run` took
  (`QueueOrder`), nothing is taken twice (`TakenOnce`), what was accepted was tried
  before (`AcceptedTried`), and every answer on its way, in the job's outcome, in a
  response channel or with the caller, is true of its request (`AnswersTrue`).  So
  the request at hand comes after all those accepted, and while it has an attempt
  left it is not among them.
* `RelayerProofs`: `HistoryWasSent`, with `AcceptedFirst`: a cycle on its way to
  completion has a transfer that was accepted behind it.  `EverySendOnce` proves
  `SentOnce`, of both legs and of lanes with any number of transactions.  Of each lane
  `Once` says that what was accepted is what the lane's position accounts for
  (`Behind`), and more than that at most by the events that left the forwarder unsure
  (`Unsure`).  When such an event happens the lane stands before its last transaction
  again, and the event explains the repetition.  Needed with it are that the events
  only grow in number (`BudgetShrinks`), that the state on disk is the one in memory,
  and that a leg 1 has a transaction left to confirm (`Accounted`).  Of the deposit accounts `RegisteredIsTrue` and
  `OneFeePerUser`; a fee is paid only for an account that holds a deposit, and
  registering takes the deposit away.
* `PayoutProofs`, the proxy: `CreditsAreEarned`; an id leaves the table with its
  answer and never returns, since the proxy's ids only grow.  `AnswersAreMatched`,
  `RepliesFollowRequests` and `CreditsGoToSubmitters` speak of the relation between
  a request of the miner, the entry of the table and the answer.  What they say of
  credits is stated for the `cpu` dialect, in which it holds: the `gpu` dialect
  credits whoever authorized last (run ProxyAuthorize shows it).  That an answer
  carries the miner's id holds in both.  It needs `HasEntry`, that whatever is
  outstanding has its entry or is among those the table has dropped (`evicted`); the
  answer to one that was dropped goes out under the proxy's id.
* `PayoutProofs`, the agent.  `NewIsNew` proves `OnlyNew` and `CreditsArrived`
  proves `CreditedArrived`, from `Backed`: what memory and state.json have as seen
  arrived, and what of it they have not credited has left the wallet without being
  counted as swapped.  Both have the hypothesis `"unmined" \notin Faults`, that no
  swap is counted that is not carried out.  It is needed: AgentUnmined is the
  counterexample without it, and the run agent has every fault but that one in
  `Faults`.
* `PayoutProofs`, the watch.  `TransfersBookedOnce` proves `BookedOnce` from
  `WatchInv`: the books in memory and those in the state file are each of blocks
  that no reorganisation replaces any more, and hold what these blocks have
  transferred since `origin` (`Booked`).  Both are needed, since a restart puts one
  in the place of the other.  `DistributedWasGiven` proves `GivenOnce`, the safety
  half of `InflowPaidOut`: what is counted as distributed was given to
  `pay_provider`, and once only as long as the process never started again.

Every invariant, action property and refinement that the runs check is stated by one
of these theorems.  Only model-checked is what is out of the prover's reach,
liveness under fairness and ENABLED: `RequestsResolve`, `BusesProgress`, `Returns`,
`CycleEndsAlone`, `DepositRegistersInTime`, `PotsFlushed`, `InflowPaidOut` and
`AcceptedIsCredited`.  What a fold computes for every input is proved only as far as
FiniteSums goes.

## Not modelled

* provider, audit, cert: registries of independent records; a message sets or
  deletes one.  take: its parameters only, the fee it sets is part of Escrow.
* dex, contracts: a constant product pool, and third-party code that verifies
  signed prices; arithmetic on wide integers and cryptography, no protocol over
  several steps.
* application wiring, command line, generated protobuf code, and the vendored
  Cosmos SDK, which is nine tenths of the repository's lines and is used, not
  written, here.  The models assume of it that transactions are atomic and
  sequential and that the bank moves coins or fails.  The share of the
  repository's lines that the models stand for is therefore small, and would stay
  so with every component above modelled.
* desktop miner, marketplace, newsroom, bots: user interfaces and scripts.
* In modelled components: queries, UpdateParams, migrations; of the agent the
  oracle estimate, the simulated fleet and the reports; of the tx client gas,
  options and the modes async and block; of the relayer routes, the rate limit and
  the status page; of the proxy difficulties and the window of /shares.

## Plan

Done: escrow, market, bme, oracle with epochs, pubsub, tx client, relayer, agent
and proxy as above, with the theorems above.  What remains worth doing:

1. The composition of Forwarder and Agent, whose deliveries are arbitrary now.
2. A dex module, if its keeper grows a protocol of several steps.
