-------------------------------- MODULE Bme --------------------------------
(***************************************************************************)
(* x/bme: requests to burn uakt for uact (a mint) or uact for uakt (a      *)
(* burn) are queued, and executed at the end of the block of an epoch.     *)
(* uakt burnt for uact stays in the vault as a credit that later burns     *)
(* spend before any uakt is minted.  The circuit breaker compares the      *)
(* vault with the uact in circulation.                                     *)
(*                                                                         *)
(* Heights are kept relative to the current block, so a run has no last    *)
(* block.  The end of a block goes through its phases one record at a      *)
(* time; nothing else happens in between.                                  *)
(***************************************************************************)
EXTENDS Integers, FiniteSetsExt

CONSTANTS
    Requests,       \* record identifiers: numbers, in the order of their keys
    Recurring,      \* those that stand for one owner's requests in turn: a later
                    \* request takes the place of one that was cancelled
    Amounts,        \* coins a request or a funding may name
    Prices,         \* TWAP of AKT in uact per uakt; ACT is always 1
    Precision,      \* parts of a decimal unit; 10^18 in the code
    InitialAkt,     \* uakt in existence at genesis
    MinMint,        \* params.MinMint of uact
    SpreadBps,      \* params.MintSpreadBps, and SettleSpreadBps
    WarnBps,        \* params.CircuitBreakerWarnThreshold
    HaltBps,        \* params.CircuitBreakerHaltThreshold
    MinEpochBlocks,     \* params.MinEpochBlocks
    MaxEpochBlocks,     \* the cap of calculateBlocksDiff
    MaxRecords,     \* params.MaxEndblockerRecords
    MaxAttempts     \* params.MaxPendingAttempts

ASSUME BmeAssumption ==
    /\ Requests \subseteq Nat /\ Recurring \subseteq Requests /\ Precision \in Nat \ {0}
    /\ Amounts \subseteq Nat \ {0} /\ Prices \subseteq Nat \ {0}
    /\ InitialAkt \in Nat /\ MinMint \in Nat /\ SpreadBps \in 0..1000
    /\ WarnBps \in 0..10000 /\ HaltBps \in 0..10000 /\ HaltBps < WarnBps
    /\ MinEpochBlocks \in Nat \ {0} /\ MaxEpochBlocks \in Nat /\ MinEpochBlocks <= MaxEpochBlocks
    /\ MaxRecords \in Nat /\ MaxAttempts \in Nat

Denoms == {"akt", "act"}
Other(d) == IF d = "akt" THEN "act" ELSE "akt"

VARIABLES
    phase,      \* "txs", or the part of EndBlocker that is running
    price,      \* the price of AKT, 0 when the oracle has no healthy one
    wallet,     \* coins outside the module, by denomination
    vault,      \* coins of the module account, by denomination
    held,       \* ledgerPendingBalances
    tracked,    \* the denominations ledgerPendingBalances has an entry for
    credits,    \* remintCredits of uakt
    minted,     \* totalMinted
    burned,     \* totalBurned
    pending,    \* ids in ledgerPending
    executed,   \* ids in ledger
    canceled,   \* ids in ledgerCanceled
    rec,        \* the request behind an id: the coins to burn and the attempts
    status,     \* the circuit breaker: status, previous status, EpochHeightDiff
    mintIn,     \* blocks until the mint epoch, -1 once it has passed
    burnIn,     \* blocks until the burn epoch, -1 once it has passed
    todo,       \* records the iteration of this block has left
    processed   \* records counted in this block

coinVars == <<wallet, vault, held, tracked, credits, minted, burned>>
ledgerVars == <<pending, executed, canceled, rec>>
blockVars == <<phase, todo, processed, mintIn, burnIn>>
vars == <<coinVars, ledgerVars, blockVars, price, status>>

Healthy == 1
Warning == 2
HaltCR == 3
HaltOracle == 4

NoRecord == [from |-> "akt", amount |-> 0, attempts |-> 0]

Init ==
    /\ phase = "txs" /\ price = 0
    /\ wallet = [d \in Denoms |-> IF d = "akt" THEN InitialAkt ELSE 0]
    /\ vault = [d \in Denoms |-> 0]
    /\ held = [d \in Denoms |-> 0]
    /\ tracked = {}
    /\ credits = 0
    /\ minted = [d \in Denoms |-> 0]
    /\ burned = [d \in Denoms |-> 0]
    /\ pending = {} /\ executed = {} /\ canceled = {}
    /\ rec = [r \in Requests |-> NoRecord]
    /\ status = [now |-> HaltCR, previous |-> 0, diff |-> MinEpochBlocks]
    /\ mintIn = MinEpochBlocks /\ burnIn = MinEpochBlocks
    /\ todo = {} /\ processed = 0

-----------------------------------------------------------------------------
(* Messages *)

\* The oracle's price of this block.
SetPrice(p) ==
    /\ phase = "txs"
    /\ price' = p
    /\ UNCHANGED <<coinVars, ledgerVars, blockVars, status>>

\* Only refunds of uact are taken while the collateral ratio is too low, and
\* nothing while there is no price.
Admitted(d) ==
    /\ price # 0
    /\ status.now >= HaltCR => status.now = HaltCR /\ d = "act"

RequestBurnMint(r, d, a) ==
    /\ phase = "txs"
    /\ r \notin pending \cup executed
    /\ r \in canceled => r \in Recurring
    /\ Admitted(d)
    /\ a <= wallet[d]
    /\ wallet' = [wallet EXCEPT ![d] = @ - a]
    /\ vault' = [vault EXCEPT ![d] = @ + a]
    /\ held' = [held EXCEPT ![d] = @ + a]
    /\ tracked' = tracked \cup {d}
    /\ pending' = pending \cup {r}
    /\ canceled' = canceled \ {r}
    /\ rec' = [rec EXCEPT ![r] = [from |-> d, amount |-> a, attempts |-> 0]]
    /\ UNCHANGED <<credits, minted, burned, executed, blockVars, price, status>>

FundVault(a) ==
    /\ phase = "txs"
    /\ a <= wallet["akt"]
    /\ wallet' = [wallet EXCEPT !["akt"] = @ - a]
    /\ vault' = [vault EXCEPT !["akt"] = @ + a]
    /\ UNCHANGED <<held, tracked, credits, minted, burned, ledgerVars, blockVars, price, status>>

-----------------------------------------------------------------------------
(* One record *)

\* A quotient of decimals is rounded to the nearest, a half to the even one.
Rounded(n, m) ==
    LET floor == n \div m
        twice == 2 * (n % m)
    IN  IF twice > m \/ (twice = m /\ floor % 2 = 1) THEN floor + 1 ELSE floor

\* prepareToBM: the swap rate, in parts, is rounded before the amount is
\* multiplied by it; then the coins to mint, and the part of them that stays in
\* the vault, are truncated.
SwapRate(r) ==
    IF rec[r].from = "akt" THEN Precision * price ELSE Rounded(Precision, price)

MintDec(r) == rec[r].amount * SwapRate(r)
Minting(r) == MintDec(r) \div Precision
Spread(r) == Rounded(MintDec(r) * SpreadBps, 10000) \div Precision

\* Errors that a retry cannot change: nothing, or too little, would be minted.
Fatal(r) ==
    /\ price # 0
    /\ \/ Minting(r) = 0
       \/ rec[r].from = "akt" /\ Minting(r) < MinMint

\* What stands in the way of any execution of the record in this block.
Blocked(r) == price = 0 \/ rec[r].from \notin tracked

\* burnACT spends the credit first.
Issued(r) ==
    IF rec[r].from = "akt" THEN 0
    ELSE IF credits >= Minting(r) THEN Minting(r) ELSE credits

\* The uakt burnt for uact is not destroyed but becomes a credit.
Accrued(r) == IF rec[r].from = "akt" THEN rec[r].amount ELSE 0

\* Variant: uakt is destroyed too, instead of backing the uact.
DestroyedAlways(r) == rec[r].amount

\* Coins of the record's own denomination that leave the module.
Destroyed(r) == IF rec[r].from = "akt" THEN 0 ELSE rec[r].amount

\* Variant: coins paid out of the credit are counted as newly minted.
ExecuteCountingReminted(r) ==
    LET d == rec[r].from
        e == Other(d)
    IN  /\ vault' = [vault EXCEPT ![d] = @ - Destroyed(r),
                                  ![e] = @ + Spread(r) - Issued(r)]
        /\ wallet' = [wallet EXCEPT ![e] = @ + Minting(r) - Spread(r)]
        /\ minted' = [minted EXCEPT ![e] = @ + Minting(r)]
        /\ burned' = [burned EXCEPT ![d] = @ + Destroyed(r)]
        /\ credits' = credits + Accrued(r) - Issued(r)
        /\ held' = [held EXCEPT ![d] = @ - rec[r].amount]
        /\ pending' = pending \ {r}
        /\ executed' = executed \cup {r}
        /\ UNCHANGED <<canceled, rec, tracked>>

\* executeBurnMint and recordState.
ExecuteBurnMint(r) ==
    LET d == rec[r].from
        e == Other(d)
    IN  /\ vault' = [vault EXCEPT ![d] = @ - Destroyed(r),
                                  ![e] = @ + Spread(r) - Issued(r)]
        /\ wallet' = [wallet EXCEPT ![e] = @ + Minting(r) - Spread(r)]
        /\ minted' = [minted EXCEPT ![e] = @ + Minting(r) - Issued(r)]
        /\ burned' = [burned EXCEPT ![d] = @ + Destroyed(r)]
        /\ credits' = credits + Accrued(r) - Issued(r)
        /\ held' = [held EXCEPT ![d] = @ - rec[r].amount]
        /\ pending' = pending \ {r}
        /\ executed' = executed \cup {r}
        /\ UNCHANGED <<canceled, rec, tracked>>

\* Variant: the refund leaves the record in the queue.
CancelKeepingRecord(r) ==
    LET d == rec[r].from
    IN  /\ vault' = [vault EXCEPT ![d] = @ - rec[r].amount]
        /\ wallet' = [wallet EXCEPT ![d] = @ + rec[r].amount]
        /\ held' = [held EXCEPT ![d] = @ - rec[r].amount]
        /\ canceled' = canceled \cup {r}
        /\ UNCHANGED <<pending, executed, rec, tracked, credits, minted, burned>>

\* cancelBurnMint: the coins return to the owner.
CancelBurnMint(r) ==
    LET d == rec[r].from
    IN  /\ vault' = [vault EXCEPT ![d] = @ - rec[r].amount]
        /\ wallet' = [wallet EXCEPT ![d] = @ + rec[r].amount]
        /\ held' = [held EXCEPT ![d] = @ - rec[r].amount]
        /\ pending' = pending \ {r}
        /\ canceled' = canceled \cup {r}
        /\ UNCHANGED <<executed, rec, tracked, credits, minted, burned>>

\* Variant: the attempt is not recorded.
RetriedForever(r) ==
    UNCHANGED <<rec, coinVars, pending, executed, canceled>>

Retried(r) ==
    /\ rec' = [rec EXCEPT ![r].attempts = @ + 1]
    /\ UNCHANGED <<coinVars, pending, executed, canceled>>

-----------------------------------------------------------------------------
(* EndBlocker *)

\* The iteration goes through the records in the order of their keys.
Turn(r) ==
    /\ phase \in {"burning", "minting"}
    /\ r \in todo
    /\ \A q \in todo : r <= q

\* A record that was dealt with counts, and the iteration stops at the limit.
Counted(r) ==
    /\ processed' = processed + 1
    /\ todo' = IF processed + 1 >= MaxRecords THEN {} ELSE todo \ {r}

Uncounted(r) ==
    /\ processed' = processed
    /\ todo' = todo \ {r}

\* A cancellation fails, and changes nothing, without an entry of the balance.
Cancel(r) ==
    IF rec[r].from \in tracked THEN CancelBurnMint(r) /\ Counted(r)
    ELSE Uncounted(r) /\ UNCHANGED <<coinVars, ledgerVars>>

\* The record executes in a cache context that is written only on success.
Execute(r) ==
    /\ Turn(r)
    /\ ~Blocked(r) /\ ~Fatal(r) /\ r \notin executed
    /\ ExecuteBurnMint(r)
    /\ Counted(r)
    /\ UNCHANGED <<phase, mintIn, burnIn, price, status>>

CancelFatal(r) ==
    /\ Turn(r)
    /\ Fatal(r)
    /\ Cancel(r)
    /\ UNCHANGED <<phase, mintIn, burnIn, price, status>>

\* The price has gone, or the bank refuses: the record stays for a later epoch
\* until its attempts are used up.
Retry(r) ==
    /\ Turn(r)
    /\ ~Fatal(r)
    /\ IF rec[r].attempts + 1 >= MaxAttempts THEN Cancel(r) ELSE Retried(r) /\ Counted(r)
    /\ UNCHANGED <<phase, mintIn, burnIn, price, status>>

Route(d) == {r \in pending : rec[r].from = d}

\* EndBlocker up to the burn epoch.
EndBlocker ==
    /\ phase = "txs"
    /\ phase' = "burning"
    /\ processed' = 0
    /\ IF burnIn <= 0
       THEN burnIn' = MinEpochBlocks /\ todo' = Route("act")
       ELSE burnIn' = burnIn /\ todo' = {}
    /\ UNCHANGED <<coinVars, ledgerVars, mintIn, price, status>>

\* The uakt that backs the uact in circulation, in basis points.
CollateralRatio ==
    LET free == vault["akt"] - held["akt"]
        supply == wallet["act"] + vault["act"]
    IN  IF supply > 0 THEN (free * price * 10000) \div supply ELSE free * price * 10000

\* calculateBlocksDiff grows from the minimum to its cap as the ratio falls.
BlocksDiffs(ratio) ==
    IF ratio >= WarnBps THEN {MinEpochBlocks} ELSE MinEpochBlocks..MaxEpochBlocks

Measured(ratio) ==
    IF price = 0 THEN {[now |-> HaltOracle, diff |-> status.diff]}
    ELSE IF ratio > WarnBps THEN [now : {Healthy}, diff : BlocksDiffs(ratio)]
    ELSE IF ratio > HaltBps THEN [now : {Warning}, diff : BlocksDiffs(ratio)]
    ELSE {[now |-> HaltCR, diff |-> status.diff]}

\* mintStatusUpdate: the previous status is kept when anything changed.
MintStatusUpdate(m) ==
    status' = IF m.now = status.now /\ m.diff = status.diff THEN status
              ELSE [now |-> m.now, previous |-> status.now, diff |-> m.diff]

\* A block later an epoch is a block nearer, or further in the past.
Tick(in) == IF in < 0 THEN -1 ELSE in - 1

NextBlock(in) ==
    /\ phase' = "txs"
    /\ mintIn' = Tick(in)
    /\ burnIn' = Tick(burnIn)
    /\ UNCHANGED <<todo, processed>>

\* Variant: only the return of the price counts as a recovery.
RecoveredFromOracle(m) ==
    /\ m.now # status.now \/ m.diff # status.diff
    /\ status.now > HaltCR
    /\ m.now <= Warning

\* The circuit breaker has just been reset: the next epoch is counted from here.
Recovered(m) ==
    /\ m.now # status.now \/ m.diff # status.diff
    /\ status.now >= HaltCR
    /\ m.now <= Warning

\* The rest of EndBlocker: the status, and the mint epoch if it is this block.
EndBurning ==
    /\ phase = "burning" /\ todo = {}
    /\ \E m \in Measured(CollateralRatio) :
          /\ MintStatusUpdate(m)
          /\ IF Recovered(m) THEN NextBlock(m.diff)
             ELSE IF m.now <= Warning /\ mintIn = 0
             THEN /\ phase' = "minting"
                  /\ mintIn' = m.diff
                  /\ todo' = Route("akt")
                  /\ UNCHANGED <<burnIn, processed>>
             ELSE NextBlock(mintIn)
    /\ UNCHANGED <<coinVars, ledgerVars, price>>

EndMinting ==
    /\ phase = "minting" /\ todo = {}
    /\ \E m \in Measured(CollateralRatio) : MintStatusUpdate(m)
    /\ NextBlock(mintIn)
    /\ UNCHANGED <<coinVars, ledgerVars, price>>

Block ==
    \/ EndBlocker
    \/ EndBurning
    \/ EndMinting
    \/ \E r \in Requests : Execute(r) \/ CancelFatal(r) \/ Retry(r)

Next ==
    \/ Block
    \/ \E p \in Prices \cup {0} : SetPrice(p)
    \/ \E a \in Amounts : FundVault(a)
    \/ \E r \in Requests, d \in Denoms, a \in Amounts : RequestBurnMint(r, d, a)

Spec == Init /\ [][Next]_vars

\* Consensus keeps producing blocks.
FairSpec == Spec /\ WF_vars(Block)

-----------------------------------------------------------------------------
(* Genesis *)

\* A chain restarted from its exported state: the balances of pending requests
\* and the cancelled records are not part of it.
ImportGenesis ==
    /\ phase = "txs"
    /\ tracked # {}        \* bound: no second restart before another request
    /\ held' = [d \in Denoms |-> 0]
    /\ tracked' = {}
    /\ canceled' = {}
    /\ status' = [now |-> HaltCR, previous |-> 0, diff |-> MinEpochBlocks]
    /\ mintIn' = MinEpochBlocks /\ burnIn' = MinEpochBlocks
    /\ UNCHANGED <<wallet, vault, credits, minted, burned, pending, executed, rec, price,
                   phase, todo, processed>>

ImportSpec == Init /\ [][Next \/ ImportGenesis]_vars /\ WF_vars(Block)

-----------------------------------------------------------------------------
(* Properties *)

TypeOK ==
    /\ phase \in {"txs", "burning", "minting"}
    /\ price \in Prices \cup {0}
    /\ wallet \in [Denoms -> Int] /\ vault \in [Denoms -> Int] /\ held \in [Denoms -> Int]
    /\ minted \in [Denoms -> Int] /\ burned \in [Denoms -> Int] /\ credits \in Int
    /\ tracked \subseteq Denoms
    /\ pending \subseteq Requests /\ executed \subseteq Requests /\ canceled \subseteq Requests
    /\ rec \in [Requests -> [from : Denoms, amount : Nat, attempts : Nat]]
    /\ status \in [now : Healthy..HaltOracle, previous : 0..HaltOracle,
                   diff : MinEpochBlocks..MaxEpochBlocks]
    /\ mintIn \in -1..MaxEpochBlocks /\ burnIn \in -1..MaxEpochBlocks
    /\ todo \subseteq Requests /\ processed \in Nat

\* What the pending requests of a denomination are for is what the module's
\* balance of pending coins says (ledgerPendingBalances): requests,
\* executions, cancellations and retries leave no remainder in it.
PendingAmount(d) == MapThenSumSet(LAMBDA r : rec[r].amount, Route(d))
HeldIsPending == \A d \in Denoms : held[d] = PendingAmount(d)

\* The module account can pay what it owes: every pending request could be
\* refunded, and every uakt credit reissued, at any point of the block
\* (mintACT, burnACT, cancelBurnMint, FundVault).
VaultCovers ==
    /\ vault["akt"] >= credits + held["akt"]
    /\ vault["act"] >= held["act"]
    /\ credits >= 0

\* The ledger's totals explain the supply: nothing is minted or burnt that
\* recordState does not count, credits reissued are not counted twice.
LedgerMatchesSupply ==
    /\ wallet["akt"] + vault["akt"] = InitialAkt + minted["akt"] - burned["akt"]
    /\ wallet["act"] + vault["act"] = minted["act"] - burned["act"]

\* The mint epoch is compared for equality with the height: while minting is
\* allowed it is never in the past, so it is reached (EndBlocker).
MintEpochAhead == phase = "txs" /\ status.now <= Warning => mintIn >= 0

\* Every request is executed or cancelled at most once, and its coins are held
\* exactly as long as it is pending.
Queue == INSTANCE MintQueue WITH
    state <- [r \in Requests |-> IF r \in executed THEN "executed"
                                 ELSE IF r \in canceled THEN "canceled"
                                 ELSE IF r \in pending THEN "pending" ELSE "new"],
    locked <- [r \in Requests |-> IF r \in pending THEN rec[r].amount ELSE 0]
ImplementsQueue == Queue!QueueSpec

\* A request of the same denomination arrives whose key sorts before that of r.
Overtakes(r) ==
    \E q \in Requests :
        q < r /\ q \notin pending /\ q \in pending' /\ rec'[q].from = rec[r].from

\* From some time on no request is put before r.
LeftInTurn(r) == <>[][~Overtakes(r)]_vars

\* A request to burn uact is executed or refunded whatever the price does: its
\* epoch recurs while minting is halted, and its attempts are limited.  An epoch
\* takes MaxRecords records from the front, so it is said of a request that
\* others do not overtake for ever.
BurnResolves ==
    \A r \in Requests :
        LeftInTurn(r) => (r \in pending /\ rec[r].from = "act" ~> r \notin pending)

\* A request to mint is executed or refunded if in the end the price stays, the
\* circuit breaker does not trip and others do not overtake it.
MintResolves ==
    \A r \in Requests :
        LeftInTurn(r) /\ <>[](price # 0 /\ status.now <= Warning) =>
            (r \in pending /\ rec[r].from = "akt" ~> r \notin pending)

\* Both: no request stays in the queue for ever.
RequestsResolve == BurnResolves /\ MintResolves

\* Without the premise on the order it does not hold: requests of an owner whose
\* address sorts first, cancelled one by one, keep another's waiting.
MintResolvesAlways ==
    <>[](price # 0 /\ status.now <= Warning) =>
        \A r \in Requests : r \in pending /\ rec[r].from = "akt" ~> r \notin pending
=============================================================================
