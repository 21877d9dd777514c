----------------------------- MODULE BmeProofs -----------------------------
(***************************************************************************)
(* For every instance of x/bme: the module account covers what it owes,    *)
(* the ledger explains the supply, the mint epoch is never missed while    *)
(* minting is allowed, and every request has one outcome.  The inductive   *)
(* invariant adds to these the types, that a request is in one place, and  *)
(* that an iteration only has pending records ahead.                       *)
(*                                                                         *)
(* The balance of pending coins is the sum of the queue, so what           *)
(* FiniteSums says of sums is used of a record that enters the queue or    *)
(* leaves it.                                                              *)
(***************************************************************************)
EXTENDS Bme, FiniteSums

Coins == /\ wallet \in [Denoms -> Int] /\ vault \in [Denoms -> Int] /\ held \in [Denoms -> Int]
         /\ minted \in [Denoms -> Int] /\ burned \in [Denoms -> Int] /\ credits \in Int
         /\ tracked \subseteq Denoms

Records == /\ pending \subseteq Requests /\ executed \subseteq Requests
           /\ canceled \subseteq Requests
           /\ rec \in [Requests -> [from : Denoms, amount : Nat, attempts : Nat]]

Blocks == /\ phase \in {"txs", "burning", "minting"}
          /\ price \in Prices \cup {0}
          /\ status \in [now : Healthy..HaltOracle, previous : 0..HaltOracle,
                         diff : MinEpochBlocks..MaxEpochBlocks]
          /\ mintIn \in -1..MaxEpochBlocks /\ burnIn \in -1..MaxEpochBlocks
          /\ todo \subseteq Requests /\ processed \in Nat

OnePlace ==
    /\ pending \cap executed = {} /\ pending \cap canceled = {} /\ executed \cap canceled = {}
    /\ todo \subseteq pending

\* While the batch of the mint epoch runs, the next epoch is already set.
EpochSet ==
    /\ MintEpochAhead
    /\ phase = "burning" /\ status.now <= Warning => mintIn >= 0
    /\ phase = "minting" => mintIn >= 1

BmeInv ==
    Coins /\ Records /\ Blocks /\ OnePlace /\ VaultCovers /\ LedgerMatchesSupply /\ EpochSet

-----------------------------------------------------------------------------
\* A product of naturals and a quotient of naturals are naturals.
LEMMA NatProduct == \A a \in Nat, b \in Nat : a * b \in Nat
  BY SMT

LEMMA NatQuotient == \A a \in Nat, b \in Nat \ {0} : a \div b \in Nat
  BY SMT

LEMMA RoundedIsNat ==
    ASSUME NEW n \in Nat, NEW m \in Nat \ {0}
    PROVE  Rounded(n, m) \in Nat
  BY NatQuotient DEF Rounded

\* What a record mints, and the part of it that stays, are amounts.
LEMMA AmountsAreNat ==
    ASSUME Records, Blocks, price # 0, NEW r \in Requests
    PROVE  /\ Minting(r) \in Nat /\ Spread(r) \in Nat
           /\ rec[r].amount \in Nat /\ rec[r].from \in Denoms
           /\ Destroyed(r) = IF rec[r].from = "akt" THEN 0 ELSE rec[r].amount
  <1>1. price \in Nat \ {0} /\ SpreadBps \in Nat
    BY BmeAssumption DEF Blocks
  <1>2. rec[r].amount \in Nat /\ rec[r].from \in Denoms
    BY DEF Records
  <1>3. SwapRate(r) \in Nat
    <2>1. Precision \in Nat \ {0}
      BY BmeAssumption
    <2>2. Precision * price \in Nat
      BY <1>1, <2>1, NatProduct
    <2>. QED
      BY <1>1, <2>1, <2>2, RoundedIsNat DEF SwapRate
  <1>4. MintDec(r) \in Nat
    BY <1>2, <1>3, NatProduct DEF MintDec
  <1>5. MintDec(r) * SpreadBps \in Nat
    BY <1>1, <1>4, NatProduct
  <1>6. Rounded(MintDec(r) * SpreadBps, 10000) \in Nat
    <2>. DEFINE x == MintDec(r) * SpreadBps
    <2>1. x \in Nat
      BY <1>5
    <2>. HIDE DEF x
    <2>2. Rounded(x, 10000) \in Nat
      BY <2>1, RoundedIsNat
    <2>. QED
      BY <2>2 DEF x
  <1>7. Minting(r) \in Nat /\ Spread(r) \in Nat
    BY <1>4, <1>6, BmeAssumption, NatQuotient DEF Minting, Spread
  <1>. QED
    BY <1>2, <1>7 DEF Destroyed

\* The credit covers what is taken out of it.
LEMMA CreditCovers ==
    ASSUME Coins, Records, Blocks, price # 0, credits >= 0, NEW r \in Requests
    PROVE  /\ Issued(r) \in Nat /\ Accrued(r) \in Nat
           /\ Issued(r) <= credits
           /\ rec[r].from = "akt" => Issued(r) = 0 /\ Accrued(r) = rec[r].amount
           /\ rec[r].from = "act" => Accrued(r) = 0
  BY AmountsAreNat DEF Issued, Accrued, Coins

LEMMA InitialBalance == Init => BmeInv
  BY BmeAssumption
  DEF Init, BmeInv, Coins, Records, Blocks, OnePlace, VaultCovers, LedgerMatchesSupply, EpochSet,
      MintEpochAhead, Denoms, NoRecord, Healthy, Warning, HaltCR, HaltOracle

\* Executing a record keeps the books (executeBurnMint, recordState).
LEMMA ExecuteKeepsBooks ==
    ASSUME BmeInv, NEW r \in Requests, r \in pending, price # 0, ExecuteBurnMint(r)
    PROVE  Coins' /\ Records' /\ VaultCovers' /\ LedgerMatchesSupply'
  <1>. DEFINE m == Minting(r)
              sp == Spread(r)
              iss == Issued(r)
              acc == Accrued(r)
              de == Destroyed(r)
              am == rec[r].amount
  <1>1. m \in Nat /\ sp \in Nat /\ am \in Nat /\ rec[r].from \in Denoms
        /\ de = (IF rec[r].from = "akt" THEN 0 ELSE am)
    BY AmountsAreNat DEF BmeInv
  <1>2. /\ iss \in Nat /\ acc \in Nat /\ iss <= credits
        /\ rec[r].from = "akt" => iss = 0 /\ acc = am
        /\ rec[r].from = "act" => acc = 0
    BY CreditCovers DEF BmeInv, VaultCovers
  <1>3. /\ vault' = [vault EXCEPT ![rec[r].from] = @ - de, ![Other(rec[r].from)] = @ + sp - iss]
        /\ wallet' = [wallet EXCEPT ![Other(rec[r].from)] = @ + m - sp]
        /\ minted' = [minted EXCEPT ![Other(rec[r].from)] = @ + m - iss]
        /\ burned' = [burned EXCEPT ![rec[r].from] = @ + de]
        /\ credits' = credits + acc - iss
        /\ held' = [held EXCEPT ![rec[r].from] = @ - am]
        /\ tracked' = tracked
    BY DEF ExecuteBurnMint
  <1>4. Records'
    BY DEF ExecuteBurnMint, BmeInv, Records
  <1>. HIDE DEF m, sp, iss, acc, de, am
  <1>5. CASE rec[r].from = "akt"
    <2>1. Other(rec[r].from) = "act"
      BY <1>5 DEF Other
    <2>. QED
      BY <1>1, <1>2, <1>3, <1>4, <1>5, <2>1
      DEF BmeInv, Coins, VaultCovers, LedgerMatchesSupply, Denoms
  <1>6. CASE rec[r].from = "act"
    <2>1. Other(rec[r].from) = "akt"
      BY <1>6 DEF Other
    <2>2. InitialAkt \in Nat
      BY BmeAssumption
    <2>. QED
      BY <1>1, <1>2, <1>3, <1>4, <1>6, <2>1, <2>2
      DEF BmeInv, Coins, VaultCovers, LedgerMatchesSupply, Denoms
  <1>. QED
    BY <1>1, <1>5, <1>6 DEF Denoms

\* A refund keeps the books (cancelBurnMint).
LEMMA CancelKeepsBooks ==
    ASSUME BmeInv, NEW r \in Requests, CancelBurnMint(r)
    PROVE  Coins' /\ Records' /\ VaultCovers' /\ LedgerMatchesSupply'
  <1>. DEFINE d == rec[r].from
              a == rec[r].amount
  <1>1. a \in Nat /\ d \in Denoms
    BY DEF BmeInv, Records
  <1>2. Coins' /\ Records'
    BY <1>1 DEF BmeInv, Coins, Records, CancelBurnMint
  <1>3. /\ vault' = [vault EXCEPT ![d] = @ - a]
        /\ wallet' = [wallet EXCEPT ![d] = @ + a]
        /\ held' = [held EXCEPT ![d] = @ - a]
        /\ UNCHANGED <<tracked, credits, minted, burned>>
    BY DEF CancelBurnMint
  <1>. HIDE DEF d, a
  <1>4. \A e \in Denoms : /\ vault'[e] - held'[e] = vault[e] - held[e]
                          /\ wallet'[e] + vault'[e] = wallet[e] + vault[e]
    BY <1>1, <1>3 DEF BmeInv, Coins
  <1>5. "akt" \in Denoms /\ "act" \in Denoms
    BY DEF Denoms
  <1>6. LedgerMatchesSupply'
    BY <1>3, <1>4, <1>5 DEF BmeInv, LedgerMatchesSupply
  <1>7. VaultCovers'
    BY <1>2, <1>3, <1>4, <1>5 DEF BmeInv, Coins, VaultCovers
  <1>. QED
    BY <1>2, <1>6, <1>7

\* Handling one record leaves everything in one place, and the block alone.
LEMMA CountingKeepsPlaces ==
    ASSUME BmeInv, NEW r \in Requests, r \in todo, Counted(r) \/ Uncounted(r)
    PROVE  processed' \in Nat /\ todo' \subseteq todo \ {r}
  BY DEF BmeInv, Blocks, Counted, Uncounted

LEMMA CancelPreserves ==
    ASSUME BmeInv, NEW r \in Requests, Turn(r), Cancel(r),
           UNCHANGED <<phase, mintIn, burnIn, price, status>>
    PROVE  BmeInv'
  <1>1. r \in todo /\ r \in pending
    BY DEF Turn, BmeInv, OnePlace
  <1>2. processed' \in Nat /\ todo' \subseteq todo \ {r}
    BY <1>1, CountingKeepsPlaces DEF Cancel
  <1>3. CASE CancelBurnMint(r)
    <2>1. Coins' /\ Records' /\ VaultCovers' /\ LedgerMatchesSupply'
      BY <1>3, CancelKeepsBooks
    <2>2. OnePlace'
      BY <1>1, <1>2, <1>3 DEF CancelBurnMint, BmeInv, OnePlace
    <2>. QED
      BY <1>1, <1>2, <2>1, <2>2 DEF BmeInv, Blocks, EpochSet, MintEpochAhead
  <1>4. CASE UNCHANGED <<coinVars, ledgerVars>>
    BY <1>1, <1>2, <1>4
    DEF BmeInv, Coins, Records, Blocks, OnePlace, VaultCovers, LedgerMatchesSupply, EpochSet,
        MintEpochAhead, coinVars, ledgerVars
  <1>. QED
    BY <1>3, <1>4 DEF Cancel

-----------------------------------------------------------------------------
(* The steps of EndBlocker that handle no record *)

LEMMA MeasuredTypes ==
    ASSUME BmeInv, NEW ratio, NEW m \in Measured(ratio)
    PROVE  /\ m.now \in Healthy..HaltOracle
           /\ m.diff \in MinEpochBlocks..MaxEpochBlocks
  BY BmeAssumption
  DEF BmeInv, Blocks, Measured, BlocksDiffs, Healthy, Warning, HaltCR, HaltOracle

LEMMA StatusKnown ==
    ASSUME BmeInv, NEW ratio, NEW m \in Measured(ratio), MintStatusUpdate(m)
    PROVE  /\ status' \in [now : Healthy..HaltOracle, previous : 0..HaltOracle,
                           diff : MinEpochBlocks..MaxEpochBlocks]
           /\ status'.now = m.now
  BY MeasuredTypes DEF BmeInv, Blocks, MintStatusUpdate, Healthy, HaltOracle

LEMMA TickInRange ==
    ASSUME NEW in \in -1..MaxEpochBlocks
    PROVE  Tick(in) \in -1..MaxEpochBlocks /\ (in >= 1 => Tick(in) >= 0)
  BY BmeAssumption DEF Tick

LEMMA EndBurningPreserves ==
    ASSUME BmeInv, EndBurning
    PROVE  BmeInv'
  <1>1. PICK m \in Measured(CollateralRatio) :
          /\ MintStatusUpdate(m)
          /\ IF Recovered(m) THEN NextBlock(m.diff)
             ELSE IF m.now <= Warning /\ mintIn = 0
             THEN /\ phase' = "minting"
                  /\ mintIn' = m.diff
                  /\ todo' = Route("akt")
                  /\ UNCHANGED <<burnIn, processed>>
             ELSE NextBlock(mintIn)
    BY DEF EndBurning
  <1>2. /\ status' \in [now : Healthy..HaltOracle, previous : 0..HaltOracle,
                        diff : MinEpochBlocks..MaxEpochBlocks]
        /\ status'.now = m.now
    BY <1>1, StatusKnown
  <1>3. m.now \in Healthy..HaltOracle /\ m.diff \in MinEpochBlocks..MaxEpochBlocks
    BY MeasuredTypes
  <1>4. m.diff \in 1..MaxEpochBlocks
    BY <1>3, BmeAssumption
  <1>5. UNCHANGED <<coinVars, ledgerVars, price>>
    BY DEF EndBurning
  <1>6. Coins' /\ Records' /\ VaultCovers' /\ LedgerMatchesSupply'
    BY <1>5 DEF BmeInv, Coins, Records, VaultCovers, LedgerMatchesSupply, coinVars, ledgerVars
  <1>7. OnePlace'
    BY <1>1, <1>5 DEF BmeInv, OnePlace, ledgerVars, Route, NextBlock
  <1>8. /\ mintIn \in -1..MaxEpochBlocks /\ burnIn \in -1..MaxEpochBlocks
        /\ todo \subseteq Requests /\ processed \in Nat /\ price \in Prices \cup {0}
        /\ status.now \in Healthy..HaltOracle
        /\ phase = "burning" /\ (status.now <= Warning => mintIn >= 0)
        /\ pending \subseteq Requests
    BY DEF BmeInv, Blocks, EndBurning, EpochSet, Records
  <1>9. CASE Recovered(m)
    <2>1. NextBlock(m.diff)
      BY <1>1, <1>9
    <2>2. Tick(m.diff) \in -1..MaxEpochBlocks /\ Tick(m.diff) >= 0
      BY <1>4, TickInRange
    <2>. QED
      BY <1>2, <1>5, <1>6, <1>7, <1>8, <2>1, <2>2, TickInRange
      DEF BmeInv, Blocks, EpochSet, MintEpochAhead, NextBlock
  <1>10. CASE ~Recovered(m) /\ m.now <= Warning /\ mintIn = 0
    <2>1. /\ phase' = "minting" /\ mintIn' = m.diff /\ todo' = Route("akt")
          /\ UNCHANGED <<burnIn, processed>>
      BY <1>1, <1>10
    <2>. QED
      BY <1>2, <1>4, <1>5, <1>6, <1>7, <1>8, <2>1
      DEF BmeInv, Blocks, EpochSet, MintEpochAhead, Route
  <1>11. CASE ~Recovered(m) /\ ~(m.now <= Warning /\ mintIn = 0)
    <2>1. NextBlock(mintIn)
      BY <1>1, <1>11
    <2>2. m.now <= Warning => status.now <= Warning
      BY <1>3, <1>8, <1>11 DEF Recovered, Healthy, Warning, HaltCR, HaltOracle
    <2>3. m.now <= Warning => Tick(mintIn) >= 0
      BY <1>8, <1>11, <2>2, TickInRange
    <2>4. Tick(mintIn) \in -1..MaxEpochBlocks /\ Tick(burnIn) \in -1..MaxEpochBlocks
      BY <1>8, TickInRange
    <2>. QED
      BY <1>2, <1>5, <1>6, <1>7, <1>8, <2>1, <2>3, <2>4
      DEF BmeInv, Blocks, EpochSet, MintEpochAhead, NextBlock
  <1>. QED
    BY <1>9, <1>10, <1>11

LEMMA EndMintingPreserves ==
    ASSUME BmeInv, EndMinting
    PROVE  BmeInv'
  <1>1. PICK m \in Measured(CollateralRatio) : MintStatusUpdate(m)
    BY DEF EndMinting
  <1>2. status' \in [now : Healthy..HaltOracle, previous : 0..HaltOracle,
                     diff : MinEpochBlocks..MaxEpochBlocks]
    BY <1>1, StatusKnown
  <1>3. mintIn \in -1..MaxEpochBlocks /\ burnIn \in -1..MaxEpochBlocks /\ mintIn >= 1
    BY DEF BmeInv, Blocks, EndMinting, EpochSet
  <1>4. /\ Tick(mintIn) \in -1..MaxEpochBlocks /\ Tick(burnIn) \in -1..MaxEpochBlocks
        /\ Tick(mintIn) >= 0
    BY <1>3, TickInRange
  <1>. QED
    BY <1>2, <1>4
    DEF BmeInv, Coins, Records, Blocks, OnePlace, VaultCovers, LedgerMatchesSupply, EpochSet,
        MintEpochAhead, EndMinting, NextBlock, coinVars, ledgerVars

-----------------------------------------------------------------------------
LEMMA BmeInvInductive == BmeInv /\ [Next]_vars => BmeInv'
  <1>. SUFFICES ASSUME BmeInv, [Next]_vars
                PROVE  BmeInv'
    OBVIOUS
  <1>1. CASE EndBlocker
    <2>1. burnIn' \in -1..MaxEpochBlocks /\ todo' \subseteq pending
      BY <1>1, BmeAssumption DEF EndBlocker, Route, BmeInv, Blocks
    <2>2. OnePlace' /\ EpochSet'
      BY <1>1, <2>1 DEF EndBlocker, BmeInv, OnePlace, EpochSet, MintEpochAhead, ledgerVars
    <2>3. Blocks'
      BY <1>1, <2>1 DEF EndBlocker, BmeInv, Blocks, Records
    <2>. QED
      BY <1>1, <2>2, <2>3
      DEF EndBlocker, BmeInv, Coins, Records, VaultCovers, LedgerMatchesSupply,
          coinVars, ledgerVars
  <1>2. CASE EndBurning
    BY <1>2, EndBurningPreserves
  <1>3. CASE EndMinting
    BY <1>3, EndMintingPreserves
  <1>4. ASSUME NEW r \in Requests, Execute(r)
        PROVE  BmeInv'
    <2>1. r \in todo /\ r \in pending /\ price # 0 /\ r \notin executed /\ r \notin canceled
      BY <1>4 DEF Execute, Turn, Blocked, BmeInv, OnePlace
    <2>2. Coins' /\ Records' /\ VaultCovers' /\ LedgerMatchesSupply'
      BY <1>4, <2>1, ExecuteKeepsBooks DEF Execute
    <2>3. processed' \in Nat /\ todo' \subseteq todo \ {r}
      BY <1>4, <2>1, CountingKeepsPlaces DEF Execute
    <2>4. OnePlace'
      BY <1>4, <2>1, <2>3 DEF Execute, ExecuteBurnMint, BmeInv, OnePlace
    <2>. QED
      BY <1>4, <2>2, <2>3, <2>4 DEF Execute, BmeInv, Blocks, EpochSet, MintEpochAhead
  <1>5. ASSUME NEW r \in Requests, CancelFatal(r)
        PROVE  BmeInv'
    BY <1>5, CancelPreserves DEF CancelFatal
  <1>6. ASSUME NEW r \in Requests, Retry(r)
        PROVE  BmeInv'
    <2>1. CASE Cancel(r)
      BY <1>6, <2>1, CancelPreserves DEF Retry
    <2>2. CASE Retried(r) /\ Counted(r)
      <3>1. r \in todo
        BY <1>6 DEF Retry, Turn
      <3>2. processed' \in Nat /\ todo' \subseteq todo \ {r}
        BY <2>2, <3>1, CountingKeepsPlaces
      <3>3. rec' \in [Requests -> [from : Denoms, amount : Nat, attempts : Nat]]
        BY <2>2 DEF Retried, BmeInv, Records
      <3>. QED
        BY <1>6, <2>2, <3>2, <3>3
        DEF Retry, Retried, BmeInv, Coins, Records, Blocks, OnePlace, VaultCovers,
            LedgerMatchesSupply, EpochSet, MintEpochAhead, coinVars
    <2>. QED
      BY <1>6, <2>1, <2>2 DEF Retry
  <1>7. ASSUME NEW p \in Prices \cup {0}, SetPrice(p)
        PROVE  BmeInv'
    BY <1>7
    DEF SetPrice, BmeInv, Coins, Records, Blocks, OnePlace, VaultCovers, LedgerMatchesSupply,
        EpochSet, MintEpochAhead, coinVars, ledgerVars, blockVars
  <1>8. ASSUME NEW a \in Amounts, FundVault(a)
        PROVE  BmeInv'
    <2>1. a \in Nat
      BY BmeAssumption
    <2>2. Coins'
      BY <1>8, <2>1 DEF FundVault, BmeInv, Coins, Denoms
    <2>3. VaultCovers' /\ LedgerMatchesSupply'
      BY <1>8, <2>1, BmeAssumption
      DEF FundVault, BmeInv, Coins, VaultCovers, LedgerMatchesSupply, Denoms
    <2>. QED
      BY <1>8, <2>2, <2>3
      DEF FundVault, BmeInv, Records, Blocks, OnePlace, EpochSet, MintEpochAhead,
          ledgerVars, blockVars
  <1>9. ASSUME NEW r \in Requests, NEW d \in Denoms, NEW a \in Amounts, RequestBurnMint(r, d, a)
        PROVE  BmeInv'
    <2>1. a \in Nat
      BY BmeAssumption
    <2>2. Coins' /\ Records'
      BY <1>9, <2>1 DEF RequestBurnMint, BmeInv, Coins, Records
    <2>3. VaultCovers' /\ LedgerMatchesSupply'
      BY <1>9, <2>1, BmeAssumption
      DEF RequestBurnMint, BmeInv, Coins, VaultCovers, LedgerMatchesSupply, Denoms
    <2>4. OnePlace'
      BY <1>9 DEF RequestBurnMint, BmeInv, OnePlace, blockVars
    <2>. QED
      BY <1>9, <2>2, <2>3, <2>4
      DEF RequestBurnMint, BmeInv, Blocks, EpochSet, MintEpochAhead, blockVars
  <1>10. CASE UNCHANGED vars
    BY <1>10
    DEF vars, coinVars, ledgerVars, blockVars, BmeInv, Coins, Records, Blocks, OnePlace,
        VaultCovers, LedgerMatchesSupply, EpochSet, MintEpochAhead
  <1>. QED
    BY <1>1, <1>2, <1>3, <1>4, <1>5, <1>6, <1>7, <1>8, <1>9, <1>10 DEF Next, Block

\* Every reachable state of x/bme satisfies the inductive invariant.
THEOREM BmeInvariant == Spec => []BmeInv
  BY InitialBalance, BmeInvInductive, PTL DEF Spec

\* The module account can refund every pending request and reissue every credit.
THEOREM VaultAlwaysCovers == Spec => []VaultCovers
  BY BmeInvariant, PTL DEF BmeInv

\* The totals of the ledger explain the supply of both coins.
THEOREM LedgerExplainsSupply == Spec => []LedgerMatchesSupply
  BY BmeInvariant, PTL DEF BmeInv

\* The mint epoch is never missed while minting is allowed.
THEOREM MintEpochNotMissed == Spec => []MintEpochAhead
  <1>1. BmeInv => MintEpochAhead
    BY DEF BmeInv, EpochSet
  <1>. QED
    BY <1>1, BmeInvariant, PTL

-----------------------------------------------------------------------------
(* The queue is what MintQueue promises *)

State == [r \in Requests |-> IF r \in executed THEN "executed"
                             ELSE IF r \in canceled THEN "canceled"
                             ELSE IF r \in pending THEN "pending" ELSE "new"]
Locked == [r \in Requests |-> IF r \in pending THEN rec[r].amount ELSE 0]

\* A record that leaves the queue with an outcome is resolved.
LEMMA OutcomeResolves ==
    ASSUME BmeInv, NEW r \in pending, pending' = pending \ {r}, rec' = rec,
           \/ executed' = executed \cup {r} /\ canceled' = canceled
           \/ canceled' = canceled \cup {r} /\ executed' = executed
    PROVE  Queue!QueueNext
  <1>1. r \in Requests /\ r \notin executed /\ r \notin canceled
    BY DEF BmeInv, Records, OnePlace
  <1>2. State[r] = "pending"
    BY <1>1 DEF State
  <1>3. Locked' = [Locked EXCEPT ![r] = 0]
    BY <1>1 DEF Locked
  <1>4. CASE executed' = executed \cup {r} /\ canceled' = canceled
    <2>1. State' = [State EXCEPT ![r] = "executed"]
      BY <1>1, <1>4 DEF State
    <2>. QED
      BY <1>1, <1>2, <1>3, <2>1 DEF Queue!QueueNext, Queue!Resolve, State, Locked
  <1>5. CASE canceled' = canceled \cup {r} /\ executed' = executed
    <2>1. State' = [State EXCEPT ![r] = "canceled"]
      BY <1>1, <1>5 DEF State
    <2>. QED
      BY <1>1, <1>2, <1>3, <2>1 DEF Queue!QueueNext, Queue!Resolve, State, Locked
  <1>. QED
    BY <1>4, <1>5

LEMMA CancelResolves ==
    ASSUME BmeInv, NEW r \in Requests, Turn(r), Cancel(r)
    PROVE  [Queue!QueueNext]_<<State, Locked>>
  <1>1. r \in pending
    BY DEF BmeInv, OnePlace, Turn
  <1>2. CASE CancelBurnMint(r)
    BY <1>1, <1>2, OutcomeResolves DEF CancelBurnMint
  <1>3. CASE UNCHANGED <<coinVars, ledgerVars>>
    BY <1>3 DEF ledgerVars, State, Locked
  <1>. QED
    BY <1>2, <1>3 DEF Cancel

LEMMA QueueStep ==
    ASSUME BmeInv, [Next]_vars
    PROVE  [Queue!QueueNext]_<<State, Locked>>
  <1>1. ASSUME NEW r \in Requests, Execute(r)
        PROVE  [Queue!QueueNext]_<<State, Locked>>
    <2>1. r \in pending
      BY <1>1 DEF Execute, Turn, BmeInv, OnePlace
    <2>. QED
      BY <1>1, <2>1, OutcomeResolves DEF Execute, ExecuteBurnMint
  <1>2. ASSUME NEW r \in Requests, CancelFatal(r)
        PROVE  [Queue!QueueNext]_<<State, Locked>>
    BY <1>2, CancelResolves DEF CancelFatal
  <1>3. ASSUME NEW r \in Requests, Retry(r)
        PROVE  [Queue!QueueNext]_<<State, Locked>>
    <2>1. CASE Cancel(r)
      BY <1>3, <2>1, CancelResolves DEF Retry
    <2>2. CASE Retried(r)
      <3>1. \A q \in Requests : rec'[q].amount = rec[q].amount
        BY <2>2 DEF Retried, BmeInv, Records
      <3>. QED
        BY <2>2, <3>1 DEF Retried, State, Locked
    <2>. QED
      BY <1>3, <2>1, <2>2 DEF Retry
  <1>4. ASSUME NEW r \in Requests, NEW d \in Denoms, NEW a \in Amounts, RequestBurnMint(r, d, a)
        PROVE  [Queue!QueueNext]_<<State, Locked>>
    <2>1. /\ r \notin pending /\ r \notin executed /\ (r \in canceled => r \in Recurring)
          /\ pending' = pending \cup {r} /\ executed' = executed /\ canceled' = canceled \ {r}
          /\ rec' = [rec EXCEPT ![r] = [from |-> d, amount |-> a, attempts |-> 0]]
      BY <1>4 DEF RequestBurnMint
    <2>2. State[r] = "new" \/ (State[r] = "canceled" /\ r \in Recurring)
      BY <2>1 DEF State
    <2>3. State' = [State EXCEPT ![r] = "pending"]
      BY <2>1 DEF State
    <2>4. \A q \in Requests : rec'[q].amount = IF q = r THEN a ELSE rec[q].amount
      BY <2>1 DEF BmeInv, Records
    <2>5. Locked' = [Locked EXCEPT ![r] = a]
      BY <2>1, <2>4 DEF Locked
    <2>. QED
      BY <2>2, <2>3, <2>5 DEF Queue!QueueNext, Queue!Request, State, Locked
  <1>5. CASE UNCHANGED ledgerVars
    BY <1>5 DEF ledgerVars, State, Locked
  <1>. QED
    BY <1>1, <1>2, <1>3, <1>4, <1>5
    DEF Next, Block, EndBlocker, EndBurning, EndMinting, SetPrice, FundVault, vars

\* Every request is executed or cancelled at most once, and its coins are held
\* while it is pending: x/bme implements MintQueue.
THEOREM BmeIsAQueue == Spec => ImplementsQueue
  <1>1. Init => Queue!QueueInit
    BY DEF Init, Queue!QueueInit
  <1>2. BmeInv /\ [Next]_vars => [Queue!QueueNext]_Queue!queueVars
    BY QueueStep DEF State, Locked, Queue!queueVars
  <1>. QED
    BY <1>1, <1>2, BmeInvariant, PTL DEF Spec, ImplementsQueue, Queue!QueueSpec
-----------------------------------------------------------------------------
(* The balance of pending coins *)

SumAmounts(R, S) == MapThenSumSet(LAMBDA r : R[r].amount, S)

\* The sum of the amounts is one of a function on the records.
LEMMA AmountsAreTotal ==
    ASSUME NEW R, NEW S, IsFiniteSet(S)
    PROVE  SumAmounts(R, S) = Total([r \in S |-> R[r].amount], S)
  <1>. DEFINE f == [r \in S |-> R[r].amount]
              Amounts1(h) == h = [s \in SUBSET S |-> IF s = {} THEN 0
                                  ELSE R[Chosen(s)].amount + h[s \ {Chosen(s)}]]
              k == CHOOSE h : Amounts1(h)
  <1>1. \A h : Amounts1(h) <=> Sums(h, f, S)
    <2>1. \A s \in SUBSET S : s # {} => Chosen(s) \in S
      BY FS_Subset, ChosenIn
    <2>2. \A s \in SUBSET S : s # {} => f[Chosen(s)] = R[Chosen(s)].amount
      BY <2>1
    <2>. HIDE DEF f
    <2>. QED
      BY <2>2 DEF Sums
  <1>2. SumAmounts(R, S) = k[S]
    BY DEF SumAmounts, MapThenSumSet, MapThenFoldSet, Chosen
  <1>. HIDE DEF f
  <1>3. \E h : Amounts1(h)
    BY <1>1, SumsExist
  <1>4. Amounts1(k)
    BY <1>3
  <1>. HIDE DEF Amounts1, k
  <1>. QED
    BY <1>1, <1>2, <1>4, TotalSums DEF f

LEMMA PendingSums ==
    /\ \A d : PendingAmount(d) = SumAmounts(rec, Route(d))
    /\ \A d : PendingAmount(d)' = SumAmounts(rec', Route(d)')
  BY DEF PendingAmount, SumAmounts, MapThenSumSet, MapThenFoldSet

LEMMA SumsOfSame ==
    ASSUME NEW R1, NEW R2, NEW S, IsFiniteSet(S), \A x \in S : R1[x].amount = R2[x].amount
    PROVE  SumAmounts(R1, S) = SumAmounts(R2, S)
  <1>. DEFINE f == [r \in S |-> R1[r].amount]
              g == [r \in S |-> R2[r].amount]
  <1>1. SumAmounts(R1, S) = Total(f, S) /\ SumAmounts(R2, S) = Total(g, S)
    BY AmountsAreTotal
  <1>2. f = g
    OBVIOUS
  <1>. QED
    BY <1>1, <1>2

LEMMA SumWithout ==
    ASSUME NEW R, NEW S, IsFiniteSet(S), \A x \in S : R[x].amount \in Int, NEW y \in S
    PROVE  /\ SumAmounts(R, S) \in Int /\ SumAmounts(R, S \ {y}) \in Int
           /\ SumAmounts(R, S) = R[y].amount + SumAmounts(R, S \ {y})
  <1>. DEFINE T == S \ {y}
              f == [r \in S |-> R[r].amount]
              g == [r \in T |-> R[r].amount]
  <1>1. IsFiniteSet(T) /\ T \subseteq S
    BY FS_Subset
  <1>2. SumAmounts(R, S) = Total(f, S) /\ SumAmounts(R, T) = Total(g, T)
    BY <1>1, AmountsAreTotal
  <1>3. /\ \A x \in S : f[x] \in Int
        /\ \A x \in T : f[x] = g[x] /\ f[x] \in Int
        /\ f[y] = R[y].amount
    OBVIOUS
  <1>. HIDE DEF f, g
  <1>4. Total(f, S) = f[y] + Total(f, T) /\ Total(f, S) \in Int /\ Total(f, T) \in Int
    <2>1. Total(f, S) = f[y] + Total(f, T)
      BY <1>3, TotalRemove
    <2>2. Total(f, S) \in Int
      BY <1>3, TotalType
    <2>. HIDE DEF T
    <2>3. Total(f, T) \in Int
      BY <1>1, <1>3, TotalType
    <2>. QED
      BY <2>1, <2>2, <2>3
  <1>5. Total(f, T) = Total(g, T)
    <2>. HIDE DEF T
    <2>. QED
      BY <1>1, <1>3, TotalAgree
  <1>. QED
    BY <1>2, <1>3, <1>4, <1>5

\* The queue is finite, and the balance is what it is for.
HeldInv == BmeInv /\ IsFiniteSet(pending) /\ HeldIsPending

LEMMA RoutesAreFinite ==
    ASSUME HeldInv, NEW d
    PROVE  /\ IsFiniteSet(Route(d))
           /\ \A r \in Route(d) : rec[r].amount \in Int
  <1>1. Route(d) \subseteq pending
    BY DEF Route
  <1>2. IsFiniteSet(Route(d))
    BY <1>1, FS_Subset DEF HeldInv
  <1>. QED
    BY <1>1, <1>2 DEF HeldInv, BmeInv, Records

\* A queue that keeps its records keeps the balance.
LEMMA SameQueue ==
    ASSUME HeldInv, held' = held, pending' = pending,
           \A r \in pending : rec'[r].from = rec[r].from /\ rec'[r].amount = rec[r].amount
    PROVE  IsFiniteSet(pending') /\ HeldIsPending'
  <1>1. ASSUME NEW d \in Denoms PROVE held'[d] = PendingAmount(d)'
    <2>1. Route(d)' = Route(d)
      BY DEF Route
    <2>2. \A r \in Route(d) : rec'[r].amount = rec[r].amount
      BY DEF Route
    <2>3. SumAmounts(rec', Route(d)) = SumAmounts(rec, Route(d))
      BY <2>2, RoutesAreFinite, SumsOfSame
    <2>. QED
      BY <2>1, <2>3, PendingSums DEF HeldInv, HeldIsPending
  <1>. QED
    BY <1>1 DEF HeldInv, HeldIsPending

\* A record that leaves the queue takes its coins with it.
LEMMA RecordLeaves ==
    ASSUME HeldInv, NEW r \in pending, pending' = pending \ {r}, rec' = rec,
           held' = [held EXCEPT ![rec[r].from] = @ - rec[r].amount]
    PROVE  IsFiniteSet(pending') /\ HeldIsPending'
  <1>1. IsFiniteSet(pending')
    BY FS_Subset DEF HeldInv
  <1>2. held \in [Denoms -> Int] /\ rec[r].from \in Denoms /\ rec[r].amount \in Int
    BY DEF HeldInv, BmeInv, Coins, Records
  <1>3. ASSUME NEW d \in Denoms PROVE held'[d] = PendingAmount(d)'
    <2>1. Route(d)' = Route(d) \ {r}
      BY DEF Route
    <2>2. held[d] = SumAmounts(rec, Route(d))
      BY PendingSums DEF HeldInv, HeldIsPending
    <2>3. CASE rec[r].from = d
      <3>1. r \in Route(d)
        BY <2>3 DEF Route
      <3>2. /\ SumAmounts(rec, Route(d)) = rec[r].amount + SumAmounts(rec, Route(d) \ {r})
            /\ SumAmounts(rec, Route(d) \ {r}) \in Int
        BY <3>1, RoutesAreFinite, SumWithout
      <3>3. held'[d] = held[d] - rec[r].amount
        BY <1>2, <2>3
      <3>4. held'[d] = SumAmounts(rec, Route(d) \ {r})
        BY <1>2, <2>2, <3>2, <3>3
      <3>. QED
        BY <2>1, <3>4, PendingSums
    <2>4. CASE rec[r].from # d
      <3>1. Route(d)' = Route(d)
        BY <2>1, <2>4 DEF Route
      <3>. QED
        BY <1>2, <2>2, <2>4, <3>1, PendingSums
    <2>. QED
      BY <2>3, <2>4
  <1>. QED
    BY <1>1, <1>3 DEF HeldIsPending

\* A request brings its coins.
Enters(r, d, a) ==
    /\ pending' = pending \cup {r}
    /\ rec' = [rec EXCEPT ![r] = [from |-> d, amount |-> a, attempts |-> 0]]
    /\ held' = [held EXCEPT ![d] = @ + a]

LEMMA RecordEnters ==
    ASSUME HeldInv, NEW r \in Requests \ pending, NEW d \in Denoms, NEW a \in Nat,
           Enters(r, d, a)
    PROVE  IsFiniteSet(pending') /\ HeldIsPending'
  <1>1. IsFiniteSet(pending') /\ pending' = pending \cup {r}
    BY FS_AddElement DEF HeldInv, Enters
  <1>2. /\ held \in [Denoms -> Int]
        /\ rec'[r].from = d /\ rec'[r].amount = a
        /\ \A q \in pending : rec'[q] = rec[q]
        /\ held'[d] = held[d] + a
        /\ \A e \in Denoms : e # d => held'[e] = held[e]
    BY DEF HeldInv, BmeInv, Coins, Records, Enters
  <1>3. ASSUME NEW e \in Denoms PROVE held'[e] = PendingAmount(e)'
    <2>1. Route(e)' = IF e = d THEN Route(e) \cup {r} ELSE Route(e)
      BY <1>1, <1>2 DEF Route
    <2>2. held[e] = SumAmounts(rec, Route(e))
      BY PendingSums DEF HeldInv, HeldIsPending
    <2>3. SumAmounts(rec', Route(e)) = SumAmounts(rec, Route(e))
      <3>1. \A q \in Route(e) : rec'[q].amount = rec[q].amount
        BY <1>2 DEF Route
      <3>. QED
        BY <3>1, RoutesAreFinite, SumsOfSame
    <2>4. CASE e = d
      <3>. DEFINE S == Route(e) \cup {r}
      <3>1. IsFiniteSet(S) /\ \A q \in S : rec'[q].amount \in Int
        <4>1. /\ IsFiniteSet(Route(e))
              /\ \A q \in Route(e) : rec[q].amount \in Int
          BY RoutesAreFinite
        <4>2. \A q \in Route(e) : rec'[q].amount \in Int
          BY <1>2, <4>1 DEF Route
        <4>. QED
          BY <1>2, <4>1, <4>2, FS_AddElement
      <3>2. S \ {r} = Route(e) /\ r \in S
        BY DEF Route
      <3>3. S = Route(e)'
        BY <2>1, <2>4
      <3>. HIDE DEF S
      <3>4. /\ SumAmounts(rec', S) = rec'[r].amount + SumAmounts(rec', Route(e))
            /\ SumAmounts(rec', Route(e)) \in Int
        <4>1. /\ SumAmounts(rec', S) = rec'[r].amount + SumAmounts(rec', S \ {r})
              /\ SumAmounts(rec', S \ {r}) \in Int
          <5>. DEFINE R == rec'
          <5>1. IsFiniteSet(S) /\ r \in S /\ \A q \in S : R[q].amount \in Int
            BY <3>1, <3>2
          <5>. HIDE DEF R
          <5>2. /\ SumAmounts(R, S) \in Int /\ SumAmounts(R, S \ {r}) \in Int
                /\ SumAmounts(R, S) = R[r].amount + SumAmounts(R, S \ {r})
            BY <5>1, SumWithout, Zenon
          <5>. QED
            BY <5>2 DEF R
        <4>. QED
          BY <3>2, <4>1
      <3>5. SumAmounts(rec', S) = a + held[e] /\ held[e] \in Int
        BY <1>2, <2>2, <2>3, <3>4
      <3>6. held'[e] = a + held[e]
        BY <1>2, <2>4, <3>5
      <3>7. PendingAmount(e)' = SumAmounts(rec', Route(e)')
        BY PendingSums
      <3>8. PendingAmount(e)' = SumAmounts(rec', S)
        BY <3>3, <3>7
      <3>. QED
        BY <3>5, <3>6, <3>8
    <2>5. CASE e # d
      <3>1. Route(e)' = Route(e) /\ held'[e] = held[e]
        BY <1>2, <2>1, <2>5
      <3>. QED
        BY <2>2, <2>3, <3>1, PendingSums
    <2>. QED
      BY <2>4, <2>5
  <1>. QED
    BY <1>1, <1>3 DEF HeldIsPending

LEMMA InitialQueue == Init => HeldInv
  <1>. SUFFICES ASSUME Init PROVE HeldInv
    OBVIOUS
  <1>1. BmeInv
    BY InitialBalance
  <1>2. IsFiniteSet(pending)
    BY FS_EmptySet DEF Init
  <1>3. ASSUME NEW d \in Denoms PROVE held[d] = PendingAmount(d)
    <2>1. Route(d) = {} /\ held[d] = 0
      BY DEF Init, Route
    <2>2. IsFiniteSet({})
      BY FS_EmptySet
    <2>3. SumAmounts(rec, {}) = 0
      <3>. DEFINE f == [r \in {} |-> rec[r].amount]
      <3>1. SumAmounts(rec, {}) = Total(f, {})
        BY <2>2, AmountsAreTotal
      <3>. HIDE DEF f
      <3>. QED
        BY <3>1, TotalEmpty
    <2>. QED
      BY <2>1, <2>3, PendingSums
  <1>. QED
    BY <1>1, <1>2, <1>3 DEF HeldInv, HeldIsPending

LEMMA CancelKeepsHeld ==
    ASSUME HeldInv, NEW r \in Requests, Turn(r), Cancel(r)
    PROVE  IsFiniteSet(pending') /\ HeldIsPending'
  <1>1. r \in pending
    BY DEF HeldInv, BmeInv, OnePlace, Turn
  <1>2. CASE CancelBurnMint(r)
    BY <1>1, <1>2, RecordLeaves DEF CancelBurnMint
  <1>3. CASE UNCHANGED <<coinVars, ledgerVars>>
    BY <1>3, SameQueue DEF coinVars, ledgerVars
  <1>. QED
    BY <1>2, <1>3 DEF Cancel

LEMMA HeldStep == HeldInv /\ [Next]_vars => HeldInv'
  <1>. SUFFICES ASSUME HeldInv, [Next]_vars
                PROVE  IsFiniteSet(pending') /\ HeldIsPending'
    BY BmeInvInductive DEF HeldInv
  <1>1. ASSUME NEW r \in Requests, Execute(r)
        PROVE  IsFiniteSet(pending') /\ HeldIsPending'
    <2>1. r \in pending
      BY <1>1 DEF Execute, Turn, HeldInv, BmeInv, OnePlace
    <2>. QED
      BY <1>1, <2>1, RecordLeaves DEF Execute, ExecuteBurnMint
  <1>2. ASSUME NEW r \in Requests, CancelFatal(r)
        PROVE  IsFiniteSet(pending') /\ HeldIsPending'
    BY <1>2, CancelKeepsHeld DEF CancelFatal
  <1>3. ASSUME NEW r \in Requests, Retry(r)
        PROVE  IsFiniteSet(pending') /\ HeldIsPending'
    <2>1. CASE Cancel(r)
      BY <1>3, <2>1, CancelKeepsHeld DEF Retry
    <2>2. CASE Retried(r)
      <3>1. \A q \in pending : rec'[q].from = rec[q].from /\ rec'[q].amount = rec[q].amount
        BY <2>2 DEF Retried, HeldInv, BmeInv, Records
      <3>. QED
        BY <2>2, <3>1, SameQueue DEF Retried, coinVars
    <2>. QED
      BY <1>3, <2>1, <2>2 DEF Retry
  <1>4. ASSUME NEW r \in Requests, NEW d \in Denoms, NEW a \in Amounts, RequestBurnMint(r, d, a)
        PROVE  IsFiniteSet(pending') /\ HeldIsPending'
    <2>1. a \in Nat
      BY BmeAssumption
    <2>. QED
      BY <1>4, <2>1, RecordEnters DEF RequestBurnMint, Enters
  <1>5. CASE UNCHANGED <<held, pending, rec>>
    BY <1>5, SameQueue
  <1>. QED
    BY <1>1, <1>2, <1>3, <1>4, <1>5
    DEF Next, Block, EndBlocker, EndBurning, EndMinting, SetPrice, FundVault, vars,
        coinVars, ledgerVars

\* What the pending requests of a denomination are for is what the balance of
\* pending coins says (ledgerPendingBalances), whatever is requested, executed,
\* cancelled and retried.
THEOREM HeldAddsUp == Spec => []HeldIsPending
  <1>1. Spec => []HeldInv
    BY InitialQueue, HeldStep, PTL DEF Spec
  <1>2. HeldInv => HeldIsPending
    BY DEF HeldInv
  <1>. QED
    BY <1>1, <1>2, PTL
=============================================================================
