---------------------------- MODULE OracleProofs ----------------------------
(***************************************************************************)
(* For every choice of parameters and sources: what is handed out as       *)
(* healthy is current, pruning never takes a fresh latest price, the       *)
(* epochs stay on their grid, and the weighted average calculateTWAP       *)
(* computes from the records is the average over time.  The inductive      *)
(* invariant says where the record of a latest price is: stored, or older  *)
(* than the retention.  The average is counted twice: one point of the     *)
(* history is in force at every instant of the window, and it is in force  *)
(* for as many instants as its weight says.                                *)
(***************************************************************************)
EXTENDS Oracle, FiniteSums

Key(p) == <<p.source, p.time, p.seq>>

Store ==
    /\ now \in Nat /\ nextSeq \in Nat
    /\ sources \subseteq Sources
    /\ latest \in [Sources -> [time : Int, seq : Int]]
    /\ prices \subseteq [source : Sources, time : Int, seq : Nat, price : Prices]
    /\ IsFiniteSet(prices)
    /\ \A p \in prices, q \in prices : Key(p) = Key(q) => p = q

Epochs ==
    /\ epoch \in [counting : BOOLEAN, number : Nat, start : Int]
    /\ EpochOnGrid

KeptOrOld ==
    \A s \in Sources : latest[s] # None =>
        \/ \E p \in prices : p.source = s /\ IsLatest(p)
        \/ latest[s].time <= now - PriceRetention

OracleInv == Store /\ Epochs /\ KeptOrOld /\ UsableIsCurrent

LEMMA InitialStore == Init => OracleInv
  <1>. SUFFICES ASSUME Init PROVE OracleInv
    OBVIOUS
  <1>1. IsFiniteSet(prices) /\ prices = {}
    BY FS_EmptySet DEF Init
  <1>2. Store
    BY <1>1, OracleAssumption DEF Init, Store, None
  <1>. QED
    BY <1>1, <1>2 DEF Init, OracleInv, Epochs, EpochOnGrid, KeptOrOld, UsableIsCurrent

\* A price that is added is the latest of its source and replaces no other
\* source's record.
LEMMA AddPriceEntryPreserves ==
    ASSUME OracleInv, NEW s \in Sources, NEW p \in Prices, NEW t \in Int, AddPriceEntry(s, p, t)
    PROVE  OracleInv'
  <1>. DEFINE entry == [source |-> s, time |-> t, seq |-> nextSeq, price |-> p]
              kept == {q \in prices : Key(q) # <<s, t, nextSeq>>}
  <1>1. /\ prices' = kept \cup {entry}
        /\ latest' = [latest EXCEPT ![s] = [time |-> t, seq |-> nextSeq]]
        /\ nextSeq' = nextSeq + 1
        /\ UNCHANGED <<phase, now, sources, healthy, aggregated, epoch>>
        /\ phase = "txs"
    BY DEF AddPriceEntry, Key
  <1>2. /\ now \in Nat /\ nextSeq \in Nat /\ sources \subseteq Sources
        /\ latest \in [Sources -> [time : Int, seq : Int]]
        /\ prices \subseteq [source : Sources, time : Int, seq : Nat, price : Prices]
        /\ IsFiniteSet(prices)
        /\ \A q \in prices, r \in prices : Key(q) = Key(r) => q = r
    BY DEF OracleInv, Store
  <1>3. entry \in [source : Sources, time : Int, seq : Nat, price : Prices]
    BY <1>2
  <1>4. IsFiniteSet(prices')
    BY <1>1, <1>2, FS_Subset, FS_AddElement
  <1>5. Key(entry) = <<s, t, nextSeq>>
    BY DEF Key
  <1>6. \A q \in prices', r \in prices' : Key(q) = Key(r) => q = r
    BY <1>1, <1>2, <1>5
  <1>7. prices' \subseteq [source : Sources, time : Int, seq : Nat, price : Prices]
    BY <1>1, <1>2, <1>3
  <1>8. Store'
    BY <1>1, <1>2, <1>4, <1>6, <1>7 DEF Store, Key
  <1>9. KeptOrOld'
    <2>. SUFFICES ASSUME NEW u \in Sources, latest'[u] # None
                  PROVE  \/ \E q \in prices' : q.source = u /\ IsLatest(q)'
                         \/ latest'[u].time <= now' - PriceRetention
      BY DEF KeptOrOld
    <2>1. CASE u = s
      <3>1. latest'[s] = [time |-> t, seq |-> nextSeq]
        BY <1>1, <1>2
      <3>2. PICK e \in prices' : e = entry
        BY <1>1
      <3>3. e.source = s /\ [time |-> e.time, seq |-> e.seq] = latest'[e.source]
        BY <3>1, <3>2
      <3>. QED
        BY <2>1, <3>2, <3>3 DEF IsLatest
    <2>2. CASE u # s
      <3>1. latest'[u] = latest[u]
        BY <1>1, <1>2, <2>2
      <3>2. CASE latest[u].time <= now - PriceRetention
        BY <1>1, <3>1, <3>2
      <3>3. ASSUME NEW q \in prices, q.source = u, IsLatest(q)
            PROVE  q \in prices' /\ IsLatest(q)'
        BY <1>1, <1>2, <2>2, <3>1, <3>3 DEF IsLatest, Key
      <3>. QED
        BY <3>1, <3>2, <3>3 DEF OracleInv, KeptOrOld
    <2>. QED
      BY <2>1, <2>2
  <1>. QED
    BY <1>1, <1>8, <1>9 DEF OracleInv, Epochs, EpochOnGrid, UsableIsCurrent

LEMMA SetParamsPreserves ==
    ASSUME OracleInv, NEW S \in SUBSET Sources, SetParams(S)
    PROVE  OracleInv'
  <1>1. None \in [time : Int, seq : Int]
    BY DEF None
  <1>2. Store'
    BY <1>1 DEF OracleInv, Store, SetParams, Key
  <1>3. \A s \in Sources : latest'[s] # None => latest'[s] = latest[s]
    BY DEF SetParams
  <1>4. KeptOrOld'
    BY <1>3 DEF OracleInv, Store, KeptOrOld, SetParams, IsLatest
  <1>. QED
    BY <1>2, <1>4 DEF OracleInv, SetParams, Epochs, EpochOnGrid, UsableIsCurrent

\* The tick of an epoch adds its duration, so the grid is kept.
LEMMA TickKeepsGrid ==
    ASSUME Epochs, NEW t \in Nat, t >= now, now \in Nat
    PROVE  /\ Ticked(t) \in [counting : BOOLEAN, number : Nat, start : Int]
           /\ Ticked(t).counting =>
                /\ Ticked(t).start = (Ticked(t).number - 1) * EpochDuration
                /\ Ticked(t).start <= t
  <1>0. EpochDuration \in Nat
    BY OracleAssumption
  <1>1. epoch \in [counting : BOOLEAN, number : Nat, start : Int]
    BY DEF Epochs
  <1>2. CASE ~epoch.counting
    BY <1>0, <1>2 DEF Ticked
  <1>3. CASE epoch.counting /\ ~EpochEnds(t)
    <2>1. Ticked(t) = epoch
      BY <1>3 DEF Ticked
    <2>. QED
      BY <1>0, <1>1, <1>3, <2>1 DEF Epochs, EpochOnGrid
  <1>4. CASE epoch.counting /\ EpochEnds(t)
    <2>. DEFINE n == epoch.number
    <2>1. /\ Ticked(t) = [epoch EXCEPT !.number = @ + 1, !.start = @ + EpochDuration]
          /\ n \in Nat
      BY <1>1, <1>4 DEF Ticked
    <2>2. epoch.start = (n - 1) * EpochDuration
      BY <1>4 DEF Epochs, EpochOnGrid
    <2>3. (n - 1) * EpochDuration + EpochDuration = (n + 1 - 1) * EpochDuration
      BY <1>0, <2>1
    <2>4. epoch.start + EpochDuration <= t
      BY <1>0, <1>1, <1>4 DEF EpochEnds
    <2>5. /\ Ticked(t).number = n + 1 /\ Ticked(t).start = epoch.start + EpochDuration
          /\ Ticked(t) \in [counting : BOOLEAN, number : Nat, start : Int]
      <3>1. epoch.counting \in BOOLEAN /\ epoch.start \in Int /\ epoch.number \in Nat
        BY <1>1
      <3>2. Ticked(t) = [counting |-> epoch.counting, number |-> n + 1,
                         start |-> epoch.start + EpochDuration]
        BY <1>1, <2>1
      <3>. QED
        BY <1>0, <3>1, <3>2
    <2>. HIDE DEF n
    <2>6. Ticked(t).start = (n + 1 - 1) * EpochDuration
      BY <2>2, <2>3, <2>5
    <2>7. (n + 1 - 1) = Ticked(t).number - 1
      BY <2>1, <2>5
    <2>. QED
      BY <2>4, <2>5, <2>6, <2>7
  <1>. QED
    BY <1>2, <1>3, <1>4

\* What pruning takes away is older than the retention.
LEMMA BeginBlockerPreserves ==
    ASSUME OracleInv, NEW d \in BlockTimes, BeginBlocker(d)
    PROVE  OracleInv'
  <1>0. d \in Nat /\ PriceRetention \in Nat
    BY OracleAssumption
  <1>1. /\ now' = now + d /\ nextSeq' = 0 /\ phase' = "txs"
        /\ prices' \subseteq prices
        /\ \A p \in prices : p \in prices' \/ p.time <= now' - PriceRetention
        /\ epoch' = Ticked(now + d)
        /\ UNCHANGED <<sources, latest, healthy, aggregated>>
    BY DEF BeginBlocker, Pruned, Prunable, Cutoff
  <1>2. now \in Nat /\ now' \in Nat
    BY <1>0, <1>1 DEF OracleInv, Store
  <1>3. Store'
    <2>1. IsFiniteSet(prices')
      BY <1>1, FS_Subset DEF OracleInv, Store
    <2>. QED
      BY <1>1, <1>2, <2>1 DEF OracleInv, Store
  <1>4. Epochs'
    BY <1>0, <1>1, <1>2, TickKeepsGrid DEF OracleInv, Epochs, EpochOnGrid
  <1>5. KeptOrOld'
    <2>. SUFFICES ASSUME NEW s \in Sources, latest[s] # None
                  PROVE  \/ \E p \in prices' : p.source = s /\ IsLatest(p)
                         \/ latest[s].time <= now' - PriceRetention
      BY <1>1 DEF KeptOrOld, IsLatest
    <2>0. latest[s].time \in Int
      BY DEF OracleInv, Store
    <2>1. CASE latest[s].time <= now - PriceRetention
      BY <1>0, <1>1, <1>2, <2>0, <2>1
    <2>2. ASSUME NEW p \in prices, p.source = s, IsLatest(p)
          PROVE  p \in prices' \/ latest[s].time <= now' - PriceRetention
      <3>1. p.time = latest[s].time
        BY <2>2 DEF IsLatest
      <3>. QED
        BY <1>1, <3>1
    <2>. QED
      BY <2>1, <2>2 DEF OracleInv, KeptOrOld
  <1>. QED
    BY <1>1, <1>3, <1>4, <1>5 DEF OracleInv, UsableIsCurrent

\* Every latest record that is aggregated has a fresh source of its own.
LEMMA LatestHaveSources ==
    ASSUME Store
    PROVE  Cardinality(LatestPrices) <= Cardinality({s \in Reporting : Fresh(s)})
           /\ Cardinality(LatestPrices) \in Nat
           /\ Cardinality({s \in Reporting : Fresh(s)}) \in Nat
  <1>. DEFINE F == {s \in Reporting : Fresh(s)}
              f == [p \in LatestPrices |-> p.source]
              I == {p.source : p \in LatestPrices}
  <1>1. IsFiniteSet(F)
    BY OracleAssumption, FS_Subset DEF Store, Reporting
  <1>2. IsFiniteSet(LatestPrices)
    BY FS_Subset DEF Store, LatestPrices
  <1>3. I \in SUBSET F
    BY DEF LatestPrices
  <1>4. \A p \in LatestPrices, q \in LatestPrices : p.source = q.source => p = q
    <2>. SUFFICES ASSUME NEW p \in LatestPrices, NEW q \in LatestPrices, p.source = q.source
                  PROVE  p = q
      OBVIOUS
    <2>1. p.time = q.time /\ p.seq = q.seq
      <3>1. [time |-> p.time, seq |-> p.seq] = [time |-> q.time, seq |-> q.seq]
        BY DEF LatestPrices, IsLatest
      <3>. QED
        BY <3>1
    <2>. QED
      BY <2>1 DEF LatestPrices, Store, Key
  <1>5. f \in Bijection(LatestPrices, I)
    <2>1. f \in [LatestPrices -> I]
      OBVIOUS
    <2>2. f \in Injection(LatestPrices, I)
      BY <1>4, <2>1 DEF Injection, IsInjective
    <2>3. f \in Surjection(LatestPrices, I)
      BY <2>1 DEF Surjection
    <2>. QED
      BY <2>2, <2>3 DEF Bijection
  <1>6. Cardinality(I) = Cardinality(LatestPrices)
    BY <1>2, <1>5, FS_Bijection DEF ExistsBijection
  <1>. QED
    BY <1>1, <1>2, <1>3, <1>6, FS_Subset, FS_CardinalityType

LEMMA EndBlockerPreserves ==
    ASSUME OracleInv, EndBlocker
    PROVE  OracleInv'
  <1>1. UNCHANGED <<now, sources, latest, prices, nextSeq, epoch>>
    BY DEF EndBlocker
  <1>2. UsableIsCurrent'
    <2>. SUFFICES ASSUME healthy', Reporting # {}
                  PROVE  /\ aggregated'.time = now
                         /\ Cardinality({s \in Reporting : Fresh(s)}) >= MinPriceSources
      BY <1>1 DEF UsableIsCurrent, Reporting, Fresh
    <2>1. IsHealthy
      BY DEF EndBlocker
    <2>2. /\ NumSources >= MinPriceSources /\ NumSources # 0
          /\ NumSources = Cardinality(LatestPrices) /\ LatestPrices # {}
      BY <2>1, OracleAssumption, FS_EmptySet DEF IsHealthy, NumSources
    <2>3. aggregated'.time = now
      <3>1. aggregated' = [twap |-> AggregateTwap, time |-> now]
        BY <2>1, <2>2 DEF EndBlocker
      <3>. QED
        BY <3>1
    <2>4. Cardinality({s \in Reporting : Fresh(s)}) >= MinPriceSources
      BY <2>2, LatestHaveSources, OracleAssumption DEF OracleInv
    <2>. QED
      BY <2>3, <2>4
  <1>3. Store' /\ Epochs' /\ KeptOrOld'
    BY <1>1 DEF OracleInv, Store, Epochs, EpochOnGrid, KeptOrOld, IsLatest, Key
  <1>. QED
    BY <1>2, <1>3 DEF OracleInv

\* Every reachable state of x/oracle satisfies the inductive invariant.
THEOREM OracleInvariant == Spec => []OracleInv
  <1>1. OracleInv /\ [Next]_vars => OracleInv'
    <2>. SUFFICES ASSUME OracleInv, [Next]_vars PROVE OracleInv'
      OBVIOUS
    <2>1. ASSUME NEW s \in Sources, NEW p \in Prices, NEW o \in Offsets,
                 AddPriceEntry(s, p, now + o)
          PROVE  OracleInv'
      <3>1. now + o \in Int
        BY OracleAssumption DEF OracleInv, Store
      <3>. QED
        BY <2>1, <3>1, AddPriceEntryPreserves
    <2>2. ASSUME NEW S \in ParamSets, SetParams(S)
          PROVE  OracleInv'
      BY <2>2, SetParamsPreserves, OracleAssumption
    <2>3. CASE UNCHANGED vars
      BY <2>3
      DEF vars, OracleInv, Store, Epochs, EpochOnGrid, KeptOrOld, IsLatest, Key,
          UsableIsCurrent, Reporting, Fresh
    <2>. QED
      BY <2>1, <2>2, <2>3, EndBlockerPreserves, BeginBlockerPreserves DEF Next
  <1>. QED
    BY <1>1, InitialStore, PTL DEF Spec

\* A price handed out as healthy was computed in this block from enough
\* fresh sources.
THEOREM HealthyIsCurrent == Spec => []UsableIsCurrent
  BY OracleInvariant, PTL DEF OracleInv

\* Pruning never takes the record of a fresh latest price.
THEOREM PruningKeepsLatest == Spec => []LatestKept
  <1>1. OracleInv => LatestKept
    <2>. SUFFICES ASSUME OracleInv, PriceRetention > MaxStaleness,
                         NEW s \in Reporting, Fresh(s)
                  PROVE  \E p \in prices : p.source = s /\ IsLatest(p)
      BY DEF LatestKept
    <2>1. s \in Sources /\ latest[s] # None /\ latest[s].time \in Int /\ now \in Nat
      BY DEF Reporting, OracleInv, Store
    <2>2. ~(latest[s].time <= now - PriceRetention)
      BY <2>1, OracleAssumption DEF Fresh
    <2>. QED
      BY <2>1, <2>2 DEF OracleInv, KeptOrOld
  <1>. QED
    BY <1>1, OracleInvariant, PTL

\* However late its blocks are, no epoch leaves the grid of its duration.
THEOREM EpochsOnGrid == Spec => []EpochOnGrid
  <1>1. OracleInv => EpochOnGrid
    BY DEF OracleInv, Epochs
  <1>. QED
    BY <1>1, OracleInvariant, PTL

-----------------------------------------------------------------------------
(* calculateTWAP *)

\* Points of a source: numbers for times, and no two of them alike.
Points(T) ==
    /\ IsFiniteSet(T)
    /\ \A p \in T : p.time \in Int /\ p.seq \in Int
    /\ \A p \in T, q \in T : p.time = q.time /\ p.seq = q.seq => p = q

\* The point of T in force at t.
Newest(p, T, t) == p \in T /\ p.time <= t /\ \A q \in T : q.time <= t => ~Newer(q, p)

\* A source's own records are points.
LEMMA RecordsArePoints ==
    ASSUME Store, NEW s \in Sources
    PROVE  /\ Points(Of(s)) /\ now \in Int /\ TwapWindow \in Nat \ {0}
           /\ \A p \in Of(s) : p.seq \in Nat /\ p.price \in Nat
  <1>1. \A p \in Of(s) : p.time \in Int /\ p.seq \in Nat /\ p.price \in Nat
    BY OracleAssumption DEF Store, Of
  <1>2. IsFiniteSet(Of(s))
    BY FS_Subset DEF Store, Of
  <1>3. \A p \in Of(s), q \in Of(s) : p.time = q.time /\ p.seq = q.seq => p = q
    BY DEF Store, Of, Key
  <1>. QED
    BY <1>1, <1>2, <1>3, OracleAssumption DEF Points, Store

\* Where a point is known, one of them is in force, and no other.
LEMMA NewestExists ==
    ASSUME NEW T, Points(T), NEW t \in Int, \E p \in T : p.time <= t
    PROVE  \E p : Newest(p, T, t)
  <1>. DEFINE D == {p \in T : p.time <= t}
              R == {pq \in D \X D : Newer(pq[1], pq[2])}
  <1>1. IsFiniteSet(D) /\ D # {} /\ \A p \in D : p.time \in Int /\ p.seq \in Int
    BY FS_Subset DEF Points
  <1>2. \A x \in D, y \in D : <<x, y>> \in R <=> Newer(x, y)
    OBVIOUS
  <1>3. \A x \in D : ~Newer(x, x)
    BY <1>1 DEF Newer
  <1>4. \A x \in D, y \in D, z \in D : Newer(x, y) /\ Newer(y, z) => Newer(x, z)
    BY <1>1 DEF Newer
  <1>5. PICK x \in D : \A y \in D : <<y, x>> \notin R
    <2>. HIDE DEF D, R
    <2>. QED
      BY <1>1, <1>2, <1>3, <1>4, MinimalIn
  <1>. QED
    BY <1>2, <1>5 DEF Newest

LEMMA NewestIsOne ==
    ASSUME NEW T, Points(T), NEW t \in Int, NEW p, Newest(p, T, t), NEW q, Newest(q, T, t)
    PROVE  p = q
  BY DEF Newest, Newer, Points

\* A point is followed by a newer one, or counts until now.
LEMMA NextPoint ==
    ASSUME NEW H, Points(H), NEW p \in H, \E q \in H : Newer(q, p)
    PROVE  \E q \in H : /\ Until(p, H) = q.time /\ Newer(q, p)
                        /\ \A r \in H : Newer(r, p) => ~Newer(q, r)
  <1>. DEFINE D == {q \in H : Newer(q, p)}
              R == {qr \in D \X D : Newer(qr[2], qr[1])}
              Next1(q) == Newer(q, p) /\ \A r \in H : Newer(r, p) => ~Newer(q, r)
  <1>1. IsFiniteSet(D) /\ D # {} /\ \A q \in D : q.time \in Int /\ q.seq \in Int
    BY FS_Subset DEF Points
  <1>2. \A x \in D, y \in D : <<x, y>> \in R <=> Newer(y, x)
    OBVIOUS
  <1>3. \A x \in D : ~Newer(x, x)
    BY <1>1 DEF Newer
  <1>4. \A x \in D, y \in D, z \in D : Newer(y, x) /\ Newer(z, y) => Newer(z, x)
    BY <1>1 DEF Newer
  <1>5. PICK x \in D : \A y \in D : <<y, x>> \notin R
    <2>. HIDE DEF D, R
    <2>. QED
      BY <1>1, <1>2, <1>3, <1>4, MinimalIn
  <1>6. x \in H /\ Next1(x)
    BY <1>2, <1>5
  <1>7. Until(p, H) = (CHOOSE q \in H : Next1(q)).time
    BY DEF Until
  <1>. DEFINE q0 == CHOOSE q \in H : Next1(q)
  <1>8. q0 \in H /\ Next1(q0)
    <2>. HIDE DEF Next1
    <2>. QED
      BY <1>6
  <1>. QED
    BY <1>7, <1>8

\* A point of the history is in force from its time until the next one's.
LEMMA InForceUntil ==
    ASSUME NEW H, Points(H), now \in Int, \A p \in H : p.time <= now, NEW h \in H
    PROVE  /\ Until(h, H) \in Int /\ h.time <= Until(h, H) /\ Until(h, H) <= now
           /\ \A t \in Int : t < now =>
                (t \in h.time..(Until(h, H) - 1) <=> Newest(h, H, t))
  <1>1. h.time \in Int /\ h.time <= now
    BY DEF Points
  <1>2. CASE \A q \in H : ~Newer(q, h)
    <2>1. Until(h, H) = now
      BY <1>2 DEF Until
    <2>. QED
      BY <1>1, <1>2, <2>1 DEF Newest
  <1>3. CASE \E q \in H : Newer(q, h)
    <2>1. PICK q \in H : /\ Until(h, H) = q.time /\ Newer(q, h)
                         /\ \A r \in H : Newer(r, h) => ~Newer(q, r)
      BY <1>3, NextPoint
    <2>2. /\ q.time \in Int /\ q.seq \in Int /\ h.seq \in Int /\ h.time <= q.time
          /\ q.time <= now
      BY <1>1, <2>1 DEF Points, Newer
    <2>3. ASSUME NEW t \in Int, t \in h.time..(q.time - 1)
          PROVE  Newest(h, H, t)
      <3>1. ASSUME NEW r \in H, r.time <= t, Newer(r, h) PROVE FALSE
        <4>1. r.time \in Int /\ r.seq \in Int /\ r.time < q.time
          BY <2>2, <2>3, <3>1 DEF Points
        <4>2. Newer(q, r)
          BY <2>2, <4>1 DEF Newer
        <4>. QED
          BY <2>1, <3>1, <4>2
      <3>. QED
        BY <1>1, <2>2, <2>3, <3>1 DEF Newest
    <2>4. ASSUME NEW t \in Int, Newest(h, H, t)
          PROVE  t \in h.time..(q.time - 1)
      BY <1>1, <2>1, <2>2, <2>4 DEF Newest
    <2>. QED
      BY <1>1, <2>1, <2>2, <2>3, <2>4
  <1>. QED
    BY <1>2, <1>3

\* The last record before the window, and the point it stands for.
LastBefore(s, p) == p \in BeforeWindow(s) /\ \A r \in BeforeWindow(s) : ~Newer(r, p)
AtBegin(p) == [p EXCEPT !.time = now - TwapWindow, !.seq = -1]

LEMMA BoundaryPoint ==
    ASSUME Store, NEW s \in Sources
    PROVE  /\ \A h : h \in Boundary(s) <=> \E p : LastBefore(s, p) /\ h = AtBegin(p)
           /\ \A p, q : LastBefore(s, p) /\ LastBefore(s, q) => p = q
           /\ \A p \in Of(s) : /\ AtBegin(p).time = now - TwapWindow
                               /\ AtBegin(p).seq = -1 /\ AtBegin(p).price = p.price
           /\ \A h \in Boundary(s) : h.time = now - TwapWindow /\ h.seq = -1 /\ h.price \in Nat
  <1>1. /\ Points(Of(s)) /\ \A p \in Of(s) : p.seq \in Nat /\ p.price \in Nat
        /\ now \in Int /\ TwapWindow \in Nat
    BY RecordsArePoints
  <1>2. \A p \in Of(s) : p \in [source : Sources, time : Int, seq : Nat, price : Prices]
    BY DEF Of, Store
  <1>3. BeforeWindow(s) \subseteq Of(s)
    BY DEF BeforeWindow
  <1>4. \A h : h \in Boundary(s) <=> \E p : LastBefore(s, p) /\ h = AtBegin(p)
    BY DEF Boundary, LastBefore, AtBegin
  <1>5. \A p, q : LastBefore(s, p) /\ LastBefore(s, q) => p = q
    BY <1>1, <1>3 DEF LastBefore, Points, Newer
  <1>6. \A p \in Of(s) : /\ AtBegin(p).time = now - TwapWindow
                         /\ AtBegin(p).seq = -1 /\ AtBegin(p).price = p.price
    BY <1>2 DEF AtBegin
  <1>7. \A h \in Boundary(s) : h.time = now - TwapWindow /\ h.seq = -1 /\ h.price \in Nat
    BY <1>1, <1>3, <1>4, <1>6 DEF LastBefore
  <1>. QED
    BY <1>4, <1>5, <1>6, <1>7

\* The history is made of points between the beginning of the window and now.
LEMMA HistoryPoints ==
    ASSUME Store, NEW s \in Sources
    PROVE  /\ Points(History(s))
           /\ \A h \in History(s) : /\ h.time \in (now - TwapWindow)..now
                                    /\ h.time <= now /\ h.price \in Nat
  <1>. DEFINE b == now - TwapWindow
              B == Boundary(s)
              I == InWindow(s)
  <1>1. /\ Points(Of(s)) /\ now \in Int /\ TwapWindow \in Nat \ {0} /\ b \in Int
        /\ \A p \in Of(s) : p.seq \in Nat /\ p.price \in Nat
    BY RecordsArePoints
  <1>2. /\ I \subseteq Of(s) /\ \A p \in I : p.time \in b..now
    BY DEF InWindow
  <1>3. /\ \A h \in B : h.time = b /\ h.seq = -1 /\ h.price \in Nat
        /\ \A h \in B, k \in B : h = k
    BY BoundaryPoint
  <1>4. IsFiniteSet(I \cup B)
    <2>1. IsFiniteSet(I)
      BY <1>1, <1>2, FS_Subset DEF Points
    <2>2. CASE B = {}
      <3>1. I \cup B = I
        BY <2>2
      <3>. QED
        BY <2>1, <3>1
    <2>3. ASSUME NEW h \in B PROVE IsFiniteSet(I \cup B)
      <3>1. I \cup B = I \cup {h}
        BY <1>3
      <3>2. IsFiniteSet(I \cup {h})
        BY <2>1, FS_AddElement
      <3>. QED
        BY <3>1, <3>2
    <2>. QED
      BY <2>2, <2>3
  <1>5. \A h \in I \cup B : /\ h.time \in b..now /\ h.time <= now /\ h.price \in Nat
                            /\ h.time \in Int /\ h.seq \in Int
    BY <1>1, <1>2, <1>3 DEF Points
  <1>6. \A h \in I \cup B, k \in I \cup B : h.time = k.time /\ h.seq = k.seq => h = k
    <2>1. \A h \in I, k \in I : h.time = k.time /\ h.seq = k.seq => h = k
      BY <1>1, <1>2 DEF Points
    <2>2. \A h \in I, k \in B : h.seq # k.seq
      BY <1>1, <1>2, <1>3
    <2>. QED
      BY <1>3, <2>1, <2>2
  <1>7. History(s) = I \cup B
    BY DEF History
  <1>. HIDE DEF I, B
  <1>. QED
    BY <1>4, <1>5, <1>6, <1>7 DEF Points

\* The history reaches as far back as the records do, inside the window.
LEMMA HistoryCovers ==
    ASSUME Store, NEW s \in Sources, NEW t \in (now - TwapWindow)..(now - 1)
    PROVE  (\E p \in Of(s) : p.time <= t) <=> (\E h \in History(s) : h.time <= t)
  <1>1. /\ Points(Of(s)) /\ now \in Int /\ TwapWindow \in Nat \ {0}
    BY RecordsArePoints
  <1>2. t \in Int /\ now - TwapWindow <= t /\ t < now
    BY <1>1
  <1>3. ASSUME NEW p \in Of(s), p.time <= t
        PROVE  \E h \in History(s) : h.time <= t
    <2>0. p.time \in Int
      BY <1>1 DEF Points
    <2>1. CASE p.time >= now - TwapWindow
      <3>1. p \in InWindow(s)
        BY <1>1, <1>2, <1>3, <2>0, <2>1 DEF InWindow
      <3>. QED
        BY <1>3, <3>1 DEF History
    <2>2. CASE p.time < now - TwapWindow
      <3>1. /\ BeforeWindow(s) \subseteq Of(s) /\ p \in BeforeWindow(s)
            /\ \A q \in Of(s) : q \in BeforeWindow(s) <=> q.time <= now - TwapWindow - 1
        BY <1>1, <1>2, <2>2 DEF BeforeWindow, Points
      <3>2. PICK q : Newest(q, Of(s), now - TwapWindow - 1)
        <4>1. now - TwapWindow - 1 \in Int /\ p.time <= now - TwapWindow - 1
          BY <1>1, <2>0, <2>2
        <4>. QED
          BY <1>1, <4>1, NewestExists
      <3>3. LastBefore(s, q) /\ q \in Of(s)
        BY <3>1, <3>2 DEF Newest, LastBefore
      <3>4. AtBegin(q) \in Boundary(s) /\ AtBegin(q).time = now - TwapWindow
        BY <3>3, BoundaryPoint
      <3>. QED
        BY <1>2, <3>4 DEF History
    <2>. QED
      BY <1>1, <2>0, <2>1, <2>2
  <1>4. ASSUME NEW h \in History(s), h.time <= t
        PROVE  \E p \in Of(s) : p.time <= t
    <2>1. CASE h \in InWindow(s)
      BY <1>4, <2>1 DEF InWindow
    <2>2. CASE h \in Boundary(s)
      <3>1. PICK p : LastBefore(s, p)
        BY <2>2, BoundaryPoint
      <3>2. p \in Of(s) /\ p.time < now - TwapWindow /\ p.time \in Int
        BY <1>1, <3>1 DEF LastBefore, BeforeWindow, Points
      <3>. QED
        BY <1>1, <1>2, <3>2
    <2>. QED
      BY <2>1, <2>2 DEF History
  <1>. QED
    BY <1>3, <1>4

\* The point of the history in force at an instant has the price of the record
\* in force at it.
LEMMA HistoryHasPrice ==
    ASSUME Store, NEW s \in Sources, NEW t \in (now - TwapWindow)..(now - 1),
           NEW h, Newest(h, History(s), t)
    PROVE  h.price = InForce(s, t).price
  <1>1. /\ Points(Of(s)) /\ now \in Int /\ TwapWindow \in Nat \ {0}
        /\ \A p \in Of(s) : p.seq \in Nat
    BY RecordsArePoints
  <1>2. t \in Int /\ now - TwapWindow <= t /\ t < now
    BY <1>1
  <1>3. ASSUME NEW p, Newest(p, Of(s), t) PROVE p = InForce(s, t)
    <2>1. InForce(s, t) = CHOOSE x \in Of(s) : x.time <= t /\ \A q \in Of(s) :
                                                  q.time <= t => ~Newer(q, x)
      BY DEF InForce
    <2>2. Newest(InForce(s, t), Of(s), t)
      BY <1>3, <2>1 DEF Newest
    <2>. QED
      BY <1>1, <1>2, <1>3, <2>2, NewestIsOne
  <1>4. \A q \in Of(s) : q.time <= t => q \in InWindow(s) \/ q \in BeforeWindow(s)
    BY <1>1, <1>2 DEF Points, InWindow, BeforeWindow
  <1>5. CASE h \in InWindow(s)
    <2>1. h \in Of(s) /\ h.time \in Int /\ h.time >= now - TwapWindow /\ h.time <= t
      BY <1>1, <1>5 DEF InWindow, Newest
    <2>2. \A q \in InWindow(s) : q.time <= t => ~Newer(q, h)
      BY DEF Newest, History
    <2>3. \A q \in BeforeWindow(s) : ~Newer(q, h)
      BY <1>1, <2>1 DEF BeforeWindow, Newer, Points
    <2>4. Newest(h, Of(s), t)
      BY <1>4, <2>1, <2>2, <2>3 DEF Newest
    <2>. QED
      BY <1>3, <2>4
  <1>6. CASE h \in Boundary(s)
    <2>1. PICK p : LastBefore(s, p) /\ h = AtBegin(p)
      BY <1>6, BoundaryPoint
    <2>2. p \in Of(s) /\ p.time < now - TwapWindow /\ p.time \in Int
      BY <1>1, <2>1 DEF LastBefore, BeforeWindow, Points
    <2>3. h.time = now - TwapWindow /\ h.seq = -1 /\ h.price = p.price
      BY <2>1, <2>2, BoundaryPoint
    <2>4. ASSUME NEW q \in InWindow(s), q.time <= t PROVE FALSE
      <3>1. q \in Of(s) /\ q.time \in Int /\ q.time >= now - TwapWindow /\ q.seq \in Nat
        BY <1>1 DEF InWindow
      <3>2. Newer(q, h)
        BY <1>1, <2>3, <3>1 DEF Newer
      <3>. QED
        BY <2>4, <3>2 DEF Newest, History
    <2>5. Newest(p, Of(s), t)
      BY <1>1, <1>2, <1>4, <2>1, <2>2, <2>4 DEF Newest, LastBefore
    <2>. QED
      BY <1>3, <2>3, <2>5
  <1>. QED
    BY <1>5, <1>6 DEF Newest, History

\* The sums of calculateTWAP, as sums of functions.
LEMMA WeightedIsTotal ==
    ASSUME NEW H, IsFiniteSet(H)
    PROVE  Weighted(H) = Total([p \in H |-> p.price * (Until(p, H) - p.time)], H)
  <1>. DEFINE f == [p \in H |-> p.price * (Until(p, H) - p.time)]
              W(p) == p.price * (Until(p, H) - p.time)
              Recurs(h) == h = [s \in SUBSET H |-> IF s = {} THEN 0
                                ELSE W(Chosen(s)) + h[s \ {Chosen(s)}]]
              k == CHOOSE h : Recurs(h)
  <1>1. \A h : Recurs(h) <=> Sums(h, f, H)
    <2>1. \A s \in SUBSET H : s # {} => Chosen(s) \in H
      BY FS_Subset, ChosenIn
    <2>2. \A s \in SUBSET H : s # {} => f[Chosen(s)] = W(Chosen(s))
      BY <2>1
    <2>. HIDE DEF f, W
    <2>. QED
      BY <2>2 DEF Sums
  <1>2. Weighted(H) = k[H]
    BY DEF Weighted, MapThenSumSet, MapThenFoldSet, Chosen
  <1>. HIDE DEF f, W
  <1>3. \E h : Recurs(h)
    BY <1>1, SumsExist
  <1>4. Recurs(k)
    BY <1>3
  <1>. HIDE DEF Recurs, k
  <1>. QED
    BY <1>1, <1>2, <1>4, TotalSums DEF f

LEMMA TotalWeightIsTotal ==
    ASSUME NEW H, IsFiniteSet(H)
    PROVE  TotalWeight(H) = Total([p \in H |-> Until(p, H) - p.time], H)
  <1>. DEFINE f == [p \in H |-> Until(p, H) - p.time]
              W(p) == Until(p, H) - p.time
              Recurs(h) == h = [s \in SUBSET H |-> IF s = {} THEN 0
                                ELSE W(Chosen(s)) + h[s \ {Chosen(s)}]]
              k == CHOOSE h : Recurs(h)
  <1>1. \A h : Recurs(h) <=> Sums(h, f, H)
    <2>1. \A s \in SUBSET H : s # {} => Chosen(s) \in H
      BY FS_Subset, ChosenIn
    <2>2. \A s \in SUBSET H : s # {} => f[Chosen(s)] = W(Chosen(s))
      BY <2>1
    <2>. HIDE DEF f, W
    <2>. QED
      BY <2>2 DEF Sums
  <1>2. TotalWeight(H) = k[H]
    BY DEF TotalWeight, MapThenSumSet, MapThenFoldSet, Chosen
  <1>. HIDE DEF f, W
  <1>3. \E h : Recurs(h)
    BY <1>1, SumsExist
  <1>4. Recurs(k)
    BY <1>3
  <1>. HIDE DEF Recurs, k
  <1>. QED
    BY <1>1, <1>2, <1>4, TotalSums DEF f

LEMMA InForceIsTotal ==
    ASSUME NEW s, NEW C, IsFiniteSet(C)
    PROVE  MapThenSumSet(LAMBDA t : InForce(s, t).price, C)
             = Total([t \in C |-> InForce(s, t).price], C)
  <1>. DEFINE f == [t \in C |-> InForce(s, t).price]
              W(t) == InForce(s, t).price
              Recurs(h) == h = [u \in SUBSET C |-> IF u = {} THEN 0
                                ELSE W(Chosen(u)) + h[u \ {Chosen(u)}]]
              k == CHOOSE h : Recurs(h)
  <1>1. \A h : Recurs(h) <=> Sums(h, f, C)
    <2>1. \A u \in SUBSET C : u # {} => Chosen(u) \in C
      BY FS_Subset, ChosenIn
    <2>2. \A u \in SUBSET C : u # {} => f[Chosen(u)] = W(Chosen(u))
      BY <2>1
    <2>. HIDE DEF f, W
    <2>. QED
      BY <2>2 DEF Sums
  <1>2. MapThenSumSet(LAMBDA t : InForce(s, t).price, C) = k[C]
    BY DEF MapThenSumSet, MapThenFoldSet, Chosen
  <1>. HIDE DEF f, W
  <1>3. \E h : Recurs(h)
    BY <1>1, SumsExist
  <1>4. Recurs(k)
    BY <1>3
  <1>. HIDE DEF Recurs, k
  <1>. QED
    BY <1>1, <1>2, <1>4, TotalSums DEF f

\* The instants of the window a price is known for, and the point in force.
Covered(s) == {t \in (now - TwapWindow)..(now - 1) : \E p \in Of(s) : p.time <= t}
PointAt(s) == [t \in Covered(s) |-> CHOOSE h : Newest(h, History(s), t)]

LEMMA PointsAt ==
    ASSUME Store, NEW s \in Sources
    PROVE  /\ IsFiniteSet(Covered(s))
           /\ \A t \in Covered(s) : PointAt(s)[t] \in History(s)
           /\ \A t \in Covered(s) : PointAt(s)[t].price = InForce(s, t).price
           /\ \A h \in History(s) : /\ Until(h, History(s)) - h.time \in Nat
                                    /\ Cardinality(Class(PointAt(s), Covered(s), h))
                                         = Until(h, History(s)) - h.time
  <1>. DEFINE C == Covered(s)
              H == History(s)
              g == PointAt(s)
  <1>1. /\ Points(H) /\ now \in Int /\ TwapWindow \in Nat \ {0}
        /\ \A h \in H : h.time \in (now - TwapWindow)..now /\ h.time <= now
    BY HistoryPoints, RecordsArePoints
  <1>2. C \subseteq (now - TwapWindow)..(now - 1) /\ C \subseteq Int
    BY <1>1 DEF Covered
  <1>3. IsFiniteSet(C)
    <2>1. IsFiniteSet((now - TwapWindow)..(now - 1))
      BY <1>1, FS_Interval
    <2>. QED
      BY <1>2, <2>1, FS_Subset
  <1>4. \A t \in C : \E h \in H : h.time <= t
    BY <1>2, HistoryCovers DEF Covered
  <1>5. ASSUME NEW t \in C PROVE Newest(g[t], H, t)
    <2>1. \E h : Newest(h, H, t)
      BY <1>1, <1>2, <1>4, NewestExists
    <2>2. g[t] = CHOOSE h : Newest(h, H, t)
      BY DEF PointAt
    <2>. HIDE DEF H
    <2>. QED
      BY <2>1, <2>2
  <1>6. \A t \in C : g[t] \in H /\ g[t].price = InForce(s, t).price
    <2>1. ASSUME NEW t \in C PROVE g[t].price = InForce(s, t).price
      BY <1>2, <1>5, HistoryHasPrice
    <2>. QED
      BY <1>5, <2>1 DEF Newest
  <1>7. ASSUME NEW h \in H
        PROVE  /\ Until(h, H) - h.time \in Nat
               /\ Cardinality(Class(g, C, h)) = Until(h, H) - h.time
    <2>. DEFINE u == Until(h, H)
    <2>1. /\ u \in Int /\ h.time <= u /\ u <= now
          /\ \A t \in Int : t < now => (t \in h.time..(u - 1) <=> Newest(h, H, t))
      BY <1>1, InForceUntil
    <2>. HIDE DEF H, u
    <2>2. h.time \in Int /\ now - TwapWindow <= h.time
      BY <1>1 DEF Points
    <2>3. ASSUME NEW t \in h.time..(u - 1) PROVE t \in C /\ g[t] = h
      <3>1. /\ t \in Int /\ t < now /\ h.time <= t
            /\ t \in (now - TwapWindow)..(now - 1)
        BY <1>1, <2>1, <2>2
      <3>2. t \in C
        BY <3>1, HistoryCovers DEF Covered, H
      <3>3. Newest(h, H, t)
        BY <2>1, <3>1
      <3>. QED
        BY <1>1, <1>5, <3>1, <3>2, <3>3, NewestIsOne
    <2>4. ASSUME NEW t \in C, g[t] = h PROVE t \in h.time..(u - 1)
      <3>1. t \in Int /\ t < now
        BY <1>1, <1>2
      <3>2. Newest(h, H, t)
        BY <1>5, <2>4
      <3>. QED
        BY <2>1, <3>1, <3>2
    <2>5. Class(g, C, h) = h.time..(u - 1)
      BY <2>3, <2>4 DEF Class
    <2>6. Cardinality(h.time..(u - 1)) = u - h.time
      BY <2>1, <2>2, FS_Interval
    <2>. QED
      BY <2>1, <2>2, <2>5, <2>6 DEF u, H
  <1>. QED
    BY <1>3, <1>6, <1>7

\* The weighted sum is the sum of the prices in force, and the weights count
\* the instants they are in force at.
LEMMA WeightsCount ==
    ASSUME Store, NEW s \in Sources
    PROVE  /\ Weighted(History(s))
                = MapThenSumSet(LAMBDA t : InForce(s, t).price, Covered(s))
           /\ TotalWeight(History(s)) = Cardinality(Covered(s))
  <1>. DEFINE C == Covered(s)
              H == History(s)
              g == PointAt(s)
              u == [h \in H |-> Until(h, H) - h.time]
              w == [h \in H |-> h.price]
              one == [h \in H |-> 1]
              byPrice == [h \in H |-> w[h] * Cardinality(Class(g, C, h))]
              byOne == [h \in H |-> one[h] * Cardinality(Class(g, C, h))]
              ofPrice == [t \in C |-> w[g[t]]]
              ofOne == [t \in C |-> one[g[t]]]
  <1>1. /\ IsFiniteSet(C) /\ \A t \in C : g[t] \in H
        /\ \A t \in C : g[t].price = InForce(s, t).price
        /\ \A h \in H : /\ u[h] \in Nat /\ Cardinality(Class(g, C, h)) = u[h]
    BY PointsAt
  <1>2. IsFiniteSet(H) /\ \A h \in H : w[h] \in Int /\ one[h] \in Int
    BY HistoryPoints DEF Points
  <1>3. Weighted(H) = Total([h \in H |-> h.price * (Until(h, H) - h.time)], H)
    BY <1>2, WeightedIsTotal
  <1>4. TotalWeight(H) = Total(u, H)
    BY <1>2, TotalWeightIsTotal
  <1>5. MapThenSumSet(LAMBDA t : InForce(s, t).price, C)
          = Total([t \in C |-> InForce(s, t).price], C)
    BY <1>1, InForceIsTotal
  <1>6. [h \in H |-> h.price * (Until(h, H) - h.time)] = byPrice
    BY <1>1
  <1>7. [t \in C |-> InForce(s, t).price] = ofPrice
    BY <1>1
  <1>8. u = byOne
    BY <1>1
  <1>9. /\ \A t \in C : ofOne[t] = 1
    BY <1>1
  <1>10. Total(ofOne, C) = Cardinality(C)
    <2>. HIDE DEF ofOne
    <2>. QED
      BY <1>1, <1>9, TotalOfOnes
  <1>. HIDE DEF C, H, g, u, w, one
  <1>11. Total(ofPrice, C) = Total(byPrice, H)
    BY <1>1, <1>2, TotalByClass
  <1>12. Total(ofOne, C) = Total(byOne, H)
    BY <1>1, <1>2, TotalByClass
  <1>13. Weighted(H) = MapThenSumSet(LAMBDA t : InForce(s, t).price, C)
    BY <1>3, <1>5, <1>6, <1>7, <1>11
  <1>14. TotalWeight(H) = Cardinality(C)
    BY <1>4, <1>8, <1>10, <1>12
  <1>. QED
    BY <1>13, <1>14 DEF C, H

\* The time-weighted average of calculateTWAP is the average over every instant
\* of the window of the price in force at it, for every source.
THEOREM AverageOverTime == Spec => []TwapIsAverage
  <1>1. OracleInv => TwapIsAverage
    <2>. SUFFICES ASSUME Store, NEW s \in Sources, Covered(s) # {}
                  PROVE  Twap(s) = (Scale * MapThenSumSet(LAMBDA t : InForce(s, t).price,
                                                          Covered(s)))
                                       \div Cardinality(Covered(s))
      BY DEF OracleInv, TwapIsAverage, Covered
    <2>1. Cardinality(Covered(s)) # 0
      BY PointsAt, FS_EmptySet
    <2>. QED
      BY <2>1, WeightsCount DEF Twap
  <1>. QED
    BY <1>1, OracleInvariant, PTL
=============================================================================
