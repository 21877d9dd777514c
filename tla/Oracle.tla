------------------------------- MODULE Oracle -------------------------------
(***************************************************************************)
(* x/oracle for the pair akt/usd, with the ticks of x/epochs that prune    *)
(* it.  Sources add prices with timestamps of their own; the end of every  *)
(* block aggregates the fresh ones into a time-weighted average and        *)
(* decides whether the price is healthy, which x/bme and x/escrow ask.     *)
(*                                                                         *)
(* A block is BeginBlocker, any number of messages, and EndBlocker.        *)
(***************************************************************************)
EXTENDS Integers, FiniteSetsExt

CONSTANTS
    Sources,        \* source ids: numbers, in the order of sourceSequence
    InitialSources, \* params.Sources at genesis
    ParamSets,      \* the values of params.Sources governance chooses from
    Prices,         \* usd per akt
    Offsets,        \* a message's timestamp, relative to the block's
    BlockTimes,     \* time from one block to the next
    MinPriceSources, MaxStaleness, MaxDeviationBps, TwapWindow,
    PriceRetention, MaxPrune,       \* params
    FirstWindow,    \* how old the first price of a source may be (12 s)
    EpochDuration,  \* of the epoch params.PruneEpoch names
    MaxTime,        \* bound: the last block's time
    MaxEntries      \* bound: price records stored at a time

ASSUME OracleAssumption ==
    /\ Sources \subseteq Nat /\ IsFiniteSet(Sources) /\ InitialSources \subseteq Sources
    /\ ParamSets \subseteq SUBSET Sources
    /\ Prices \subseteq Nat \ {0} /\ Offsets \subseteq Int /\ BlockTimes \subseteq Nat \ {0}
    /\ MinPriceSources \in Nat \ {0} /\ MaxStaleness \in Nat \ {0} /\ MaxDeviationBps \in Nat \ {0}
    /\ TwapWindow \in Nat \ {0} /\ PriceRetention \in Nat /\ TwapWindow <= PriceRetention
    /\ MaxPrune \in Nat /\ FirstWindow \in Nat
    /\ EpochDuration \in Nat \ {0} /\ MaxTime \in Nat /\ MaxEntries \in Nat

VARIABLES
    phase,      \* "txs" or "ended"
    now,        \* block time
    sources,    \* params.Sources
    latest,     \* latestPriceID: [Sources -> key of a record or None]
    prices,     \* price records: source, time, seq, price
    nextSeq,    \* pricesSequence, in the transient store
    healthy,    \* pricesHealth, FALSE when there is none
    aggregated, \* aggregatedPrices: the TWAP and when it was computed
    epoch       \* EpochInfo: counting, number, start

vars == <<phase, now, sources, latest, prices, nextSeq, healthy, aggregated, epoch>>

None == [time |-> -1000, seq |-> -1]
Scale == 12     \* of the TWAP's decimals

Init ==
    /\ phase = "txs" /\ now = 0
    /\ sources = InitialSources
    /\ latest = [s \in Sources |-> None]
    /\ prices = {} /\ nextSeq = 0
    /\ healthy = FALSE
    /\ aggregated = [twap |-> 0, time |-> -1]
    /\ epoch = [counting |-> FALSE, number |-> 0, start |-> 0]

-----------------------------------------------------------------------------
(* Messages *)

\* Prices of a source have timestamps in order; the first one is recent.
AddPriceEntry(s, p, t) ==
    /\ phase = "txs"
    /\ s \in sources
    /\ IF latest[s] = None THEN now - FirstWindow <= t ELSE latest[s].time <= t
    /\ Cardinality(prices) < MaxEntries
    /\ LET entry == [source |-> s, time |-> t, seq |-> nextSeq, price |-> p]
       IN  prices' = {q \in prices : <<q.source, q.time, q.seq>> # <<s, t, nextSeq>>}
                        \cup {entry}
    /\ latest' = [latest EXCEPT ![s] = [time |-> t, seq |-> nextSeq]]
    /\ nextSeq' = nextSeq + 1
    /\ UNCHANGED <<phase, now, sources, healthy, aggregated, epoch>>

\* A source that is removed loses its latest price, and keeps its records.
SetParams(S) ==
    /\ phase = "txs"
    /\ sources' = S
    /\ latest' = [s \in Sources |-> IF s \in sources \ S THEN None ELSE latest[s]]
    /\ UNCHANGED <<phase, now, prices, nextSeq, healthy, aggregated, epoch>>

-----------------------------------------------------------------------------
(* BeginBlocker of x/epochs *)

\* Variant: what is about to become stale is pruned.
CutoffOfStaleness(t) == t - MaxStaleness

\* AfterEpochEnd of x/oracle: what is older goes.
Cutoff(t) == t - PriceRetention

\* prunePrices goes through the sources that have a latest price, each from
\* its oldest record on, until it has deleted as many as it may.
Prunable(t) == {p \in prices : latest[p.source] # None /\ p.time <= Cutoff(t)}

Earlier(p, q) ==
    \/ p.source < q.source
    \/ p.source = q.source /\ p.time < q.time
    \/ p.source = q.source /\ p.time = q.time /\ p.seq < q.seq

Pruned(t) ==
    {p \in Prunable(t) : Cardinality({q \in Prunable(t) : Earlier(q, p)}) < MaxPrune}

EpochEnds(t) == epoch.counting /\ t > epoch.start + EpochDuration

\* A chain that is late makes one tick per block.
Ticked(t) ==
    IF ~epoch.counting THEN [counting |-> TRUE, number |-> 1, start |-> 0]
    ELSE IF EpochEnds(t) THEN [epoch EXCEPT !.number = @ + 1, !.start = @ + EpochDuration]
    ELSE epoch

BeginBlocker(d) ==
    /\ phase = "ended"
    /\ now + d <= MaxTime
    /\ phase' = "txs"
    /\ now' = now + d
    /\ nextSeq' = 0
    /\ epoch' = Ticked(now + d)
    /\ prices' = IF EpochEnds(now + d) THEN prices \ Pruned(now + d) ELSE prices
    /\ UNCHANGED <<sources, latest, healthy, aggregated>>

-----------------------------------------------------------------------------
(* EndBlocker of x/oracle *)

Reporting == {s \in sources : latest[s] # None}
Fresh(s) == latest[s].time >= now - MaxStaleness
IsLatest(p) == [time |-> p.time, seq |-> p.seq] = latest[p.source]

\* latestPrices: the record of a fresh latest price may have been pruned.
LatestPrices == {p \in prices : p.source \in Reporting /\ Fresh(p.source) /\ IsLatest(p)}

Newer(p, q) == p.time > q.time \/ (p.time = q.time /\ p.seq > q.seq)
Of(s) == {p \in prices : p.source = s}

\* getTWAPHistory and getLastPriceBefore: the records of the window, and the
\* last one before it as if it had come when the window began.
InWindow(s) == {p \in Of(s) : p.time \in (now - TwapWindow)..now}
BeforeWindow(s) == {p \in Of(s) : p.time < now - TwapWindow}

\* Variant: the price at the beginning of the window keeps its own time.
BoundaryAsRecorded(s) ==
    {[p EXCEPT !.seq = -1] : p \in {q \in BeforeWindow(s) :
        \A r \in BeforeWindow(s) : ~Newer(r, q)}}

Boundary(s) ==
    {[p EXCEPT !.time = now - TwapWindow, !.seq = -1] : p \in {q \in BeforeWindow(s) :
        \A r \in BeforeWindow(s) : ~Newer(r, q)}}
History(s) == InWindow(s) \cup Boundary(s)

\* calculateTWAP: a price counts until the next newer one, the newest until now.
Until(p, H) ==
    IF \A q \in H : ~Newer(q, p) THEN now
    ELSE (CHOOSE q \in H : Newer(q, p) /\ \A r \in H : Newer(r, p) => ~Newer(q, r)).time

Weighted(H) == MapThenSumSet(LAMBDA p : p.price * (Until(p, H) - p.time), H)
TotalWeight(H) == MapThenSumSet(LAMBDA p : Until(p, H) - p.time, H)

Twap(s) ==
    LET H == History(s)
    IN  IF TotalWeight(H) = 0
        THEN (Scale * MapThenSumSet(LAMBDA p : p.price, H)) \div Cardinality(H)
        ELSE (Scale * Weighted(H)) \div TotalWeight(H)

\* The sources that have a TWAP; without one the aggregation fails.
Averaged == {s \in {p.source : p \in LatestPrices} : History(s) # {}}

\* Variant: every source that has reported counts, stale or not.
NumReporting == Cardinality(Reporting)

NumSources == IF Averaged = {} THEN 0 ELSE Cardinality(LatestPrices)

DeviationBps ==
    IF Averaged = {} THEN 0
    ELSE LET low == Min({p.price : p \in LatestPrices})
         IN  ((Max({p.price : p \in LatestPrices}) - low) * 10000) \div low

\* setPriceHealth.
IsHealthy == NumSources >= MinPriceSources /\ DeviationBps <= MaxDeviationBps

AggregateTwap == MapThenSumSet(Twap, Averaged) \div Cardinality(Averaged)

\* The pair is looked at only if some source has reported.
EndBlocker ==
    /\ phase = "txs"
    /\ phase' = "ended"
    /\ IF Reporting = {} THEN UNCHANGED <<healthy, aggregated>>
       ELSE /\ healthy' = IsHealthy
            /\ aggregated' = IF IsHealthy /\ LatestPrices # {}
                             THEN [twap |-> AggregateTwap, time |-> now] ELSE aggregated
    /\ UNCHANGED <<now, sources, latest, prices, nextSeq, epoch>>

Next ==
    \/ \E s \in Sources, p \in Prices, o \in Offsets : AddPriceEntry(s, p, now + o)
    \/ \E S \in ParamSets : SetParams(S)
    \/ EndBlocker
    \/ \E d \in BlockTimes : BeginBlocker(d)

Spec == Init /\ [][Next]_vars

-----------------------------------------------------------------------------
(* Properties *)

TypeOK ==
    /\ phase \in {"txs", "ended"} /\ now \in 0..MaxTime
    /\ sources \subseteq Sources
    /\ \A p \in prices : p.source \in Sources /\ p.time \in Int /\ p.seq \in Nat
    /\ nextSeq \in Nat /\ healthy \in BOOLEAN

\* The price a block hands out as healthy was computed in that block from
\* enough fresh sources: health and aggregated price do not drift apart
\* (EndBlocker, setPriceHealth) as long as some source has reported.
UsableIsCurrent ==
    phase = "ended" /\ healthy /\ Reporting # {} =>
        /\ aggregated.time = now
        /\ Cardinality({s \in Reporting : Fresh(s)}) >= MinPriceSources

\* Pruning never takes the record a fresh latest price refers to
\* (pruneSourcePrices against EndBlocker), if records are kept for longer
\* than they are fresh.
LatestKept ==
    PriceRetention > MaxStaleness =>
        \A s \in Reporting : Fresh(s) => \E p \in prices : p.source = s /\ IsLatest(p)

\* calculateTWAP against its definition: the average over every instant of the
\* window of the price in force at it, from the first one a price is known for.
InForce(s, t) ==
    CHOOSE p \in Of(s) : p.time <= t /\ \A q \in Of(s) : q.time <= t => ~Newer(q, p)

TwapIsAverage ==
    \A s \in Sources :
        LET covered == {t \in (now - TwapWindow)..(now - 1) : \E p \in Of(s) : p.time <= t}
        IN  covered # {} =>
              Twap(s) = (Scale * MapThenSumSet(LAMBDA t : InForce(s, t).price, covered))
                            \div Cardinality(covered)

\* The epochs of x/epochs lie on the grid of their duration, and none starts
\* before its time, however late the blocks are.
EpochOnGrid ==
    epoch.counting => /\ epoch.start = (epoch.number - 1) * EpochDuration
                      /\ epoch.start <= now

\* abci.go:18: the price halts when it has not been updated within the period.
\* When no source that reported is left, the stored health stays as it was.
HaltsWhenStale ==
    phase = "ended" /\ healthy => \E s \in Sources : latest[s] # None /\ Fresh(s)

\* keeper.go, calculateTWAP: "dataPoints[i-1] is newer than current".  Records
\* of one timestamp are ordered by a sequence that restarts with every block.
NewestIsLatest ==
    \A s \in Reporting : \A p \in Of(s) :
        IsLatest(p) => \A q \in Of(s) : ~Newer(q, p)
=============================================================================
