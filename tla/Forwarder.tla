----------------------------- MODULE Forwarder -----------------------------
(***************************************************************************)
(* The bridge relayer's forwarder: two intake lanes turn what arrives on   *)
(* the Cosmos Hub and on Polygon into USDC on Noble, and send that on to   *)
(* the buyback wallet.  A lane is a phase machine saved to state.json; the *)
(* main loop ticks the lanes one after the other and a tick runs until its *)
(* lane has to wait or an error is thrown.                                 *)
(*                                                                         *)
(* Between the effect of a transaction and the save() behind it lies an    *)
(* await: the process may die there, or the answer may be an error for a   *)
(* transaction that was accepted.  Coins are counted in one unit on every  *)
(* chain.                                                                  *)
(***************************************************************************)
EXTENDS Integers

CONSTANTS
    Lanes,       \* of "atom" and "pol"
    Txs,         \* [Lanes -> transactions of leg 1, Polygon may need several]
    Fundings,    \* amounts of coins that reach a source at a time
    Reserve,     \* RESERVE_ATOM, RESERVE_POL
    MinStart,    \* MIN_ATOM, MIN_POL
    Fee,         \* of a registration, FWD_FEE
    Tries,       \* attempts of leg 2 in one tick (5)
    MaxFundings, \* bound: arrivals of coins per lane
    MaxFaults,   \* bound: requests that fail without effect
    MaxPolls,    \* bound: polls that fail after an accepted transfer
    MaxMisreads, \* bound: answers without balances, read as a balance of 0
    MaxFalse,    \* bound: accepted transactions reported as errors
    MaxCrashes,  \* bound: restarts
    MaxFees      \* bound: registrations

ASSUME ForwarderAssumption ==
    /\ Lanes \subseteq {"atom", "pol"} /\ Lanes # {}
    /\ Txs \in [Lanes -> Nat \ {0}]
    /\ Fundings \subseteq Nat /\ Reserve \in Nat /\ MinStart \in Nat \ {0} /\ Fee \in Nat
    /\ Tries \in Nat \ {0}
    /\ MaxFundings \in Nat /\ MaxFaults \in Nat /\ MaxPolls \in Nat
    /\ MaxMisreads \in Nat /\ MaxFalse \in Nat /\ MaxCrashes \in Nat /\ MaxFees \in Nat

VARIABLES
    mem,       \* state.atom and state.pol in memory
    disk,      \* the same in state.json
    turn,      \* the lane whose tick runs, or "fwd"
    at,        \* "tick", or "sent" while an accepted transaction is awaited
    tries,     \* failed attempts of leg 2 in this tick
    source,    \* balances of the Hub address and the hot account
    midway,    \* coins between the transactions of a leg 1
    flight,    \* coins on their way to Noble
    noble,     \* balance of NOBLE_ADDR
    onward,    \* coins on their way to the buyback wallet
    wallet,    \* balance of the buyback wallet
    sent,      \* uusdc accepted by leg 2 of a lane, ever
    accepted,  \* transactions accepted for the cycle of a lane
    history,   \* uusdc of the lane's entries in state.history, ever
    budget     \* what is left of the bounds

chains == <<source, midway, flight, noble, onward, wallet, sent, accepted>>
vars == <<mem, disk, turn, at, tries, chains, history, budget>>

NoCycle == [phase |-> "idle", amount |-> 0, left |-> 0, before |-> 0, expect |-> 0, arrived |-> 0]

Following(l) == CASE l = "atom" -> "pol" [] l = "pol" -> "fwd" [] l = "fwd" -> "atom"

Init ==
    /\ mem = [l \in Lanes |-> NoCycle] /\ disk = mem
    /\ turn = "atom" /\ at = "tick" /\ tries = 0
    /\ source = [l \in Lanes |-> 0] /\ midway = source /\ flight = source
    /\ noble = 0 /\ onward = 0 /\ wallet = 0
    /\ sent = source /\ accepted = source /\ history = source
    /\ budget = [fundings |-> [l \in Lanes |-> MaxFundings], faults |-> MaxFaults,
                 polls |-> MaxPolls, misreads |-> MaxMisreads, false |-> MaxFalse, crashes |-> MaxCrashes, fees |-> MaxFees]

\* An assignment to the lane and save().
Save(l, cycle) ==
    /\ mem' = [mem EXCEPT ![l] = cycle]
    /\ disk' = mem'

\* The tick returns or throws.
EndTick(l) ==
    /\ turn' = Following(l)
    /\ at' = "tick" /\ tries' = 0

InTick(l, phase) == turn = l /\ l \in Lanes /\ at = "tick" /\ mem[l].phase = phase

-----------------------------------------------------------------------------
(* The steps of a tick *)

Spendable(l) == source[l] - Reserve

Start(l) ==
    /\ InTick(l, "idle")
    /\ IF Spendable(l) < MinStart THEN EndTick(l) /\ UNCHANGED <<mem, disk>>
       ELSE /\ Save(l, [NoCycle EXCEPT !.phase = "route", !.amount = Spendable(l)])
            /\ UNCHANGED <<turn, at, tries>>
    /\ UNCHANGED <<chains, history, budget>>

\* The quote sets what the lane waits for, where the router gives one.
Route(l) ==
    /\ InTick(l, "route")
    /\ \E expect \in {1, (mem[l].amount * 90) \div 100} :
          LET Routed(before) == [mem[l] EXCEPT !.phase = "leg1", !.left = Txs[l],
                                               !.before = before, !.expect = expect]
          IN  \/ Save(l, Routed(noble)) /\ UNCHANGED budget
              \/ /\ budget.misreads > 0
                 /\ budget' = [budget EXCEPT !.misreads = @ - 1]
                 /\ Save(l, Routed(0))
    /\ UNCHANGED <<turn, at, tries, chains, history>>

\* A request before the next transaction fails, and the error ends the tick:
\* within the loop of leg 2 there is none.
Fault(l) ==
    /\ turn = l /\ l \in Lanes /\ at = "tick" /\ tries = 0
    /\ budget.faults > 0
    /\ budget' = [budget EXCEPT !.faults = @ - 1]
    /\ EndTick(l)
    /\ UNCHANGED <<mem, disk, chains, history>>

\* The first transaction takes the amount from the source, the last one
\* sends it to Noble.
FirstTx(l) == mem[l].left = Txs[l]
LastTx(l) == mem[l].left = 1
Affordable(l) == mem[l].amount <= IF FirstTx(l) THEN source[l] ELSE midway[l]

Broadcast(l) ==
    /\ InTick(l, "leg1")
    /\ Affordable(l)
    /\ at' = "sent"
    /\ source' = [source EXCEPT ![l] = IF FirstTx(l) THEN @ - mem[l].amount ELSE @]
    /\ midway' = [midway EXCEPT ![l] = @ + (IF LastTx(l) THEN 0 ELSE mem[l].amount)
                                         - (IF FirstTx(l) THEN 0 ELSE mem[l].amount)]
    /\ flight' = [flight EXCEPT ![l] = IF LastTx(l) THEN @ + mem[l].amount ELSE @]
    /\ accepted' = [accepted EXCEPT ![l] = @ + 1]
    /\ UNCHANGED <<mem, disk, turn, tries, noble, onward, wallet, sent, history, budget>>

\* Without the balance the chain rejects it.
Reject(l) ==
    /\ InTick(l, "leg1")
    /\ ~Affordable(l)
    /\ EndTick(l)
    /\ UNCHANGED <<mem, disk, chains, history, budget>>

\* Variant: the confirmed transaction stays in pending_txs.
AfterTxKept(l) ==
    IF LastTx(l) THEN [mem[l] EXCEPT !.phase = "await"] ELSE mem[l]

\* The transaction is confirmed, and the next one due or the lane waits.
AfterTx(l) ==
    IF LastTx(l) THEN [mem[l] EXCEPT !.phase = "await", !.left = 0]
    ELSE [mem[l] EXCEPT !.left = @ - 1]

Confirm(l) ==
    /\ turn = l /\ at = "sent" /\ mem[l].phase = "leg1"
    /\ Save(l, AfterTx(l))
    /\ at' = "tick"
    /\ UNCHANGED <<turn, tries, chains, history, budget>>

\* An accepted transaction of leg 1 is reported as an error.
Lost(l) ==
    /\ turn = l /\ at = "sent" /\ mem[l].phase = "leg1"
    /\ budget.false > 0
    /\ budget' = [budget EXCEPT !.false = @ - 1]
    /\ EndTick(l)
    /\ UNCHANGED <<mem, disk, chains, history>>

\* The growth of the balance since the route was asked for.
Arrived(l) == noble - mem[l].before
Enough(l) == Arrived(l) >= mem[l].expect

AwaitNoble(l) ==
    /\ InTick(l, "await")
    /\ IF Enough(l)
       THEN /\ Save(l, [mem[l] EXCEPT !.phase = "leg2", !.arrived = Arrived(l)])
            /\ UNCHANGED <<turn, at, tries>>
       ELSE EndTick(l) /\ UNCHANGED <<mem, disk>>
    /\ UNCHANGED <<chains, history, budget>>

\* The Hermes command sends the amount that arrived.
HermesTransfer(l) ==
    /\ InTick(l, "leg2")
    /\ mem[l].arrived <= noble
    /\ noble' = noble - mem[l].arrived
    /\ onward' = onward + mem[l].arrived
    /\ sent' = [sent EXCEPT ![l] = @ + mem[l].arrived]
    /\ accepted' = [accepted EXCEPT ![l] = @ + 1]
    /\ at' = "sent"
    /\ UNCHANGED <<mem, disk, turn, tries, source, midway, flight, wallet, history, budget>>

\* Variant: the error of the last attempt is not thrown.
AttemptSwallowed(l) ==
    IF tries + 1 < Tries
    THEN tries' = tries + 1 /\ at' = "tick" /\ UNCHANGED turn
    ELSE tries' = 0 /\ at' = "sent" /\ UNCHANGED turn

\* The loop tries again, and throws what the last attempt threw.
AttemptFailed(l) ==
    IF tries + 1 < Tries
    THEN tries' = tries + 1 /\ at' = "tick" /\ UNCHANGED turn
    ELSE EndTick(l)

HermesFails(l) ==
    /\ InTick(l, "leg2")
    /\ \/ mem[l].arrived > noble /\ UNCHANGED budget
       \/ budget.faults > 0 /\ budget' = [budget EXCEPT !.faults = @ - 1]
    /\ AttemptFailed(l)
    /\ UNCHANGED <<mem, disk, chains, history>>

HermesLost(l) ==
    /\ turn = l /\ at = "sent" /\ mem[l].phase = "leg2"
    /\ budget.false > 0
    /\ budget' = [budget EXCEPT !.false = @ - 1]
    /\ AttemptFailed(l)
    /\ UNCHANGED <<mem, disk, chains, history>>

\* The balance of the wallet is polled for a while, and the cycle complete
\* whether it grew or not.
Complete(l) ==
    /\ turn = l /\ at = "sent" /\ mem[l].phase = "leg2"
    /\ history' = [history EXCEPT ![l] = @ + mem[l].arrived]
    /\ accepted' = [accepted EXCEPT ![l] = 0]
    /\ Save(l, NoCycle)
    /\ EndTick(l)
    /\ UNCHANGED <<source, midway, flight, noble, onward, wallet, sent, budget>>

\* A poll fails: no try stands around it, the lane stays in leg 2.
PollFails(l) ==
    /\ turn = l /\ at = "sent" /\ mem[l].phase = "leg2"
    /\ budget.polls > 0
    /\ budget' = [budget EXCEPT !.polls = @ - 1]
    /\ EndTick(l)
    /\ UNCHANGED <<mem, disk, chains, history>>

\* A lane that is not configured, and fwdPendingTick without a deposit.
PassTurn ==
    /\ turn \notin Lanes
    /\ turn' = Following(turn)
    /\ UNCHANGED <<mem, disk, at, tries, chains, history, budget>>

\* fwdPendingTick registers a forwarding account, paid from NOBLE_ADDR.
RegisterForwarding ==
    /\ turn = "fwd"
    /\ budget.fees > 0 /\ Fee <= noble
    /\ budget' = [budget EXCEPT !.fees = @ - 1]
    /\ noble' = noble - Fee
    /\ turn' = Following(turn)
    /\ UNCHANGED <<mem, disk, at, tries, source, midway, flight, onward, wallet, sent, accepted, history>>

Tick ==
    \/ \E l \in Lanes :
          \/ Start(l) \/ Route(l) \/ Fault(l)
          \/ Broadcast(l) \/ Reject(l) \/ Confirm(l) \/ Lost(l)
          \/ AwaitNoble(l)
          \/ HermesTransfer(l) \/ HermesFails(l) \/ HermesLost(l) \/ Complete(l)
          \/ PollFails(l)
    \/ PassTurn
    \/ RegisterForwarding

-----------------------------------------------------------------------------
(* The chains, and the process *)

Fund(l) ==
    /\ budget.fundings[l] > 0
    /\ budget' = [budget EXCEPT !.fundings[l] = @ - 1]
    /\ \E amount \in Fundings : source' = [source EXCEPT ![l] = @ + amount]
    /\ UNCHANGED <<mem, disk, turn, at, tries, midway, flight, noble, onward, wallet, sent, accepted, history>>

ArriveNoble(l) ==
    /\ flight[l] > 0
    /\ noble' = noble + flight[l]
    /\ flight' = [flight EXCEPT ![l] = 0]
    /\ UNCHANGED <<mem, disk, turn, at, tries, source, midway, onward, wallet, sent, accepted, history, budget>>

ArriveWallet ==
    /\ onward > 0
    /\ wallet' = wallet + onward
    /\ onward' = 0
    /\ UNCHANGED <<mem, disk, turn, at, tries, source, midway, flight, noble, sent, accepted, history, budget>>

Restart ==
    /\ budget.crashes > 0
    /\ budget' = [budget EXCEPT !.crashes = @ - 1]
    /\ mem' = disk
    /\ turn' = "atom" /\ at' = "tick" /\ tries' = 0
    /\ UNCHANGED <<disk, chains, history>>

Arrivals == ArriveWallet \/ \E l \in Lanes : ArriveNoble(l)

Next ==
    \/ Tick
    \/ Arrivals
    \/ Restart
    \/ \E l \in Lanes : Fund(l)

Spec == Init /\ [][Next]_vars

\* The main loop goes on, and transfers arrive.
FairSpec == Spec /\ WF_vars(Tick) /\ WF_vars(Arrivals)

-----------------------------------------------------------------------------
(* Properties *)

CycleType == [phase : {"idle", "route", "leg1", "await", "leg2"},
              amount : Nat, left : Int, before : Nat, expect : Nat, arrived : Nat]

TypeOK ==
    /\ mem \in [Lanes -> CycleType] /\ disk \in [Lanes -> CycleType]
    /\ turn \in {"atom", "pol", "fwd"} /\ at \in {"tick", "sent"} /\ tries \in Nat
    /\ source \in [Lanes -> Int] /\ midway \in [Lanes -> Int] /\ flight \in [Lanes -> Nat]
    /\ noble \in Nat /\ onward \in Nat /\ wallet \in Nat
    /\ sent \in [Lanes -> Nat] /\ accepted \in [Lanes -> Nat] /\ history \in [Lanes -> Nat]

\* What the history says a lane delivered was accepted by Noble for delivery,
\* whatever crashes, false reports and retries came in between
\* (awaitNobleAndDeliver).
HistoryIsSent == \A l \in Lanes : history[l] <= sent[l]

\* Events so far after which the forwarder does not know what was accepted.
Unsure ==
    (MaxCrashes - budget.crashes) + (MaxFalse - budget.false) + (MaxPolls - budget.polls)

\* The transactions the lane's cycle has behind it by its phase: those of leg
\* 1 and, last, the one of leg 2.
Behind(l) ==
    (IF mem[l].phase = "leg1" THEN Txs[l] - mem[l].left
     ELSE IF mem[l].phase \in {"await", "leg2"} THEN Txs[l] ELSE 0)
    + (IF at = "sent" /\ turn = l THEN 1 ELSE 0)

\* No transaction of a cycle, of either leg, is passed over, and none is sent
\* twice but after a crash, a false report or a failed poll, each of which
\* explains one repetition.
SentOnce == \A l \in Lanes : Behind(l) <= accepted[l] /\ accepted[l] <= Behind(l) + Unsure

\* So far the forwarder knew what was accepted, and nothing else moved the
\* balance of NOBLE_ADDR or hid it.
Alone(l) ==
    /\ Unsure = 0 /\ budget.misreads = MaxMisreads /\ budget.fees = MaxFees
    /\ \A k \in Lanes \ {l} : mem[k].phase = "idle"

\* forwarder.mjs:3: the lanes are resumable: a cycle that was started ends.
CycleEnds == \A l \in Lanes : mem[l].phase # "idle" ~> mem[l].phase = "idle"

\* The same of a lane whose coins on Noble nobody else counts or takes and
\* whose reports are right, from the start on.  Requests may fail, but for the
\* polls after an accepted transfer.
CycleEndsAlone ==
    \A l \in Lanes : [](Alone(l)) => (mem[l].phase # "idle" ~> mem[l].phase = "idle")
=============================================================================
