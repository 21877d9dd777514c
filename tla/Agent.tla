------------------------------- MODULE Agent -------------------------------
(***************************************************************************)
(* The payout step of the provider agent, where the value is the USDC that *)
(* the forwarder delivers to the buyback wallet (USDT_SOURCE "ibc").  A    *)
(* step credits what is new, pays 88% of it to the hosts by swaps that     *)
(* wait above a dust floor, sweeps the rest to the market source, redeems  *)
(* the DEX fee, flushes the pots of stakers, treasury and burn, and saves  *)
(* its state last.  Swaps and transfers go over RPC: they may not be sent, *)
(* may be carried out and reported as errors, or be counted though they    *)
(* are not carried out.                                                    *)
(*                                                                         *)
(* One ABA costs one USDC, and the addresses with shares have equal ones.  *)
(***************************************************************************)
EXTENDS Integers, FiniteSetsExt

CONSTANTS
    Providers,   \* addresses that may have shares
    Pots,        \* of "stakers", "treasury" and "burn", those modelled
    Inflows,     \* amounts the forwarder delivers
    Fees,        \* amounts of DEX fee that accrue as LP shares
    MinSwap,     \* MIN_SWAP_USDT
    FlushMin,    \* FLUSH_MIN
    FlushEvery,  \* FLUSH_EVERY
    Faults,      \* kinds of faults, of those below
    AnyTime,     \* coins arrive while a step runs, too
    MaxInflows,  \* bound: deliveries
    MaxFees,     \* bound: accruals of fees
    MaxFaults    \* bound: faults

FaultKinds ==
    {"unread",  \* a balance cannot be read
     "thrown",  \* a transaction is not sent
     "landed",  \* it is carried out, but its answer is an error
     "unmined", \* its receipt does not come in time, and it is not carried out
     "failed",  \* a transfer is committed with a code other than 0, or never
     "crash",   \* the process starts again
     "torn"}    \* it dies while state.json is written

ASSUME AgentAssumption ==
    /\ IsFiniteSet(Providers)
    /\ Pots \subseteq {"stakers", "treasury", "burn"}
    /\ Inflows \subseteq Nat /\ Fees \subseteq Nat
    /\ MinSwap \in Nat \ {0} /\ FlushMin \in Nat \ {0}
    /\ FlushEvery \in Nat \ {0}
    /\ Faults \subseteq FaultKinds /\ AnyTime \in BOOLEAN
    /\ MaxInflows \in Nat /\ MaxFees \in Nat /\ MaxFaults \in Nat

VARIABLES
    mem,      \* epoch, ibc_watch, pending_host_usdt, pending, totals in memory,
              \* and what had arrived at the last credit
    disk,     \* the same in state.json
    stage,    \* where the step is
    due,      \* slices of the epoch's value still to be paid
    todo,     \* pots still to be flushed
    round,    \* the epoch has an attribution
    wallet,   \* USDC of the buyback wallet
    lp,       \* USDC leg of the fee's LP shares
    arrived,  \* USDC delivered or redeemed, ever
    inflows, fees, faults

coins == <<wallet, lp, arrived>>
agentBounds == <<inflows, fees, faults>>
agentVars == <<mem, disk, stage, due, todo, round, coins, agentBounds>>

NoState ==
    [epoch |-> 0, credited |-> 0, swapped |-> 0, seen |-> 0,
     owed |-> [p \in Providers |-> 0], pots |-> [q \in Pots |-> 0], totals |-> [q \in Pots |-> 0]]

NothingDue == [p \in {} |-> 0]

AgentInit ==
    /\ mem = NoState /\ disk = NoState
    /\ stage = "credit" /\ due = NothingDue /\ todo = {} /\ round = FALSE
    /\ wallet = 0 /\ lp = 0
    /\ arrived = 0
    /\ inflows = 0 /\ fees = 0 /\ faults = 0

SumOf(f) == MapThenSumSet(LAMBDA x : f[x], DOMAIN f)

\* A fault of a kind happens; "none" is no fault.
Happens(kind) ==
    \/ kind = "none" /\ UNCHANGED faults
    \/ kind \in Faults /\ faults < MaxFaults /\ faults' = faults + 1

-----------------------------------------------------------------------------
(* Swaps *)

\* The amount is capped to the balance, and not swapped below the floor.
Spend(amount, balance) ==
    LET spend == IF amount < balance THEN amount ELSE balance
    IN  IF spend < MinSwap THEN 0 ELSE spend

SwapFaults == {"none", "unread", "thrown", "landed", "unmined"}

\* Variant: a swap that was not sent is counted as spent.
SwappedAnyway(amount, balance, kind) ==
    LET spend == Spend(amount, balance)
    IN  [gone |-> IF kind \in {"none", "landed"} THEN spend ELSE 0,
         spent |-> spend, returned |-> TRUE]

\* What leaves the wallet, what buyback_swap returns as spent, and whether
\* it returns at all.
Swapped(amount, balance, kind) ==
    LET spend == IF kind = "unread" THEN 0 ELSE Spend(amount, balance)
    IN  [gone     |-> IF kind \in {"none", "landed"} THEN spend ELSE 0,
         spent    |-> spend,
         returned |-> kind \notin {"thrown", "landed"}]

-----------------------------------------------------------------------------
(* The step *)

\* cumulative6: the live balance and what was swapped out of it.
Cumulative == wallet + mem.swapped

\* Variant: the standing balance is new every time.
NewStanding == wallet

New == IF Cumulative > mem.credited THEN Cumulative - mem.credited ELSE 0

NextEpoch == (mem.epoch + 1) % FlushEvery

\* The new value is divided among the addresses with shares; what nobody has
\* shares for is credited all the same.
Credit(active) ==
    /\ stage = "credit"
    /\ mem' = [mem EXCEPT !.epoch = NextEpoch, !.credited = Cumulative, !.seen = arrived]
    /\ due' = IF New > 0 THEN [p \in active |-> New \div Cardinality(active)] ELSE NothingDue
    /\ round' = (New > 0 /\ active # {})
    /\ stage' = "pay"
    /\ UNCHANGED <<disk, todo, wallet, lp, arrived, agentBounds>>

\* The balance cannot be read: the epoch has no value.
NoCredit ==
    /\ stage = "credit"
    /\ Happens("unread")
    /\ mem' = [mem EXCEPT !.epoch = NextEpoch]
    /\ round' = FALSE /\ stage' = "pay"
    /\ UNCHANGED <<disk, due, todo, coins, inflows, fees>>

Host(slice) == (slice * 88) \div 100
Cut(slice) == (slice * 4) \div 100

\* int() rounds the shares of hosts, stakers and burn, the treasury has the rest.
Split(slice) ==
    [q \in Pots |-> IF q = "treasury" THEN slice - Host(slice) - 2 * Cut(slice) ELSE Cut(slice)]

Added(pots, more) == [q \in Pots |-> pots[q] + more[q]]

\* pay_provider: an exception leaves both the host's and the pots' part out.
Pay(p, kind) ==
    LET slice == due[p]
        pend == mem.owed[p] + Host(slice)
        swap == Swapped(pend, wallet, kind)
    IN  /\ stage = "pay" /\ p \in DOMAIN due
        /\ Happens(kind)
        /\ due' = [x \in DOMAIN due \ {p} |-> due[x]]
        /\ IF Host(slice) = 0 THEN UNCHANGED <<mem, wallet>>
           ELSE /\ wallet' = wallet - swap.gone
                /\ mem' = IF swap.returned
                          THEN [mem EXCEPT !.owed[p] = pend - swap.spent,
                                           !.swapped = @ + swap.spent,
                                           !.pots = Added(@, Split(slice))]
                          ELSE mem
        /\ UNCHANGED <<disk, stage, todo, round, lp, arrived, inflows, fees>>

Reserved == SumOf(mem.owed)

\* The rest, but for what the hosts are owed, goes to the market source.
Sweep(kind) ==
    LET swap == Swapped(wallet - Reserved, wallet, kind)
    IN  /\ stage = "pay" /\ due = NothingDue
        /\ IF round
           THEN /\ Happens(kind)
                /\ wallet' = wallet - swap.gone
                /\ mem' = IF swap.returned THEN [mem EXCEPT !.swapped = @ + swap.spent] ELSE mem
           ELSE kind = "none" /\ UNCHANGED <<mem, wallet, faults>>
        /\ stage' = "fee"
        /\ UNCHANGED <<disk, due, todo, round, lp, arrived, inflows, fees>>

\* dex_fee_tick redeems the LP shares and swaps all the wallet then holds.
\* The ABA leg is worth the USDC leg.
Redeemed(kind) ==
    LET swap == Swapped(wallet + lp, wallet + lp, kind)
        third == (lp + swap.gone) \div 3
    IN  /\ wallet' = wallet + lp - swap.gone
        /\ lp' = 0
        /\ arrived' = arrived + lp
        /\ mem' = IF swap.returned
                  THEN [mem EXCEPT !.pots = Added(@, [q \in Pots |-> third])] ELSE mem

\* It may fail before anything is redeemed.
FeeTick(kind) ==
    /\ stage = "fee"
    /\ \/ lp >= MinSwap /\ Happens(kind) /\ Redeemed(kind)
       \/ /\ IF lp >= MinSwap THEN kind \in {"unread", "thrown"} /\ Happens(kind)
             ELSE kind = "none" /\ UNCHANGED faults
          /\ UNCHANGED <<mem, wallet, lp, arrived>>
    /\ stage' = "flush" /\ todo' = IF mem.epoch = 0 THEN Pots ELSE {}
    /\ UNCHANGED <<disk, due, round, inflows, fees>>

\* Variant: a pot is flushed above the floor only.
DueAbove(pot) == pot > FlushMin + 1

\* The dust floor of a pot.
Due(pot) == pot >= FlushMin

\* A transfer that is committed, with whatever code, or awaited in vain
\* empties the pot and adds to the totals.
Flush(q, kind) ==
    LET pot == mem.pots[q]
    IN  /\ stage = "flush" /\ q \in todo
        /\ todo' = todo \ {q}
        /\ IF Due(pot)
           THEN /\ Happens(kind)
                /\ mem' = IF kind \in {"none", "failed"}
                          THEN [mem EXCEPT !.pots[q] = 0, !.totals[q] = @ + pot] ELSE mem
           ELSE kind = "none" /\ UNCHANGED <<mem, faults>>
        /\ UNCHANGED <<disk, stage, due, round, wallet, lp, arrived, inflows, fees>>

\* save_state, unless the read of a balance before it throws, and the next
\* epoch.
SaveState(kind) ==
    /\ stage = "flush" /\ todo = {}
    /\ Happens(kind)
    /\ disk' = IF kind = "none" THEN mem ELSE disk
    /\ stage' = "credit"
    /\ UNCHANGED <<mem, due, todo, round, coins, inflows, fees>>

Step ==
    \/ NoCredit
    \/ \E active \in SUBSET Providers : Credit(active)
    \/ \E p \in Providers, kind \in SwapFaults : Pay(p, kind)
    \/ \E kind \in SwapFaults : Sweep(kind) \/ FeeTick(kind)
    \/ \E q \in Pots, kind \in {"none", "thrown", "landed", "failed"} : Flush(q, kind)
    \/ \E kind \in {"none", "unread"} : SaveState(kind)

-----------------------------------------------------------------------------
(* The chains, and the process *)

Deliver ==
    /\ inflows < MaxInflows /\ inflows' = inflows + 1
    /\ AnyTime \/ stage = "credit"
    /\ \E amount \in Inflows :
          /\ wallet' = wallet + amount
          /\ arrived' = arrived + amount
    /\ UNCHANGED <<mem, disk, stage, due, todo, round, lp, fees, faults>>

AccrueFee ==
    /\ fees < MaxFees /\ fees' = fees + 1
    /\ \E amount \in Fees : lp' = lp + amount
    /\ UNCHANGED <<mem, disk, stage, due, todo, round, wallet, arrived,
                   inflows, faults>>

\* load_state; a file that cannot be parsed leaves the defaults.
Restart(kind) ==
    /\ Happens(kind)
    /\ kind = "torn" => stage = "flush" /\ todo = {}
    /\ disk' = IF kind = "torn" THEN NoState ELSE disk
    /\ mem' = disk'
    /\ stage' = "credit" /\ due' = NothingDue /\ todo' = {} /\ round' = FALSE
    /\ UNCHANGED <<coins, inflows, fees>>

AgentNext ==
    \/ Step
    \/ Deliver \/ AccrueFee
    \/ \E kind \in {"crash", "torn"} : Restart(kind)

AgentSpec == AgentInit /\ [][AgentNext]_agentVars

\* epoch_loop goes on, and what RPC it asks answers or fails in time.
FairAgentSpec == AgentSpec /\ WF_agentVars(Step)

-----------------------------------------------------------------------------
(* Properties *)

AgentTypeOK ==
    /\ stage \in {"credit", "pay", "fee", "flush"} /\ round \in BOOLEAN
    /\ DOMAIN due \subseteq Providers /\ todo \subseteq Pots
    /\ \A s \in {mem, disk} :
          /\ s.epoch \in 0..(FlushEvery - 1)
          /\ s.credited \in Nat /\ s.swapped \in Nat /\ s.seen \in Nat
          /\ s.owed \in [Providers -> Nat]
          /\ s.pots \in [Pots -> Nat] /\ s.totals \in [Pots -> Nat]
    /\ wallet \in Nat /\ lp \in Nat /\ arrived \in Nat 

\* agent.py:135: "only genuinely new USDC is ever distributed": what a step
\* finds to be new came since the last one that is known to it looked,
\* whatever of the state a crash sets back.
OnlyNew == stage = "credit" => New <= arrived - mem.seen

\* What was credited arrived, whatever of the state a crash sets back.
CreditedArrived == mem.credited <= arrived /\ Cumulative <= arrived

\* agent.py:1021: "Host shares still below the swap dust floor stay reserved
\* in the wallet".
ReservedCovered == stage = "credit" => SumOf(mem.owed) <= wallet

\* A pot above the dust floor is flushed.
PotsFlushed == \A q \in Pots : mem.pots[q] >= FlushMin ~> mem.pots[q] < FlushMin
=============================================================================
