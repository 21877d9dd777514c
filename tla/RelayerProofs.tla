--------------------------- MODULE RelayerProofs ---------------------------
(***************************************************************************)
(* Proofs about the bridge relayer: its deposit accounts (Forwarding) and  *)
(* its forwarder (Forwarder).                                              *)
(***************************************************************************)
EXTENDS Forwarder, Forwarding, TLAPS

-----------------------------------------------------------------------------
(***************************************************************************)
(* The forwarder never records a delivery that Noble did not accept, for   *)
(* every number of transactions, attempts, crashes, false reports and      *)
(* amounts.                                                                *)
(*                                                                         *)
(* HistoryIsSent is not inductive: Complete adds the amount that arrived   *)
(* to the history.  AcceptedFirst says why it may: whenever a lane awaits  *)
(* the answer of leg 2, the amount is already among what was sent.  The    *)
(* record itself must not be negative, in memory and in state.json, which  *)
(* is part of the type.                                                    *)
(*                                                                         *)
(* And that no transaction of a cycle is passed over, nor sent twice but   *)
(* after a crash, a false report or a failed poll.  SentOnce becomes       *)
(* inductive with what ties the phase to the transactions behind it: leg 1 *)
(* has one left to confirm (LeftInRange), an answer is awaited in the two  *)
(* legs only, and a restart finds in the file what memory held.            *)
(***************************************************************************)

\* An answer is awaited by a lane of the running tick only, and the amount
\* of an awaited delivery has been sent on top of the history.
AcceptedFirst ==
    at = "sent" =>
        /\ turn \in Lanes
        /\ mem[turn].phase \in {"leg1", "leg2"}
        /\ mem[turn].phase = "leg2" => history[turn] + mem[turn].arrived <= sent[turn]

IInv == TypeOK /\ HistoryIsSent /\ AcceptedFirst

-----------------------------------------------------------------------------

\* Saving a cycle of the type keeps memory and file typed.
LEMMA SaveType ==
    ASSUME NEW l \in Lanes, NEW cycle \in CycleType,
           mem \in [Lanes -> CycleType], Save(l, cycle)
    PROVE  /\ mem' \in [Lanes -> CycleType] /\ disk' \in [Lanes -> CycleType]
           /\ mem'[l] = cycle
BY DEF Save

\* What a lane saves at its steps is a cycle.
LEMMA CycleTypes ==
    ASSUME NEW c \in CycleType, NEW n \in Nat
    PROVE  /\ NoCycle \in CycleType
           /\ [NoCycle EXCEPT !.phase = "route", !.amount = n] \in CycleType
           /\ \A m, e \in Nat :
                 [c EXCEPT !.phase = "leg1", !.left = n, !.before = m, !.expect = e] \in CycleType
           /\ [c EXCEPT !.phase = "await", !.left = 0] \in CycleType
           /\ [c EXCEPT !.left = @ - 1] \in CycleType
           /\ [c EXCEPT !.phase = "leg2", !.arrived = n] \in CycleType
<1>0. NoCycle \in CycleType
  BY DEF NoCycle, CycleType
<1>1. [NoCycle EXCEPT !.phase = "route", !.amount = n] \in CycleType
  <2>1. PICK d \in CycleType : d = [NoCycle EXCEPT !.phase = "route"]
    BY <1>0 DEF CycleType
  <2>2. PICK e \in CycleType : e = [d EXCEPT !.amount = n]
    BY DEF CycleType
  <2> QED  BY <1>0, <2>1, <2>2, Zenon
<1>2. ASSUME NEW m \in Nat, NEW x \in Nat
      PROVE  [c EXCEPT !.phase = "leg1", !.left = n, !.before = m, !.expect = x] \in CycleType
  <2>1. PICK d \in CycleType : d = [c EXCEPT !.phase = "leg1"]
    BY DEF CycleType
  <2>2. PICK e \in CycleType : e = [d EXCEPT !.left = n]
    BY n \in Int DEF CycleType
  <2>3. PICK f \in CycleType : f = [e EXCEPT !.before = m]
    BY DEF CycleType
  <2>4. PICK g \in CycleType : g = [f EXCEPT !.expect = x]
    BY DEF CycleType
  <2> QED  BY <2>1, <2>2, <2>3, <2>4, Zenon
<1>3. [c EXCEPT !.phase = "await", !.left = 0] \in CycleType
  <2>1. PICK d \in CycleType : d = [c EXCEPT !.phase = "await"]
    BY DEF CycleType
  <2>2. PICK e \in CycleType : e = [d EXCEPT !.left = 0]
    BY 0 \in Int DEF CycleType
  <2> QED  BY <2>1, <2>2, Zenon
<1>4. c.left - 1 \in Int
  BY DEF CycleType
<1>5. [c EXCEPT !.left = @ - 1] \in CycleType
  BY <1>4 DEF CycleType
<1>6. [c EXCEPT !.phase = "leg2", !.arrived = n] \in CycleType
  <2>1. PICK d \in CycleType : d = [c EXCEPT !.phase = "leg2"]
    BY DEF CycleType
  <2>2. PICK e \in CycleType : e = [d EXCEPT !.arrived = n]
    BY DEF CycleType
  <2> QED  BY <2>1, <2>2, Zenon
<1> QED  BY <1>0, <1>1, <1>2, <1>3, <1>5, <1>6

\* What a lane waits for, by the quote, is a number.
LEMMA QuoteType ==
    ASSUME TypeOK, NEW l \in Lanes
    PROVE  (mem[l].amount * 90) \div 100 \in Nat
<1>1. PICK n \in Nat : n = mem[l].amount
  BY mem[l] \in CycleType DEF TypeOK, CycleType
<1>2. (n * 90) \div 100 \in Nat
  OBVIOUS
<1> QED  BY <1>1, <1>2

\* Initially nothing is awaited.
LEMMA InitIInv == Init => IInv
BY DEF Init, IInv, TypeOK, HistoryIsSent, AcceptedFirst, NoCycle, CycleType

\* A tick that ends awaits nothing.
LEMMA EndTickType ==
    ASSUME NEW l \in {"atom", "pol", "fwd"}, EndTick(l)
    PROVE  turn' \in {"atom", "pol", "fwd"} /\ at' = "tick" /\ tries' = 0
BY DEF EndTick, Following

\* After a failed attempt nothing is awaited.
LEMMA AttemptFailedType ==
    ASSUME NEW l \in {"atom", "pol", "fwd"}, turn = l, tries \in Nat, AttemptFailed(l)
    PROVE  turn' \in {"atom", "pol", "fwd"} /\ at' = "tick" /\ tries' \in Nat
BY EndTickType DEF AttemptFailed

\* Every step keeps the invariant: only HermesTransfer adds to what was sent,
\* and Complete moves an amount that was awaited into the history.
LEMMA NextIInv == IInv /\ [Next]_vars => IInv'
<1> SUFFICES ASSUME IInv, [Next]_vars PROVE IInv'
  OBVIOUS
<1> USE ForwarderAssumption
<1>1. ASSUME NEW l \in Lanes, Start(l) PROVE IInv'
  <2>1. CASE Spendable(l) < MinStart
    <3>1. EndTick(l) /\ UNCHANGED <<mem, disk, chains, history, budget>>
      BY <1>1, <2>1 DEF Start
    <3> QED
      BY <3>1, EndTickType DEF IInv, TypeOK, HistoryIsSent, AcceptedFirst, chains
  <2>2. CASE ~(Spendable(l) < MinStart)
    <3>1. Spendable(l) \in Nat
      BY <2>2 DEF Spendable, IInv, TypeOK
    <3>2. Save(l, [NoCycle EXCEPT !.phase = "route", !.amount = Spendable(l)])
      BY <1>1, <2>2 DEF Start
    <3>3. mem' \in [Lanes -> CycleType] /\ disk' \in [Lanes -> CycleType]
      BY <3>1, <3>2, SaveType, CycleTypes, mem[l] \in CycleType DEF IInv, TypeOK
    <3>4. at = "tick" /\ UNCHANGED <<turn, at, tries, chains, history>>
      BY <1>1, <2>2 DEF Start, InTick
    <3> QED
      BY <3>3, <3>4 DEF IInv, TypeOK, HistoryIsSent, AcceptedFirst, chains
  <2> QED  BY <2>1, <2>2
<1>2. ASSUME NEW l \in Lanes, Route(l) PROVE IInv'
  <2>0. (mem[l].amount * 90) \div 100 \in Nat
    BY QuoteType DEF IInv
  <2>1. PICK m \in {noble, 0}, e \in {1, (mem[l].amount * 90) \div 100} :
            Save(l, [mem[l] EXCEPT !.phase = "leg1", !.left = Txs[l], !.before = m, !.expect = e])
    BY <1>2 DEF Route
  <2>2. mem' \in [Lanes -> CycleType] /\ disk' \in [Lanes -> CycleType]
    <3>1. mem[l] \in CycleType /\ m \in Nat /\ e \in Nat
      BY <2>0 DEF IInv, TypeOK
    <3> QED
      BY <2>1, <3>1, SaveType, CycleTypes DEF IInv, TypeOK
  <2>3. at = "tick" /\ UNCHANGED <<turn, at, tries, chains, history>>
    BY <1>2 DEF Route, InTick
  <2> QED
    BY <2>2, <2>3 DEF IInv, TypeOK, HistoryIsSent, AcceptedFirst, chains
<1>3. ASSUME NEW l \in Lanes, Fault(l) \/ Reject(l) \/ Lost(l) \/ PollFails(l) PROVE IInv'
  <2>1. EndTick(l) /\ UNCHANGED <<mem, disk, chains, history>>
    BY <1>3 DEF Fault, Reject, Lost, PollFails
  <2> QED
    BY <2>1, EndTickType DEF IInv, TypeOK, HistoryIsSent, AcceptedFirst, chains
<1>4. ASSUME NEW l \in Lanes, Broadcast(l) PROVE IInv'
  <2>1. mem[l] \in CycleType /\ turn = l /\ mem[l].phase = "leg1"
    BY <1>4 DEF Broadcast, InTick, IInv, TypeOK
  <2>2. /\ source' \in [Lanes -> Int] /\ midway' \in [Lanes -> Int]
        /\ flight' \in [Lanes -> Nat] /\ accepted' \in [Lanes -> Nat]
    BY <1>4, <2>1 DEF Broadcast, IInv, TypeOK, CycleType
  <2>3. at' = "sent" /\ UNCHANGED <<mem, disk, turn, tries, noble, onward, wallet, sent, history>>
    BY <1>4 DEF Broadcast
  <2> QED
    BY <2>1, <2>2, <2>3 DEF IInv, TypeOK, HistoryIsSent, AcceptedFirst
<1>5. ASSUME NEW l \in Lanes, Confirm(l) PROVE IInv'
  <2>1. AfterTx(l) \in CycleType
    BY CycleTypes, mem[l] \in CycleType DEF AfterTx, IInv, TypeOK
  <2>2. mem' \in [Lanes -> CycleType] /\ disk' \in [Lanes -> CycleType]
    BY <1>5, <2>1, SaveType DEF Confirm, IInv, TypeOK
  <2>3. at' = "tick" /\ UNCHANGED <<turn, tries, chains, history>>
    BY <1>5 DEF Confirm
  <2> QED
    BY <2>2, <2>3 DEF IInv, TypeOK, HistoryIsSent, AcceptedFirst, chains
<1>6. ASSUME NEW l \in Lanes, AwaitNoble(l) PROVE IInv'
  <2>1. CASE Enough(l)
    <3>1. mem[l] \in CycleType /\ noble \in Nat
      BY DEF IInv, TypeOK
    <3>2. mem[l].expect \in Nat /\ mem[l].before \in Nat
      BY <3>1 DEF CycleType
    <3>4. Arrived(l) \in Nat
      BY <2>1, <3>1, <3>2 DEF Enough, Arrived
    <3>5. Save(l, [mem[l] EXCEPT !.phase = "leg2", !.arrived = Arrived(l)])
      BY <1>6, <2>1 DEF AwaitNoble
    <3>6. mem' \in [Lanes -> CycleType] /\ disk' \in [Lanes -> CycleType]
      BY <3>1, <3>4, <3>5, SaveType, CycleTypes DEF IInv, TypeOK
    <3>7. at = "tick" /\ UNCHANGED <<turn, at, tries, chains, history>>
      BY <1>6, <2>1 DEF AwaitNoble, InTick
    <3> QED
      BY <3>6, <3>7 DEF IInv, TypeOK, HistoryIsSent, AcceptedFirst, chains
  <2>2. CASE ~Enough(l)
    <3>1. EndTick(l) /\ UNCHANGED <<mem, disk, chains, history>>
      BY <1>6, <2>2 DEF AwaitNoble
    <3> QED
      BY <3>1, EndTickType DEF IInv, TypeOK, HistoryIsSent, AcceptedFirst, chains
  <2> QED  BY <2>1, <2>2
<1>7. ASSUME NEW l \in Lanes, HermesTransfer(l) PROVE IInv'
  <2>1. PICK a \in Nat : a = mem[l].arrived
    BY mem[l] \in CycleType DEF IInv, TypeOK, CycleType
  <2>2. /\ turn = l /\ a <= noble
        /\ noble' = noble - a /\ onward' = onward + a
        /\ sent' = [sent EXCEPT ![l] = @ + a] /\ accepted' = [accepted EXCEPT ![l] = @ + 1]
        /\ at' = "sent" /\ mem[l].phase = "leg2"
        /\ UNCHANGED <<mem, disk, turn, tries, source, midway, flight, wallet, history>>
    BY <1>7, <2>1 DEF HermesTransfer, InTick
  <2>3. TypeOK'
    BY <2>2 DEF IInv, TypeOK
  <2>4. HistoryIsSent'
    BY <2>2 DEF IInv, TypeOK, HistoryIsSent
  <2>5. AcceptedFirst'
    BY <2>1, <2>2 DEF IInv, TypeOK, HistoryIsSent, AcceptedFirst
  <2> QED  BY <2>3, <2>4, <2>5 DEF IInv
<1>8. ASSUME NEW l \in Lanes, HermesFails(l) \/ HermesLost(l) PROVE IInv'
  <2>1. AttemptFailed(l) /\ turn = l /\ UNCHANGED <<mem, disk, chains, history>>
    BY <1>8 DEF HermesFails, HermesLost, InTick
  <2>2. turn' \in {"atom", "pol", "fwd"} /\ at' = "tick" /\ tries' \in Nat
    BY <2>1, AttemptFailedType DEF IInv, TypeOK
  <2> QED
    BY <2>1, <2>2 DEF IInv, TypeOK, HistoryIsSent, AcceptedFirst, chains
<1>9. ASSUME NEW l \in Lanes, Complete(l) PROVE IInv'
  <2>1. PICK a \in Nat : a = mem[l].arrived
    BY mem[l] \in CycleType DEF IInv, TypeOK, CycleType
  <2>2. /\ turn = l /\ at = "sent" /\ mem[l].phase = "leg2"
        /\ history' = [history EXCEPT ![l] = @ + a]
        /\ Save(l, NoCycle) /\ EndTick(l) /\ accepted' = [accepted EXCEPT ![l] = 0]
        /\ UNCHANGED <<source, midway, flight, noble, onward, wallet, sent>>
    BY <1>9, <2>1 DEF Complete
  <2>3. mem' \in [Lanes -> CycleType] /\ disk' \in [Lanes -> CycleType]
    BY <2>2, SaveType, CycleTypes, mem[l] \in CycleType, 0 \in Nat DEF IInv, TypeOK
  <2>4. turn' \in {"atom", "pol", "fwd"} /\ at' = "tick" /\ tries' \in Nat
    BY <2>2, EndTickType DEF IInv, TypeOK
  <2>5. history' \in [Lanes -> Nat] /\ history[l] + a <= sent[l]
    BY <2>1, <2>2 DEF IInv, TypeOK, AcceptedFirst
  <2>6. HistoryIsSent'
    BY <2>2, <2>5 DEF IInv, TypeOK, HistoryIsSent
  <2>7. TypeOK'
    BY <2>2, <2>3, <2>4, <2>5 DEF IInv, TypeOK
  <2> QED  BY <2>4, <2>6, <2>7 DEF IInv, AcceptedFirst
<1>10. CASE PassTurn
  <2>1. turn' \in {"atom", "pol", "fwd"} /\ at # "sent" /\ UNCHANGED <<mem, disk, at, tries, chains, history>>
    BY <1>10 DEF PassTurn, Following, IInv, TypeOK, AcceptedFirst
  <2> QED
    BY <2>1 DEF IInv, TypeOK, HistoryIsSent, AcceptedFirst, chains
<1>11. CASE RegisterForwarding
  <2>1. /\ turn' = "atom" /\ at # "sent" /\ noble' \in Nat
        /\ UNCHANGED <<mem, disk, at, tries, source, midway, flight, onward, wallet, sent, accepted, history>>
    BY <1>11 DEF RegisterForwarding, Following, IInv, TypeOK, AcceptedFirst
  <2> QED
    BY <2>1 DEF IInv, TypeOK, HistoryIsSent, AcceptedFirst
<1>12. ASSUME NEW l \in Lanes, Fund(l) PROVE IInv'
  <2>1. PICK n \in Nat : source' = [source EXCEPT ![l] = @ + n]
    BY <1>12 DEF Fund
  <2>2. UNCHANGED <<mem, disk, turn, at, tries, midway, flight, noble, onward, wallet, sent, accepted, history>>
    BY <1>12 DEF Fund
  <2> QED
    BY <2>1, <2>2 DEF IInv, TypeOK, HistoryIsSent, AcceptedFirst
<1>13. CASE Arrivals
  BY <1>13 DEF Arrivals, ArriveWallet, ArriveNoble, IInv, TypeOK, HistoryIsSent, AcceptedFirst
<1>14. CASE Restart
  BY <1>14 DEF Restart, IInv, TypeOK, HistoryIsSent, AcceptedFirst, chains
<1>15. CASE UNCHANGED vars
  BY <1>15 DEF vars, chains, IInv, TypeOK, HistoryIsSent, AcceptedFirst
<1> QED
  BY <1>1, <1>2, <1>3, <1>4, <1>5, <1>6, <1>7, <1>8, <1>9, <1>10, <1>11, <1>12, <1>13,
     <1>14, <1>15 DEF Next, Tick

\* What the forwarder's history says was delivered, Noble accepted
\* (awaitNobleAndDeliver): for every number of attempts, faults, false
\* reports and crashes.
THEOREM HistoryWasSent == Spec => []HistoryIsSent
<1>1. IInv => HistoryIsSent
  BY DEF IInv
<1> QED
  BY InitIInv, NextIInv, <1>1, PTL DEF Spec
-----------------------------------------------------------------------------
(* No transaction of a cycle is passed over, or repeated without a reason.  *)

\* The answer of a transaction of the lane is awaited.
Awaiting(l) == at = "sent" /\ turn = l

\* SentOnce of one lane.
Once(l) == Behind(l) <= accepted[l] /\ accepted[l] <= Behind(l) + Unsure

\* A leg 1 always has a transaction left to confirm.
LeftInRange == \A l \in Lanes : mem[l].phase = "leg1" => mem[l].left \in 1..Txs[l]

\* The bounds on what leaves the forwarder unsure only shrink.
BudgetShrinks ==
    /\ budget \in [fundings : [Lanes -> Int], faults : Int, polls : Int, misreads : Int,
                   false : Int, crashes : Int, fees : Int]
    /\ budget.crashes <= MaxCrashes /\ budget.false <= MaxFalse /\ budget.polls <= MaxPolls

Accounted == disk = mem /\ LeftInRange /\ \A l \in Lanes : Once(l)

LInv == IInv /\ BudgetShrinks /\ Accounted

\* An event after which the forwarder is unsure.
Unsettles == Restart \/ \E l \in Lanes : Lost(l) \/ HermesLost(l) \/ PollFails(l)

\* Such an event is counted, and none is forgotten.
LEMMA BudgetStep ==
    ASSUME IInv, BudgetShrinks, [Next]_vars
    PROVE  /\ BudgetShrinks'
           /\ Unsure \in Nat /\ Unsure' \in Nat /\ Unsure <= Unsure'
           /\ Unsettles => Unsure' = Unsure + 1
<1> USE ForwarderAssumption
<1>0. Unsure \in Nat
  BY DEF BudgetShrinks, Unsure
<1>1. CASE UNCHANGED budget
  <2>1. BudgetShrinks' /\ Unsure' = Unsure
    BY <1>1 DEF BudgetShrinks, Unsure
  <2>2. ~Unsettles
    BY <1>1 DEF BudgetShrinks, Unsettles, Restart, Lost, HermesLost, PollFails
  <2> QED  BY <1>0, <2>1, <2>2
<1>3. ASSUME \/ budget' = [budget EXCEPT !.faults = @ - 1]
             \/ budget' = [budget EXCEPT !.misreads = @ - 1]
             \/ budget' = [budget EXCEPT !.fees = @ - 1]
      PROVE  BudgetShrinks' /\ Unsure' = Unsure /\ ~Unsettles
  <2>1. BudgetShrinks' /\ Unsure' = Unsure
    BY <1>3 DEF BudgetShrinks, Unsure
  <2>2. /\ budget'.crashes = budget.crashes /\ budget'.false = budget.false
        /\ budget'.polls = budget.polls
    BY <1>3 DEF BudgetShrinks
  <2>3. ~Unsettles
    BY <2>2 DEF BudgetShrinks, Unsettles, Restart, Lost, HermesLost, PollFails
  <2> QED  BY <2>1, <2>3
<1>4. ASSUME \/ budget' = [budget EXCEPT !.crashes = @ - 1]
             \/ budget' = [budget EXCEPT !.false = @ - 1]
             \/ budget' = [budget EXCEPT !.polls = @ - 1]
      PROVE  BudgetShrinks' /\ Unsure' = Unsure + 1
  BY <1>4 DEF BudgetShrinks, Unsure
<1>5. ASSUME NEW l \in Lanes, Fund(l) PROVE BudgetShrinks' /\ Unsure' = Unsure /\ ~Unsettles
  <2>1. BudgetShrinks' /\ Unsure' = Unsure
    BY <1>5 DEF Fund, BudgetShrinks, Unsure
  <2>2. /\ budget'.crashes = budget.crashes /\ budget'.false = budget.false
        /\ budget'.polls = budget.polls
    BY <1>5 DEF Fund, BudgetShrinks
  <2>3. ~Unsettles
    BY <2>2 DEF BudgetShrinks, Unsettles, Restart, Lost, HermesLost, PollFails
  <2> QED  BY <2>1, <2>3
<1>6. \/ UNCHANGED budget
      \/ \E l \in Lanes : Fund(l)
      \/ budget' = [budget EXCEPT !.faults = @ - 1]
      \/ budget' = [budget EXCEPT !.misreads = @ - 1]
      \/ budget' = [budget EXCEPT !.fees = @ - 1]
      \/ budget' = [budget EXCEPT !.crashes = @ - 1]
      \/ budget' = [budget EXCEPT !.false = @ - 1]
      \/ budget' = [budget EXCEPT !.polls = @ - 1]
  <2>1. ASSUME NEW l \in Lanes,
               Start(l) \/ Route(l) \/ Fault(l) \/ Broadcast(l) \/ Reject(l) \/ Confirm(l)
        PROVE  \/ UNCHANGED budget
               \/ budget' = [budget EXCEPT !.faults = @ - 1]
               \/ budget' = [budget EXCEPT !.misreads = @ - 1]
    BY <2>1 DEF Start, Route, Fault, Broadcast, Reject, Confirm
  <2>2. ASSUME NEW l \in Lanes,
               Lost(l) \/ AwaitNoble(l) \/ HermesTransfer(l) \/ HermesFails(l) \/ HermesLost(l)
               \/ Complete(l) \/ PollFails(l)
        PROVE  \/ UNCHANGED budget
               \/ budget' = [budget EXCEPT !.faults = @ - 1]
               \/ budget' = [budget EXCEPT !.false = @ - 1]
               \/ budget' = [budget EXCEPT !.polls = @ - 1]
    BY <2>2 DEF Lost, AwaitNoble, HermesTransfer, HermesFails, HermesLost, Complete, PollFails
  <2>3. PassTurn \/ Arrivals \/ UNCHANGED vars => UNCHANGED budget
    BY DEF PassTurn, Arrivals, ArriveWallet, ArriveNoble, vars
  <2>4. RegisterForwarding => budget' = [budget EXCEPT !.fees = @ - 1]
    BY DEF RegisterForwarding
  <2>5. Restart => budget' = [budget EXCEPT !.crashes = @ - 1]
    BY DEF Restart
  <2> QED  BY <2>1, <2>2, <2>3, <2>4, <2>5 DEF Next, Tick
<1> QED
  BY <1>0, <1>1, <1>3, <1>4, <1>5, <1>6

\* What lies behind a lane is a number.
LEMMA BehindType ==
    ASSUME IInv, LeftInRange, NEW l \in Lanes
    PROVE  Behind(l) \in Nat
BY ForwarderAssumption DEF LeftInRange, Behind

\* A lane that keeps its cycle and what it awaits keeps its account.
LEMMA StaysOnce ==
    ASSUME LInv, Unsure \in Nat, Unsure' \in Nat, Unsure <= Unsure', NEW l \in Lanes,
           mem'[l] = mem[l], accepted'[l] = accepted[l], Awaiting(l)' <=> Awaiting(l)
    PROVE  Once(l)'
<1>1. Behind(l)' = Behind(l)
  BY DEF Behind, Awaiting
<1>2. Behind(l) \in Nat /\ accepted[l] \in Nat
  BY BehindType DEF LInv, IInv, TypeOK, Accounted
<1> QED
  BY <1>1, <1>2 DEF LInv, Accounted, Once

\* A step that leaves the cycles and what is awaited leaves the account.
LEMMA Undisturbed ==
    ASSUME LInv, Unsure \in Nat, Unsure' \in Nat, Unsure <= Unsure',
           UNCHANGED <<mem, disk, accepted>>,
           \A l \in Lanes : Awaiting(l)' <=> Awaiting(l)
    PROVE  Accounted'
<1>1. ASSUME NEW l \in Lanes PROVE Once(l)'
  BY <1>1, StaysOnce
<1> QED
  BY <1>1 DEF LInv, Accounted, LeftInRange

\* A step of a lane's tick leaves the account of the others; its own is to be
\* looked at.
LEMMA OwnAccount ==
    ASSUME LInv, Unsure \in Nat, Unsure' \in Nat, Unsure <= Unsure', disk' = mem',
           NEW l \in Lanes, turn = l,
           \A k \in Lanes \ {l} :
              mem'[k] = mem[k] /\ accepted'[k] = accepted[k] /\ ~Awaiting(k)',
           mem'[l].phase = "leg1" => mem'[l].left \in 1..Txs[l],
           Once(l)'
    PROVE  Accounted'
<1>1. ASSUME NEW k \in Lanes \ {l} PROVE Once(k)'
  <2>1. ~Awaiting(k) /\ ~Awaiting(k)'
    BY DEF Awaiting
  <2> QED  BY <2>1, StaysOnce
<1>2. LeftInRange'
  BY DEF LInv, Accounted, LeftInRange
<1> QED
  BY <1>1, <1>2 DEF Accounted

\* A transaction is accepted: one more lies behind the lane that awaits it.
LEMMA AcceptedOnce ==
    ASSUME LInv, Unsure \in Nat, Unsure' \in Nat, Unsure <= Unsure', NEW l \in Lanes,
           turn = l, turn' = l, at = "tick", at' = "sent", mem' = mem, disk' = disk,
           accepted' = [accepted EXCEPT ![l] = @ + 1]
    PROVE  Accounted'
<1>1. accepted \in [Lanes -> Nat] /\ Behind(l) \in Nat
  BY BehindType DEF LInv, IInv, TypeOK, Accounted
<1>2. Behind(l)' = Behind(l) + 1
  <2>1. mem[l].phase = "leg1" => mem[l].left \in Nat
    BY ForwarderAssumption DEF LInv, Accounted, LeftInRange
  <2> QED
    BY <2>1, ForwarderAssumption DEF Behind
<1>3. Once(l)'
  BY <1>1, <1>2 DEF LInv, Accounted, Once
<1> QED
  BY <1>1, <1>3, OwnAccount DEF LInv, Accounted, LeftInRange, Awaiting

\* Confirm counts the transaction whose answer was awaited.
LEMMA ConfirmOnce ==
    ASSUME LInv, Unsure \in Nat, Unsure' \in Nat, Unsure <= Unsure', NEW l \in Lanes, Confirm(l)
    PROVE  Accounted'
<1> USE ForwarderAssumption
<1>1. /\ turn = l /\ turn' = l /\ at = "sent" /\ at' = "tick" /\ mem[l].phase = "leg1"
      /\ mem \in [Lanes -> CycleType] /\ accepted' = accepted /\ accepted[l] \in Nat
      /\ mem' = [mem EXCEPT ![l] = AfterTx(l)] /\ disk' = mem'
  BY DEF Confirm, Save, LInv, IInv, TypeOK, chains
<1>2. mem'[l] = AfterTx(l) /\ \A k \in Lanes \ {l} : mem'[k] = mem[k]
  BY <1>1
<1>3. PICK n \in Nat : n = mem[l].left /\ n \in 1..Txs[l]
  BY <1>1 DEF LInv, Accounted, LeftInRange
<1>4. mem[l] \in CycleType /\ Txs[l] \in Nat
  BY <1>1
<1>5. Behind(l) = Txs[l] - n + 1
  BY <1>1, <1>3 DEF Behind
<1>6. Behind(l)' = Behind(l) /\ (mem'[l].phase = "leg1" => mem'[l].left \in 1..Txs[l])
  <2>1. CASE LastTx(l)
    <3>1. mem'[l].phase = "await" /\ n = 1
      BY <1>2, <1>3, <1>4, <2>1 DEF AfterTx, CycleType, LastTx
    <3> QED
      BY <1>1, <1>4, <1>5, <3>1 DEF Behind
  <2>2. CASE ~LastTx(l)
    <3>1. mem'[l].phase = "leg1" /\ mem'[l].left = n - 1 /\ n # 1
      BY <1>1, <1>2, <1>3, <1>4, <2>2 DEF AfterTx, CycleType, LastTx
    <3> QED
      BY <1>1, <1>3, <1>4, <1>5, <3>1 DEF Behind
  <2> QED  BY <2>1, <2>2
<1>7. Once(l)'
  <2>1. Behind(l) \in Nat
    BY BehindType DEF LInv, Accounted
  <2> QED
    BY <1>1, <1>6, <2>1 DEF LInv, Accounted, Once
<1> QED
  BY <1>1, <1>2, <1>6, <1>7, OwnAccount DEF Awaiting

\* A lane that goes on to a phase with the same transactions behind it keeps
\* its account.
LEMMA SavedOnce ==
    ASSUME LInv, Unsure \in Nat, Unsure' \in Nat, Unsure <= Unsure', NEW l \in Lanes,
           NEW cycle \in CycleType,
           turn = l, at = "tick", at' = "tick", Save(l, cycle), UNCHANGED accepted,
           \/ mem[l].phase = "idle" /\ cycle.phase = "route"
           \/ mem[l].phase = "route" /\ cycle.phase = "leg1" /\ cycle.left = Txs[l]
           \/ mem[l].phase = "await" /\ cycle.phase = "leg2"
    PROVE  Accounted'
<1> USE ForwarderAssumption
<1>1. mem' = [mem EXCEPT ![l] = cycle] /\ disk' = mem' /\ mem \in [Lanes -> CycleType]
  BY DEF Save, LInv, IInv, TypeOK
<1>2. mem'[l] = cycle /\ \A k \in Lanes \ {l} : mem'[k] = mem[k]
  BY <1>1
<1>3. Behind(l)' = Behind(l)
  BY <1>2 DEF Behind
<1>4. Behind(l) \in Nat /\ accepted[l] \in Nat
  BY BehindType DEF LInv, IInv, TypeOK, Accounted
<1>5. Once(l)'
  BY <1>3, <1>4 DEF LInv, Accounted, Once
<1>6. mem'[l].phase = "leg1" => mem'[l].left \in 1..Txs[l]
  BY <1>2
<1> QED
  BY <1>1, <1>2, <1>5, <1>6, OwnAccount DEF Awaiting

\* The next cycle begins with nothing accepted.
LEMMA CompleteOnce ==
    ASSUME LInv, Unsure \in Nat, Unsure' \in Nat, Unsure <= Unsure', NEW l \in Lanes, Complete(l)
    PROVE  Accounted'
<1>1. /\ turn = l /\ at' = "tick"
      /\ mem' = [mem EXCEPT ![l] = NoCycle] /\ disk' = mem' /\ mem \in [Lanes -> CycleType]
      /\ accepted' = [accepted EXCEPT ![l] = 0] /\ accepted \in [Lanes -> Nat]
  BY DEF Complete, Save, EndTick, LInv, IInv, TypeOK
<1>2. mem'[l].phase = "idle"
  BY <1>1 DEF NoCycle
<1>3. Behind(l)' = 0
  BY <1>1, <1>2 DEF Behind
<1>4. Once(l)'
  <2>1. accepted'[l] = 0
    BY <1>1
  <2>2. Behind(l)' <= accepted'[l]
    BY <1>3, <2>1
  <2>3. 0 <= 0 + Unsure'
    <3>1. \A u \in Nat : 0 <= 0 + u
      OBVIOUS
    <3> QED  BY <3>1, Zenon
  <2>4. accepted'[l] <= Behind(l)' + Unsure'
    BY <1>3, <2>1, <2>3, Zenon
  <2> QED  BY <2>2, <2>4 DEF Once
<1> QED
  BY <1>1, <1>2, <1>4, OwnAccount DEF Awaiting

\* When the answer is lost the lane stands before its last transaction again:
\* the event explains that it is sent once more.
LEMMA UnsettledOnce ==
    ASSUME LInv, Unsure \in Nat, Unsure' = Unsure + 1,
           UNCHANGED <<mem, disk, accepted>>, at' = "tick"
    PROVE  Accounted'
<1>1. ASSUME NEW l \in Lanes PROVE Once(l)'
  <2>1. Behind(l) \in Nat /\ accepted[l] \in Nat /\ Txs[l] \in Nat
    BY BehindType, ForwarderAssumption DEF LInv, IInv, TypeOK, Accounted
  <2>2. mem[l].phase = "leg1" => mem[l].left \in Nat
    BY ForwarderAssumption DEF LInv, Accounted, LeftInRange
  <2>3. Behind(l)' = Behind(l) - (IF Awaiting(l) THEN 1 ELSE 0)
    BY <2>1, <2>2 DEF Behind, Awaiting
  <2>4. Behind(l) <= accepted[l] /\ accepted[l] <= Behind(l) + Unsure
    BY DEF LInv, Accounted, Once
  <2>5. accepted'[l] = accepted[l]
    OBVIOUS
  <2> HIDE DEF Behind, Unsure, Awaiting
  <2>6. Behind(l)' <= accepted'[l] /\ accepted'[l] <= Behind(l)' + Unsure'
    BY <2>1, <2>3, <2>4, <2>5
  <2> QED  BY <2>6 DEF Once
<1> QED
  BY <1>1 DEF LInv, Accounted, LeftInRange

\* Every step keeps the account.
LEMMA NextLInv == LInv /\ [Next]_vars => LInv'
<1> SUFFICES ASSUME LInv, [Next]_vars PROVE LInv'
  OBVIOUS
<1> USE ForwarderAssumption
<1>a. /\ IInv' /\ BudgetShrinks'
      /\ Unsure \in Nat /\ Unsure' \in Nat /\ Unsure <= Unsure'
      /\ Unsettles => Unsure' = Unsure + 1
  BY NextIInv, BudgetStep DEF LInv
<1>b. mem \in [Lanes -> CycleType] /\ disk = mem
  BY DEF LInv, IInv, TypeOK, Accounted
<1>c. ASSUME at = "tick", at' = "tick" PROVE \A l \in Lanes : Awaiting(l)' <=> Awaiting(l)
  BY <1>c DEF Awaiting
<1>1. ASSUME NEW l \in Lanes, Start(l) PROVE Accounted'
  <2>1. CASE Spendable(l) < MinStart
    BY <1>1, <1>a, <1>c, <2>1, Undisturbed DEF Start, InTick, EndTick, chains
  <2>2. CASE ~(Spendable(l) < MinStart)
    <3>1. PICK cycle : cycle = [NoCycle EXCEPT !.phase = "route", !.amount = Spendable(l)]
      OBVIOUS
    <3>2. Spendable(l) \in Nat
      BY <2>2 DEF Spendable, LInv, IInv, TypeOK
    <3>3. cycle \in CycleType /\ cycle.phase = "route"
      BY <1>b, <3>1, <3>2, CycleTypes DEF NoCycle
    <3>4. /\ turn = l /\ at = "tick" /\ at' = "tick" /\ mem[l].phase = "idle" /\ Save(l, cycle)
          /\ UNCHANGED accepted
      BY <1>1, <2>2, <3>1 DEF Start, InTick, chains
    <3> QED
      BY <1>a, <3>3, <3>4, SavedOnce
  <2> QED  BY <2>1, <2>2
<1>2. ASSUME NEW l \in Lanes, Route(l) PROVE Accounted'
  <2>1. PICK m \in {noble, 0}, e \in {1, (mem[l].amount * 90) \div 100} :
            Save(l, [mem[l] EXCEPT !.phase = "leg1", !.left = Txs[l], !.before = m, !.expect = e])
    BY <1>2 DEF Route
  <2>. DEFINE cycle == [mem[l] EXCEPT !.phase = "leg1", !.left = Txs[l], !.before = m, !.expect = e]
  <2>2. cycle \in CycleType /\ mem[l] \in CycleType
    <3>1. m \in Nat /\ e \in Nat
      BY QuoteType DEF LInv, IInv, TypeOK
    <3> QED  BY <1>b, <3>1, CycleTypes
  <2>3. cycle.left = Txs[l] /\ cycle.phase = "leg1"
    BY <2>1, <2>2 DEF CycleType
  <2>4. turn = l /\ at = "tick" /\ at' = "tick" /\ mem[l].phase = "route" /\ UNCHANGED accepted
    BY <1>2 DEF Route, InTick, chains
  <2> QED
    BY <1>a, <2>1, <2>2, <2>3, <2>4, SavedOnce
<1>3. ASSUME NEW l \in Lanes, Fault(l) \/ Reject(l) \/ HermesFails(l) PROVE Accounted'
  <2>1. /\ at = "tick" /\ at' = "tick"
        /\ UNCHANGED <<mem, disk, accepted>>
    BY <1>3 DEF Fault, Reject, HermesFails, InTick, AttemptFailed, EndTick, chains
  <2> QED
    BY <1>a, <1>c, <2>1, Undisturbed
<1>4. ASSUME Unsettles PROVE Accounted'
  <2>1. UNCHANGED <<mem, disk, accepted>> /\ at' = "tick"
    BY <1>4, <1>b DEF Unsettles, Lost, HermesLost, PollFails, AttemptFailed, EndTick, Restart, chains
  <2>2. Unsure' = Unsure + 1
    BY <1>4, <1>a
  <2> QED
    BY <1>a, <2>1, <2>2, UnsettledOnce
<1>5. ASSUME NEW l \in Lanes, AwaitNoble(l) PROVE Accounted'
  <2>1. CASE Enough(l)
    <3>1. PICK cycle : cycle = [mem[l] EXCEPT !.phase = "leg2", !.arrived = Arrived(l)]
      OBVIOUS
    <3>2. mem[l] \in CycleType
      BY <1>b
    <3>3. /\ turn = l /\ at = "tick" /\ at' = "tick" /\ mem[l].phase = "await" /\ Save(l, cycle)
          /\ UNCHANGED accepted
      BY <1>5, <2>1, <3>1 DEF AwaitNoble, InTick, chains
    <3>4. mem'[l] = cycle /\ mem'[l] \in CycleType
      BY <1>a, <1>b, <3>3 DEF Save, IInv, TypeOK
    <3>5. cycle.phase = "leg2"
      BY <3>1, <3>2 DEF CycleType
    <3> QED
      BY <1>a, <3>3, <3>4, <3>5, SavedOnce
  <2>2. CASE ~Enough(l)
    BY <1>5, <1>a, <1>c, <2>2, Undisturbed DEF AwaitNoble, InTick, EndTick, chains
  <2> QED  BY <2>1, <2>2
<1>6. ASSUME NEW l \in Lanes, Broadcast(l) \/ HermesTransfer(l) PROVE Accounted'
  <2>1. /\ turn = l /\ turn' = l /\ at = "tick" /\ at' = "sent" /\ mem' = mem /\ disk' = disk
        /\ accepted' = [accepted EXCEPT ![l] = @ + 1]
    BY <1>6 DEF Broadcast, HermesTransfer, InTick
  <2> QED
    BY <1>a, <2>1, AcceptedOnce
<1>7. ASSUME NEW l \in Lanes, Confirm(l) \/ Complete(l) PROVE Accounted'
  BY <1>a, <1>7, ConfirmOnce, CompleteOnce
<1>8. ASSUME PassTurn \/ RegisterForwarding PROVE Accounted'
  <2>1. at # "sent" /\ at' = at /\ UNCHANGED <<mem, disk, accepted>>
    BY <1>8 DEF PassTurn, RegisterForwarding, LInv, IInv, AcceptedFirst, chains
  <2>2. \A l \in Lanes : Awaiting(l)' <=> Awaiting(l)
    BY <2>1 DEF Awaiting
  <2> QED
    BY <1>a, <2>1, <2>2, Undisturbed
<1>9. ASSUME Arrivals \/ (\E l \in Lanes : Fund(l)) \/ UNCHANGED vars PROVE Accounted'
  <2>1. UNCHANGED <<mem, disk, accepted, turn, at>>
    BY <1>9 DEF Arrivals, ArriveWallet, ArriveNoble, Fund, vars, chains
  <2>2. \A l \in Lanes : Awaiting(l)' <=> Awaiting(l)
    BY <2>1 DEF Awaiting
  <2> QED
    BY <1>a, <2>1, <2>2, Undisturbed
<1>10. Accounted'
  <2>1. CASE Tick
    <3>1. PassTurn \/ RegisterForwarding
          \/ \E l \in Lanes :
                \/ Start(l) \/ Route(l) \/ AwaitNoble(l)
                \/ Fault(l) \/ Reject(l) \/ HermesFails(l)
                \/ Broadcast(l) \/ HermesTransfer(l) \/ Confirm(l) \/ Complete(l)
                \/ Lost(l) \/ HermesLost(l) \/ PollFails(l)
      BY <2>1 DEF Tick
    <3> QED
      BY <3>1, <1>1, <1>2, <1>3, <1>4, <1>5, <1>6, <1>7, <1>8, Zenon DEF Unsettles
  <2>2. CASE ~Tick
    <3>1. Arrivals \/ (\E l \in Lanes : Fund(l)) \/ UNCHANGED vars \/ Restart
      BY <2>2 DEF Next
    <3> QED
      BY <3>1, <1>4, <1>9, Zenon DEF Unsettles
  <2> QED  BY <2>1, <2>2
<1> QED
  BY <1>a, <1>10 DEF LInv

\* Every transaction of a cycle, of leg 1 and of leg 2, is sent once, and once
\* more at most for every crash, false report and failed poll: on every lane,
\* however many transactions a leg takes and whatever requests fail.
THEOREM EverySendOnce == Spec => []SentOnce
<1>1. Init => LInv
  <2>1. ASSUME Init PROVE BudgetShrinks
    BY <2>1, ForwarderAssumption DEF Init, BudgetShrinks
  <2>2. ASSUME Init PROVE Accounted
    BY <2>2, ForwarderAssumption DEF Init, Accounted, LeftInRange, Once, Behind, Unsure, NoCycle
  <2> QED  BY <2>1, <2>2, InitIInv DEF LInv
<1>2. LInv => SentOnce
  BY DEF LInv, Accounted, Once, SentOnce
<1> QED
  BY <1>1, <1>2, NextLInv, PTL DEF Spec

-----------------------------------------------------------------------------
(***************************************************************************)
(* The deposit accounts, for any users, limits and numbers of             *)
(* faults and restarts.                                                    *)
(*                                                                         *)
(* FeePerUser is not inductive: a second fee is ruled out because nothing  *)
(* waits on a registered account.  So the invariant says that a fee for an *)
(* account that is not registered belongs to a transaction that failed,    *)
(* and that this is still so when the loop has seen a deposit and is about *)
(* to register, although the user may have registered in between.          *)
(***************************************************************************)
NobleType ==
    /\ asked \in [Users -> {"no", "asked", "exists", "new"}]
    /\ told \in [Users -> {"nothing", "pending", "registered"}]
    /\ held \in [Users -> Nat] /\ deposits \in [Users -> Nat]
    /\ fees \in [Users -> Nat] /\ failed \in Nat

\* Whatever takes an account for registered is right.
KnownIsRegistered ==
    /\ stage = "sent" => Visited \in registered
    /\ \A u \in Users : u \in fwd \/ asked[u] = "exists" => u \in registered

HeldIsDue ==
    \A u \in Users : held[u] > 0 => u \notin registered /\ deposits[u] > 0

FeeRegisters ==
    \A u \in Users : fees[u] <= failed + (IF u \in registered THEN 1 ELSE 0)

RegisteringIsDue ==
    \A u \in Users : stage = "register" /\ Visited = u => deposits[u] > 0 /\ fees[u] <= failed

Told == NobleType /\ KnownIsRegistered /\ ToldIsRegistered
Paid == NobleType /\ HeldIsDue /\ FeeRegisters /\ RegisteringIsDue /\ FeePerUser

-----------------------------------------------------------------------------

\* The kinds of the tables are kept by every step.
LEMMA TypeKept ==
    ASSUME NobleType, [AccountsNext]_accountVars
    PROVE  NobleType'
<1> USE DEF NobleType
<1>1. CASE PendingTick
  <2>1. CASE StartTick \/ Look \/ CapReached \/ ConfirmRegistration \/ AnswerLost
    BY <2>1 DEF StartTick, Look, CapReached, ConfirmRegistration, AnswerLost, requests, ledger
  <2>2. CASE BroadcastRegistration
    <3>1. held' \in [Users -> Nat]
      BY <2>2 DEF BroadcastRegistration
    <3>2. fees' \in [Users -> Nat]
      <4>1. fees' = [u \in Users |-> IF u = Visited THEN fees[u] + 1 ELSE fees[u]]
        BY <2>2, Zenon DEF BroadcastRegistration
      <4> QED  BY <4>1
    <3> QED  BY <2>2, <3>1, <3>2 DEF BroadcastRegistration, requests
  <2>3. CASE RegistrationFails
    BY <2>3 DEF RegistrationFails, requests
  <2> QED  BY <1>1, <2>1, <2>2, <2>3 DEF PendingTick
<1>2. ASSUME NEW u \in Users,
             Request(u) \/ Query(u) \/ AnswerExists(u) \/ AnswerNew(u)
      PROVE  NobleType'
  BY <1>2 DEF Request, Query, AnswerExists, AnswerNew, ledger
<1>3. ASSUME NEW u \in Users, Deposit(u) \/ RegisterElsewhere(u) \/ Age(u)
      PROVE  NobleType'
  BY <1>3 DEF Deposit, RegisterElsewhere, Age, ledger, requests
<1>4. CASE NewDay \/ RestartRelayer \/ UNCHANGED accountVars
  BY <1>4 DEF NewDay, RestartRelayer, ledger, requests, accountVars
<1> QED  BY <1>1, <1>2, <1>3, <1>4 DEF AccountsNext

\* What is taken for registered is, after every step, too.
LEMMA ToldKept ==
    ASSUME Told, [AccountsNext]_accountVars
    PROVE  Told'
<1>0. NobleType /\ NobleType'
  BY TypeKept DEF Told
<1>1. KnownIsRegistered' /\ ToldIsRegistered'
  <2> USE <1>0 DEF Told, NobleType, KnownIsRegistered, ToldIsRegistered
  <2>1. CASE StartTick \/ Look \/ CapReached \/ RegistrationFails \/ AnswerLost
    <3>1. /\ stage' # "sent"
          /\ UNCHANGED <<fwd, asked, told, registered>>
      BY <2>1 DEF StartTick, Look, CapReached, RegistrationFails, AnswerLost, NextEntry,
                  tables, requests, ledger
    <3> QED  BY <3>1
  <2>2. CASE BroadcastRegistration
    BY <2>2 DEF BroadcastRegistration, tables, requests, Visited
  <2>3. CASE ConfirmRegistration
    BY <2>3 DEF ConfirmRegistration, NextEntry, requests, ledger
  <2>4. ASSUME NEW u \in Users,
               Request(u) \/ Query(u) \/ AnswerExists(u) \/ AnswerNew(u)
        PROVE  KnownIsRegistered' /\ ToldIsRegistered'
    BY <2>4 DEF Request, Query, AnswerExists, AnswerNew, ledger, loop, tables, Visited
  <2>5. ASSUME NEW u \in Users, Deposit(u) \/ RegisterElsewhere(u) \/ Age(u)
        PROVE  KnownIsRegistered' /\ ToldIsRegistered'
    BY <2>5 DEF Deposit, RegisterElsewhere, Age, ledger, requests, tables, loop, Visited
  <2>6. CASE NewDay \/ RestartRelayer \/ UNCHANGED accountVars
    BY <2>6 DEF NewDay, RestartRelayer, ledger, requests, tables, loop, accountVars, Visited
  <2> QED  BY <2>1, <2>2, <2>3, <2>4, <2>5, <2>6 DEF AccountsNext, PendingTick
<1> QED  BY <1>0, <1>1 DEF Told

\* A fee is only paid where a deposit waits, after every step, too.
LEMMA PaidKept ==
    ASSUME Paid, [AccountsNext]_accountVars
    PROVE  Paid'
<1>0. NobleType /\ NobleType'
  BY TypeKept DEF Paid
<1>1. HeldIsDue' /\ FeeRegisters' /\ RegisteringIsDue' /\ FeePerUser'
  <2> USE <1>0 DEF Paid, NobleType, HeldIsDue, FeeRegisters, RegisteringIsDue, FeePerUser
  <2>1. CASE StartTick \/ CapReached \/ ConfirmRegistration \/ AnswerLost
    <3>1. stage' # "register" /\ UNCHANGED ledger
      BY <2>1 DEF StartTick, CapReached, ConfirmRegistration, AnswerLost, NextEntry
    <3> QED  BY <3>1 DEF ledger
  <2>2. CASE Look
    <3>1. stage' = "register" => visit' = visit /\ held[Visited] > 0
      BY <2>2 DEF Look, NextEntry, Worth
    <3> QED  BY <2>2, <3>1 DEF Look, ledger, Visited
  <2>3. CASE BroadcastRegistration
    BY <2>3 DEF BroadcastRegistration, Visited
  <2>4. CASE RegistrationFails
    <3>1. stage' # "register" /\ UNCHANGED <<registered, held, deposits>>
      BY <2>4 DEF RegistrationFails, NextEntry
    <3>2. CASE UNCHANGED <<fees, failed>>
      BY <3>1, <3>2
    <3>3. CASE fees' = [fees EXCEPT ![Visited] = @ + 1] /\ failed' = failed + 1
      <4>1. stage = "register"
        BY <2>4 DEF RegistrationFails
      <4> QED  BY <3>1, <3>3, <4>1
    <3> QED  BY <2>4, <3>2, <3>3 DEF RegistrationFails
  <2>5. ASSUME NEW u \in Users,
               Request(u) \/ Query(u) \/ AnswerExists(u) \/ AnswerNew(u)
        PROVE  HeldIsDue' /\ FeeRegisters' /\ RegisteringIsDue' /\ FeePerUser'
    BY <2>5 DEF Request, Query, AnswerExists, AnswerNew, ledger, loop, Visited
  <2>6. ASSUME NEW u \in Users, Deposit(u)
        PROVE  HeldIsDue' /\ FeeRegisters' /\ RegisteringIsDue' /\ FeePerUser'
    BY <2>6 DEF Deposit, loop, Visited
  <2>7. ASSUME NEW u \in Users, RegisterElsewhere(u) \/ Age(u)
        PROVE  HeldIsDue' /\ FeeRegisters' /\ RegisteringIsDue' /\ FeePerUser'
    BY <2>7 DEF RegisterElsewhere, Age, ledger, loop, Visited
  <2>8. CASE NewDay \/ RestartRelayer \/ UNCHANGED accountVars
    BY <2>8 DEF NewDay, RestartRelayer, ledger, loop, accountVars, Visited
  <2> QED  BY <2>1, <2>2, <2>3, <2>4, <2>5, <2>6, <2>7, <2>8 DEF AccountsNext, PendingTick
<1> QED  BY <1>0, <1>1 DEF Paid

-----------------------------------------------------------------------------

\* A user who is told that the account is registered has one, whatever
\* answers are lost (handleForwarding).
THEOREM RegisteredIsTrue == AccountsSpec => []ToldIsRegistered
<1>1. AccountsInit => Told
  BY DEF AccountsInit, Told, NobleType, KnownIsRegistered, ToldIsRegistered
<1>2. Told /\ [AccountsNext]_accountVars => Told'
  BY ToldKept
<1>3. Told => ToldIsRegistered
  BY DEF Told
<1> QED  BY <1>1, <1>2, <1>3, PTL DEF AccountsSpec

\* The relayer pays for a user who deposited, and once, but for transactions
\* that failed (registerForwarding).
THEOREM OneFeePerUser == AccountsSpec => []FeePerUser
<1>1. AccountsInit => Paid
  BY DEF AccountsInit, Paid, NobleType, HeldIsDue, FeeRegisters, RegisteringIsDue, FeePerUser
<1>2. Paid /\ [AccountsNext]_accountVars => Paid'
  BY PaidKept
<1>3. Paid => FeePerUser
  BY DEF Paid
<1> QED  BY <1>1, <1>2, <1>3, PTL DEF AccountsSpec
=============================================================================
