----------------------------- MODULE Forwarding -----------------------------
(***************************************************************************)
(* The forwarder's deposit accounts: a request derives the address of a    *)
(* user's forwarding account on Noble and notes it as pending, and the     *)
(* main loop registers the account, for a fee, once a deposit waits there. *)
(* Requests run while the loop waits for Noble, and the loop goes through  *)
(* the entries there were when it began.  Every change of the two tables   *)
(* is saved at once.                                                       *)
(*                                                                         *)
(* On a registered account nothing waits: Noble forwards it.               *)
(***************************************************************************)
EXTENDS Integers, SequencesExt

CONSTANTS
    Users,       \* Abakos addresses
    MaxPending,  \* entries of fwdPending (1000)
    MaxPerDay,   \* FWD_MAX_PER_DAY
    Ages,        \* BOOLEAN: entries grow older than 45 days
    Elsewhere,   \* BOOLEAN: users also register on their own
    MaxDeposits, \* bound: deposits of a user
    MaxFwdFaults, \* bound: requests and transactions that fail
    MaxRestarts  \* bound: restarts

ASSUME ForwardingAssumption ==
    /\ MaxPending \in Nat \ {0} /\ MaxPerDay \in Nat \ {0}
    /\ Ages \in BOOLEAN /\ Elsewhere \in BOOLEAN
    /\ MaxDeposits \in Nat /\ MaxFwdFaults \in Nat /\ MaxRestarts \in Nat

VARIABLES
    fwd,         \* users the state has as registered
    pending,     \* users with an entry in fwdPending, in their order
    old,         \* those whose entry is older than 45 days
    count,       \* fwdStats.count
    asked,       \* how far a user's request is
    told,        \* what the last answer to a user said
    visit,       \* entries the loop has still to look at
    oldVisit,    \* the old ones of them
    stage,       \* "look", "register" or "sent"
    registered,  \* users with a registered account on Noble
    held,        \* deposits that wait on accounts that are not registered
    deposits,    \* deposits of a user, ever
    fees,        \* fees paid for a user's account, ever
    failed,      \* transactions committed and refused, ever
    faults, crashes

tables == <<fwd, pending, old, count>>
loop == <<visit, oldVisit, stage>>
requests == <<asked, told>>
ledger == <<registered, held, deposits, fees, failed>>
bounds == <<faults, crashes>>
accountVars == <<tables, loop, requests, ledger, bounds>>

AccountsInit ==
    /\ fwd = {} /\ pending = <<>> /\ old = {} /\ count = 0
    /\ asked = [u \in Users |-> "no"] /\ told = [u \in Users |-> "nothing"]
    /\ visit = <<>> /\ oldVisit = {} /\ stage = "look"
    /\ registered = {} /\ held = [u \in Users |-> 0] /\ deposits = held
    /\ fees = held /\ failed = 0
    /\ faults = 0 /\ crashes = 0

RequestFails == faults < MaxFwdFaults /\ faults' = faults + 1

Without(u) == SelectSeq(pending, LAMBDA v : v # u)

-----------------------------------------------------------------------------
(* handleForwarding *)

Request(u) ==
    /\ asked[u] = "no"
    /\ IF u \in fwd
       THEN told' = [told EXCEPT ![u] = "registered"] /\ UNCHANGED asked
       ELSE asked' = [asked EXCEPT ![u] = "asked"] /\ UNCHANGED told
    /\ UNCHANGED <<tables, loop, ledger, bounds>>

\* Noble answers the query, or the request fails.
Query(u) ==
    /\ asked[u] = "asked"
    /\ \/ /\ asked' = [asked EXCEPT ![u] = IF u \in registered THEN "exists" ELSE "new"]
          /\ UNCHANGED faults
       \/ RequestFails /\ asked' = [asked EXCEPT ![u] = "no"]
    /\ UNCHANGED <<tables, loop, told, ledger, crashes>>

AnswerExists(u) ==
    /\ asked[u] = "exists"
    /\ fwd' = fwd \cup {u} /\ pending' = Without(u)
    /\ asked' = [asked EXCEPT ![u] = "no"] /\ told' = [told EXCEPT ![u] = "registered"]
    /\ UNCHANGED <<old, count, loop, ledger, bounds>>

\* A full table drops its oldest entry.
Noted(u) ==
    Append(IF Len(pending) >= MaxPending THEN Tail(pending) ELSE pending, u)

AnswerNew(u) ==
    /\ asked[u] = "new"
    /\ IF u \in Range(pending) THEN UNCHANGED <<pending, old>>
       ELSE pending' = Noted(u) /\ old' = old \ {u}
    /\ asked' = [asked EXCEPT ![u] = "no"] /\ told' = [told EXCEPT ![u] = "pending"]
    /\ UNCHANGED <<fwd, count, loop, ledger, bounds>>

-----------------------------------------------------------------------------
(* fwdPendingTick *)

StartTick ==
    /\ stage = "look" /\ visit = <<>> /\ pending # <<>>
    /\ visit' = pending /\ oldVisit' = old
    /\ UNCHANGED <<tables, stage, requests, ledger, bounds>>

Visited == Head(visit)
NextEntry == visit' = Tail(visit) /\ stage' = "look" /\ UNCHANGED oldVisit

\* Variant: an account is registered whatever waits there.
WorthAlways(u) == TRUE

Worth(u) == held[u] > 0

\* An entry is dropped when it is old, before its account is looked at.
Look ==
    /\ stage = "look" /\ visit # <<>>
    /\ IF Visited \in oldVisit
       THEN pending' = Without(Visited) /\ NextEntry /\ UNCHANGED faults
       ELSE /\ UNCHANGED pending
            /\ \/ Worth(Visited) /\ stage' = "register" /\ UNCHANGED <<visit, oldVisit, faults>>
               \/ ~Worth(Visited) /\ NextEntry /\ UNCHANGED faults
               \/ RequestFails /\ NextEntry
    /\ UNCHANGED <<fwd, old, count, requests, ledger, crashes>>

-----------------------------------------------------------------------------
(* registerForwarding *)

\* Variant: the entry that has to wait for the next day is dropped.
CapDrops ==
    /\ stage = "register" /\ count >= MaxPerDay
    /\ pending' = Without(Visited) /\ NextEntry
    /\ UNCHANGED <<fwd, old, count, requests, ledger, bounds>>

CapReached ==
    /\ stage = "register" /\ count >= MaxPerDay
    /\ NextEntry
    /\ UNCHANGED <<tables, requests, ledger, bounds>>

\* The transaction is committed; if the account exists by then, its error
\* says so and costs the fee, too.
BroadcastRegistration ==
    /\ stage = "register" /\ count < MaxPerDay
    /\ stage' = "sent"
    /\ registered' = registered \cup {Visited} /\ held' = [held EXCEPT ![Visited] = 0]
    /\ fees' = [fees EXCEPT ![Visited] = @ + 1]
    /\ UNCHANGED <<tables, visit, oldVisit, requests, deposits, failed, bounds>>

\* Variant: the code of a committed transaction is not looked at.
ErrorIgnored ==
    /\ stage = "register" /\ count < MaxPerDay
    /\ RequestFails /\ NextEntry
    /\ fees' = [fees EXCEPT ![Visited] = @ + 1] /\ failed' = failed + 1
    /\ fwd' = fwd \cup {Visited} /\ pending' = Without(Visited)
    /\ count' = count + 1
    /\ UNCHANGED <<old, requests, registered, held, deposits, crashes>>

\* It is not sent, or committed with another error.
RegistrationFails ==
    /\ stage = "register" /\ count < MaxPerDay
    /\ RequestFails /\ NextEntry
    /\ \/ UNCHANGED <<fees, failed>>
       \/ fees' = [fees EXCEPT ![Visited] = @ + 1] /\ failed' = failed + 1
    /\ UNCHANGED <<tables, requests, registered, held, deposits, crashes>>

ConfirmRegistration ==
    /\ stage = "sent"
    /\ count' = count + 1
    /\ fwd' = fwd \cup {Visited} /\ pending' = Without(Visited)
    /\ NextEntry
    /\ UNCHANGED <<old, requests, ledger, bounds>>

\* The answer to a transaction that was committed does not come.
AnswerLost ==
    /\ stage = "sent"
    /\ RequestFails /\ NextEntry
    /\ UNCHANGED <<tables, requests, ledger, crashes>>

PendingTick ==
    \/ StartTick \/ Look \/ CapReached
    \/ BroadcastRegistration \/ RegistrationFails
    \/ ConfirmRegistration \/ AnswerLost

-----------------------------------------------------------------------------
(* The users, time and the process *)

Deposit(u) ==
    /\ told[u] # "nothing"
    /\ deposits[u] < MaxDeposits
    /\ deposits' = [deposits EXCEPT ![u] = @ + 1]
    /\ held' = IF u \in registered THEN held ELSE [held EXCEPT ![u] = @ + 1]
    /\ UNCHANGED <<tables, loop, requests, registered, fees, failed, bounds>>

RegisterElsewhere(u) ==
    /\ Elsewhere /\ u \notin registered
    /\ registered' = registered \cup {u} /\ held' = [held EXCEPT ![u] = 0]
    /\ UNCHANGED <<tables, loop, requests, deposits, fees, failed, bounds>>

\* The first registration of a day starts the count again.
NewDay == count' = 0 /\ UNCHANGED <<fwd, pending, old, loop, requests, ledger, bounds>>

\* The entry of a user is now older than 45 days.
Age(u) ==
    /\ Ages /\ u \in Range(pending \o visit)
    /\ old' = old \cup {u} /\ oldVisit' = oldVisit \cup {u}
    /\ UNCHANGED <<fwd, pending, count, visit, stage, requests, ledger, bounds>>

RestartRelayer ==
    /\ crashes < MaxRestarts /\ crashes' = crashes + 1
    /\ asked' = [u \in Users |-> "no"]
    /\ visit' = <<>> /\ oldVisit' = {} /\ stage' = "look"
    /\ UNCHANGED <<tables, told, ledger, faults>>

AccountsNext ==
    \/ PendingTick
    \/ \E u \in Users :
          \/ Request(u) \/ Query(u) \/ AnswerExists(u) \/ AnswerNew(u)
          \/ Deposit(u) \/ RegisterElsewhere(u) \/ Age(u)
    \/ NewDay
    \/ RestartRelayer

AccountsSpec == AccountsInit /\ [][AccountsNext]_accountVars

\* The main loop goes on, and days pass.
FairAccountsSpec == AccountsSpec /\ WF_accountVars(PendingTick) /\ WF_accountVars(NewDay)

-----------------------------------------------------------------------------
(* Properties *)

AccountsTypeOK ==
    /\ fwd \in SUBSET Users /\ pending \in Seq(Users) /\ count \in Nat
    /\ old \in SUBSET Users /\ oldVisit \in SUBSET Users
    /\ asked \in [Users -> {"no", "asked", "exists", "new"}]
    /\ told \in [Users -> {"nothing", "pending", "registered"}]
    /\ visit \in Seq(Users) /\ stage \in {"look", "register", "sent"}
    /\ registered \in SUBSET Users
    /\ held \in [Users -> Nat] /\ deposits \in [Users -> Nat]
    /\ fees \in [Users -> Nat] /\ failed \in Nat

\* handleForwarding tells a user that the account is registered only when it
\* is, through lost answers, failed transactions and restarts.
ToldIsRegistered == \A u \in Users : told[u] = "registered" => u \in registered

\* forwarder.mjs:351: "the relayer only pays ~0.025 USDC per genuine new
\* user": one fee for a user who deposited, but for transactions that failed.
FeePerUser ==
    \A u \in Users : fees[u] <= failed + (IF deposits[u] > 0 THEN 1 ELSE 0)

\* forwarder.mjs:368: "registers automatically on first deposit".
DepositRegisters ==
    \A u \in Users : told[u] = "pending" /\ held[u] > 0 ~> u \in registered

\* It does, if the entry does not come of age.
DepositRegistersInTime ==
    \A u \in Users :
        [](u \notin old) => (told[u] = "pending" /\ held[u] > 0 ~> u \in registered)
=============================================================================
