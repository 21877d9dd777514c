--------------------------- MODULE TreasuryWatch ---------------------------
(***************************************************************************)
(* The provider agent's watch of the treasury on BSC (USDT_SOURCE          *)
(* "kryptex-bsc"): transfers are booked from the logs of confirmed blocks  *)
(* into a pot that is paid out when somebody has shares, and saved at the  *)
(* end of the step.  The top of the chain may be reorganised, requests may *)
(* fail and the process may start again at any time.  A payment that fails *)
(* is not tried again: the exception is caught and the pot reduced.        *)
(*                                                                         *)
(* A block carries at most one transfer.  The keys of booked transfers     *)
(* ("seen") are left out: a window is left behind as it is booked.         *)
(***************************************************************************)
EXTENDS Integers, SequencesExt

CONSTANTS
    Amounts,        \* of transfers, 0 for none
    Confirmations,  \* BSC_CONFIRMATIONS
    Chunk,          \* BSC_SCAN_CHUNK
    MaxBlocks,      \* bound: blocks of the chain
    MaxReorgs,      \* bound: blocks replaced
    MaxFailures,    \* bound: requests and payments that fail
    MaxCrashes      \* bound: restarts

ASSUME TreasuryAssumption ==
    /\ Amounts \subseteq Nat /\ 0 \in Amounts
    /\ Confirmations \in Nat \ {0} /\ Chunk \in Nat \ {0}
    /\ MaxBlocks \in Nat /\ MaxReorgs \in Nat /\ MaxFailures \in Nat /\ MaxCrashes \in Nat

VARIABLES
    chain,    \* the transfer of each block
    books,    \* bsc_watch: last_block and pending6, and what was distributed
    saved,    \* the same in state.json
    at,       \* where the step is
    safe,     \* the highest block the step takes as confirmed
    value,    \* the step's epoch_usd
    origin,   \* the block after which the books that were saved begin
    began,    \* the same of the first books that were saved
    paid,     \* value that pay_provider paid or put down, ever
    unpaid,   \* value whose payment failed, ever
    reorgs, failures, crashes

watchBounds == <<reorgs, failures, crashes>>
payments == <<paid, unpaid>>
watchVars == <<chain, books, saved, at, safe, value, origin, began, payments, watchBounds>>

Fresh == [last |-> 0, pending |-> 0, distributed |-> 0]

WatchInit ==
    /\ chain \in [1..(Confirmations + 1) -> Amounts]
    /\ books = Fresh /\ saved = Fresh
    /\ at = "height" /\ safe = 0 /\ value = 0
    /\ origin = 0 /\ began = 0
    /\ paid = 0 /\ unpaid = 0
    /\ reorgs = 0 /\ failures = 0 /\ crashes = 0

-----------------------------------------------------------------------------
(* The chain *)

Mine ==
    /\ Len(chain) < MaxBlocks
    /\ \E amount \in Amounts : chain' = Append(chain, amount)
    /\ UNCHANGED <<books, saved, at, safe, value, origin, began, payments, watchBounds>>

\* A block with fewer confirmations is replaced.
Reorganise ==
    /\ reorgs < MaxReorgs /\ reorgs' = reorgs + 1
    /\ \E b \in (Len(chain) - Confirmations + 1)..Len(chain), amount \in Amounts :
          chain' = [chain EXCEPT ![b] = amount]
    /\ UNCHANGED <<books, saved, at, safe, value, origin, began, payments, failures, crashes>>

-----------------------------------------------------------------------------
(* The step *)

\* Variant: the newest block counts as confirmed.
ConfirmedNow == Len(chain)

\* safe_to
Confirmed == Len(chain) - Confirmations

\* The first run records the block it starts from.
ReadHeight ==
    /\ at = "height"
    /\ IF books.last = 0
       THEN /\ books' = [books EXCEPT !.last = Confirmed]
            /\ origin' = IF origin = 0 THEN Confirmed ELSE origin
            /\ at' = "pay" /\ value' = books.pending /\ UNCHANGED safe
       ELSE /\ safe' = Confirmed
            /\ at' = IF books.last < Confirmed THEN "logs" ELSE "pay"
            /\ value' = books.pending
            /\ UNCHANGED <<books, origin>>
    /\ UNCHANGED <<chain, saved, began, payments, watchBounds>>

\* Variant: the newest confirmed block is left out.
WindowEndShort == IF books.last + Chunk < safe THEN books.last + Chunk ELSE safe - 1

\* The last block of the window, of a chunk at most.
WindowEnd == IF books.last + Chunk < safe THEN books.last + Chunk ELSE safe

TransfersIn(first, last) ==
    FoldSeq(LAMBDA x, y : x + y, 0, SubSeq(chain, first, last))

\* The transfers of the window are booked and the window is left behind.
ReadLogs ==
    /\ at = "logs"
    /\ books' = [books EXCEPT !.pending = @ + TransfersIn(books.last + 1, WindowEnd),
                          !.last = WindowEnd]
    /\ value' = books'.pending
    /\ at' = "pay"
    /\ UNCHANGED <<chain, saved, safe, origin, began, payments, watchBounds>>

\* Either request fails: the pot is what it was.
ReadFails ==
    /\ at \in {"height", "logs"}
    /\ failures < MaxFailures /\ failures' = failures + 1
    /\ at' = "pay" /\ value' = books.pending
    /\ UNCHANGED <<chain, books, saved, safe, origin, began, payments, reorgs, crashes>>

\* With shares, the value is paid out in slices; of some the payment may fail.
Attribute ==
    /\ at = "pay" /\ value > 0
    /\ \E failed \in 0..value :
          /\ IF failed = 0 THEN UNCHANGED failures
             ELSE failures < MaxFailures /\ failures' = failures + 1
          /\ paid' = paid + (value - failed)
          /\ unpaid' = unpaid + failed
    /\ at' = "reduce"
    /\ UNCHANGED <<chain, books, saved, safe, value, origin, began, reorgs, crashes>>

\* Nobody has shares, or there is no value.
Hold ==
    /\ at = "pay"
    /\ at' = "save"
    /\ UNCHANGED <<chain, books, saved, safe, value, origin, began, payments, watchBounds>>

\* The pot is reduced by the value, and the value counted as distributed.
Reduced(pot) == [pot EXCEPT !.pending = @ - value, !.distributed = @ + value]

Reduce ==
    /\ at = "reduce"
    /\ books' = Reduced(books)
    /\ at' = "save"
    /\ UNCHANGED <<chain, saved, safe, value, origin, began, payments, watchBounds>>

SaveBooks ==
    /\ at = "save"
    /\ saved' = books
    /\ began' = IF began = 0 THEN origin ELSE began
    /\ at' = "height"
    /\ UNCHANGED <<chain, books, safe, value, origin, payments, watchBounds>>

WatchStep == ReadHeight \/ ReadLogs \/ ReadFails \/ Attribute \/ Hold \/ Reduce \/ SaveBooks

\* load_state; a file that a crash cut short cannot be parsed and leaves the
\* defaults: the books begin anew.
RestartWatch ==
    /\ crashes < MaxCrashes /\ crashes' = crashes + 1
    /\ \/ UNCHANGED saved
       \/ at = "save" /\ saved' = Fresh
    /\ books' = saved'
    /\ origin' = IF saved'.last = 0 THEN 0 ELSE origin
    /\ at' = "height" /\ value' = 0
    /\ UNCHANGED <<chain, safe, began, payments, reorgs, failures>>

WatchNext == Mine \/ Reorganise \/ WatchStep \/ RestartWatch

WatchSpec == WatchInit /\ [][WatchNext]_watchVars

\* The loop of epochs goes on, and a provider with shares is there now and then.
FairWatchSpec == WatchSpec /\ WF_watchVars(WatchStep) /\ SF_watchVars(Attribute)

-----------------------------------------------------------------------------
(* Properties *)

WatchTypeOK ==
    /\ chain \in Seq(Amounts)
    /\ \A w \in {books, saved} :
          w.last \in 0..Len(chain) /\ w.pending \in Nat /\ w.distributed \in Nat
    /\ at \in {"height", "logs", "pay", "reduce", "save"}
    /\ value \in Nat /\ paid \in Nat /\ unpaid \in Nat

\* Every transfer of the blocks behind is booked once, through failures,
\* reorganisations and restarts: it is in the pot or was counted as
\* distributed (bsc_scan_inflows).
BookedOnce ==
    books.pending + books.distributed =
        IF books.last = 0 THEN 0 ELSE TransfersIn(origin + 1, books.last)

\* What was distributed was given to pay_provider, or is about to be counted.
Given == books.distributed + (IF at = "reduce" THEN value ELSE 0)

\* What is counted as distributed was given to pay_provider, and given once
\* if the process never started again (step).
GivenOnce == Given <= paid + unpaid /\ (crashes = 0 => Given = paid + unpaid)

\* If there are shares now and then, the value of every confirmed transfer
\* since the books began is given to pay_provider in the end, which pays it
\* or fails to.
InflowPaidOut == <>[](books.distributed = TransfersIn(origin + 1, Confirmed) /\ GivenOnce)

\* agent.py:1041: "reduce the pending pot only once the inflow was paid out".
ReducedOncePaid == books.distributed <= paid

\* agent.py:541: inflow "is held, not lost -- across restarts too": what came
\* since the first books were saved is in the pot or was given to pay_provider.
HeldNotLost ==
    began # 0 /\ books.last # 0 =>
        TransfersIn(began + 1, books.last) <= books.pending + paid + unpaid
=============================================================================
