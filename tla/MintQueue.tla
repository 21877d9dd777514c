---------------------------- MODULE MintQueue ----------------------------
(***************************************************************************)
(* What the burn/mint engine promises of a request: the coins it takes are *)
(* held until the request is either executed or cancelled, once, and the   *)
(* outcome is final.  After a cancellation a recurring identifier may name *)
(* the next request of its owner.                                          *)
(***************************************************************************)
EXTENDS Naturals

CONSTANTS Requests, Recurring, Amounts

VARIABLES
    state,   \* [Requests -> "new", "pending", "executed" or "canceled"]
    locked   \* [Requests -> coins of the owner the engine holds for the request]

queueVars == <<state, locked>>

QueueInit ==
    /\ state = [r \in Requests |-> "new"]
    /\ locked = [r \in Requests |-> 0]

Request(r) ==
    /\ state[r] = "new" \/ (state[r] = "canceled" /\ r \in Recurring)
    /\ state' = [state EXCEPT ![r] = "pending"]
    /\ \E a \in Amounts : locked' = [locked EXCEPT ![r] = a]

\* Executing takes the coins, cancelling returns them: either way nothing
\* is held any more and the outcome stays.
Resolve(r, outcome) ==
    /\ state[r] = "pending"
    /\ state' = [state EXCEPT ![r] = outcome]
    /\ locked' = [locked EXCEPT ![r] = 0]

QueueNext ==
    \E r \in Requests : Request(r) \/ Resolve(r, "executed") \/ Resolve(r, "canceled")

QueueSpec == QueueInit /\ [][QueueNext]_queueVars
=============================================================================
