--------------------------- MODULE TxBroadcaster ---------------------------
(***************************************************************************)
(* The serial broadcaster of the SDK's client: callers hand transactions   *)
(* to the goroutine run, which passes them on one at a time to the         *)
(* goroutine broadcaster, which keeps the account's sequence.  A           *)
(* transaction with a wrong sequence makes it ask the goroutine            *)
(* sequenceSync for the one the node has committed, and try once more.     *)
(*                                                                         *)
(* The node checks a sequence against the transactions in its mempool, but *)
(* answers a query from its last block.  Others may use the account, too.  *)
(* Broadcasts are those of mode sync, which end with the mempool's answer; *)
(* the second call of syncSequence never happens, since errors.Is does not *)
(* match an error made on the spot.                                        *)
(***************************************************************************)
EXTENDS Integers, SequencesExt

CONSTANTS
    Requests,    \* calls of BroadcastMsgs and BroadcastTx
    Signed,      \* those of BroadcastTx, signed by the caller
    Cancels,     \* BOOLEAN: callers give up
    Shuts,       \* BOOLEAN: the client's context ends
    MaxForeign,  \* bound: transactions of others with the account
    MaxFaults    \* bound: requests to the node that fail

ASSUME BroadcasterAssumption ==
    /\ Signed \subseteq Requests
    /\ Cancels \in BOOLEAN /\ Shuts \in BOOLEAN
    /\ MaxForeign \in Nat /\ MaxFaults \in Nat

VARIABLES
    call,        \* where each caller is
    told,        \* what each call returned
    reqch,       \* c.reqch, of capacity 1
    pending,     \* requests run has not passed on
    free,        \* broadcastCh is not nil
    broadcastch, \* c.broadcastch, of capacity 1
    donech,      \* broadcastDoneCh has a value
    response,    \* in the channel of each request
    stage,       \* where broadcaster is
    job,         \* the request it works on
    try,         \* of 2
    seq,         \* the sequence it signs with
    outcome,     \* of the last attempt
    syncer,      \* where sequenceSync is
    awaited,     \* broadcaster waits for its answer
    current,     \* the sequence it was asked with
    down,        \* lc.ShuttingDown() is closed
    checked,     \* sequence with the mempool
    committed,   \* sequence of the last block
    accepted,    \* requests whose transaction the node accepted, in order
    taken,       \* requests in the order run took them
    foreign, faults  \* so far

callers == <<call, told>>
queue == <<reqch, pending, free, broadcastch, donech, taken>>
worker == <<stage, job, try, seq, outcome>>
sync == <<syncer, awaited, current>>
node == <<checked, committed, accepted, foreign>>
broadcasterVars == <<callers, queue, response, worker, sync, down, node, faults>>

Nothing == "nothing"

BroadcasterInit ==
    /\ call = [r \in Requests |-> "idle"] /\ told = [r \in Requests |-> Nothing]
    /\ reqch = <<>> /\ pending = <<>> /\ free = TRUE /\ broadcastch = <<>>
    /\ donech = FALSE /\ taken = <<>>
    /\ response = [r \in Requests |-> Nothing]
    /\ stage = "idle" /\ job \in Requests /\ try = 1 /\ seq = 0 /\ outcome = Nothing
    /\ syncer = "idle" /\ awaited = FALSE /\ current = 0
    /\ down = FALSE
    /\ checked = 0 /\ committed = 0 /\ accepted = <<>> /\ foreign = 0
    /\ faults = 0

Fault == faults < MaxFaults /\ faults' = faults + 1

-----------------------------------------------------------------------------
(* Callers *)

Submit(r) ==
    /\ call[r] = "idle" /\ Len(reqch) < 1
    /\ reqch' = Append(reqch, r)
    /\ call' = [call EXCEPT ![r] = "waiting"]
    /\ UNCHANGED <<told, pending, free, broadcastch, donech, taken, response, worker, sync, down,
                   node, faults>>

Return(r, answer) ==
    /\ call' = [call EXCEPT ![r] = "over"]
    /\ told' = [told EXCEPT ![r] = answer]
    /\ UNCHANGED <<queue, response, worker, sync, down, node, faults>>

Receive(r) == call[r] = "waiting" /\ response[r] # Nothing /\ Return(r, response[r])
Cancel(r) == Cancels /\ call[r] # "over" /\ Return(r, "canceled")
NotRunning(r) == down /\ call[r] # "over" /\ Return(r, "closed")

-----------------------------------------------------------------------------
(* run *)

\* tryBroadcast
TryBroadcast(waiting, idle) ==
    IF waiting # <<>> /\ idle /\ Len(broadcastch) < 1
    THEN /\ broadcastch' = Append(broadcastch, Head(waiting))
         /\ pending' = Tail(waiting) /\ free' = FALSE
    ELSE pending' = waiting /\ free' = idle /\ UNCHANGED broadcastch

TakeRequest ==
    /\ ~down /\ reqch # <<>>
    /\ reqch' = <<>>
    /\ taken' = taken \o reqch
    /\ TryBroadcast(pending \o reqch, free)
    /\ UNCHANGED <<callers, donech, response, worker, sync, down, node, faults>>

\* Variant: run does not look at what is pending.
TakeDoneOnly ==
    /\ ~down /\ donech
    /\ donech' = FALSE /\ free' = TRUE
    /\ UNCHANGED <<callers, reqch, pending, broadcastch, taken, response, worker, sync, down,
                   node, faults>>

TakeDone ==
    /\ ~down /\ donech
    /\ donech' = FALSE
    /\ TryBroadcast(pending, TRUE)
    /\ UNCHANGED <<callers, reqch, taken, response, worker, sync, down, node, faults>>

\* The client's context ends; run goes with what is pending.
ShutDown ==
    /\ Shuts /\ ~down
    /\ down' = TRUE
    /\ UNCHANGED <<callers, queue, response, worker, sync, node, faults>>

-----------------------------------------------------------------------------
(* broadcaster *)

TakeJob ==
    /\ stage = "idle" /\ broadcastch # <<>>
    /\ job' = Head(broadcastch) /\ broadcastch' = <<>>
    /\ try' = 1 /\ stage' = "send"
    /\ UNCHANGED <<callers, reqch, pending, free, donech, taken, response, seq, outcome, sync,
                   down, node, faults>>

\* buildAndBroadcastTx counts on as soon as there is a response.
Attempted(result, next) ==
    /\ outcome' = result
    /\ seq' = IF job \in Signed THEN seq ELSE next
    /\ UNCHANGED <<callers, queue, response, job, try, sync, down, committed, foreign>>

\* Variant: an answer that was lost is taken for a wrong sequence.
AcceptAgain ==
    /\ stage = "send" /\ (job \in Signed \/ seq = checked)
    /\ checked' = checked + 1 /\ accepted' = Append(accepted, job)
    /\ \/ stage' = "reply" /\ Attempted("ok", seq + 1) /\ UNCHANGED faults
       \/ /\ stage' = IF job \in Signed THEN "reply" ELSE "sync"
          /\ Attempted("mismatch", seq) /\ Fault

Accept ==
    /\ stage = "send" /\ (job \in Signed \/ seq = checked)
    /\ checked' = checked + 1 /\ accepted' = Append(accepted, job)
    /\ stage' = "reply"
    /\ \/ Attempted("ok", seq + 1) /\ UNCHANGED faults
       \/ Attempted("error", seq) /\ Fault

\* Nothing was sent, or the node refuses the transaction for another reason.
Fail ==
    /\ stage = "send"
    /\ Fault
    /\ stage' = "reply"
    /\ Attempted("error", seq) \/ Attempted("refused", seq + 1)
    /\ UNCHANGED <<checked, accepted>>

\* The simulation does not count on, the broadcast does.
Mismatch ==
    /\ stage = "send" /\ (job \in Signed \/ seq # checked)
    /\ stage' = IF job \in Signed THEN "reply" ELSE "sync"
    /\ Attempted("mismatch", seq) \/ Attempted("mismatch", seq + 1)
    /\ UNCHANGED <<checked, accepted, faults>>

\* syncAccountSequence hands its request to sequenceSync.
AskSync ==
    /\ stage = "sync" /\ syncer = "idle"
    /\ syncer' = "asking" /\ awaited' = TRUE /\ current' = seq
    /\ stage' = "wait"
    /\ UNCHANGED <<callers, queue, response, job, try, seq, outcome, down, node, faults>>

\* The loop of two attempts.
Again ==
    IF try < 2 THEN stage' = "send" /\ try' = try + 1 ELSE stage' = "reply" /\ UNCHANGED try

\* No answer in time, or the client shuts down.
SyncTimeout ==
    /\ stage = "wait"
    /\ awaited' = FALSE
    /\ Again
    /\ UNCHANGED <<callers, queue, response, job, seq, outcome, syncer, current, down, node, faults>>

Reply ==
    /\ stage = "reply"
    /\ response' = [response EXCEPT ![job] = outcome]
    /\ stage' = "done"
    /\ UNCHANGED <<callers, queue, job, try, seq, outcome, sync, down, node, faults>>

Done ==
    /\ stage = "done"
    /\ stage' = "idle" /\ donech' = TRUE
    /\ UNCHANGED <<callers, reqch, pending, free, broadcastch, taken, response, job, try, seq,
                   outcome, sync, down, node, faults>>

End ==
    /\ down /\ stage \in {"idle", "done"}
    /\ stage' = "ended"
    /\ UNCHANGED <<callers, queue, response, job, try, seq, outcome, sync, down, node, faults>>

-----------------------------------------------------------------------------
(* sequenceSync *)

\* Without an answer, or from a node that is catching up, it is the sequence
\* it was asked with.  An answer nobody waits for is dropped.
SyncAnswer ==
    /\ syncer = "asking"
    /\ syncer' = "idle" /\ awaited' = FALSE
    /\ \E answer \in {committed, current} :
          /\ IF answer = committed THEN UNCHANGED faults ELSE Fault
          /\ IF awaited THEN seq' = answer /\ Again ELSE UNCHANGED <<seq, stage, try>>
    /\ UNCHANGED <<callers, queue, response, job, outcome, current, down, node>>

SyncEnd ==
    /\ down /\ syncer = "idle"
    /\ syncer' = "ended"
    /\ UNCHANGED <<callers, queue, response, worker, awaited, current, down, node, faults>>

-----------------------------------------------------------------------------
(* The node *)

Commit ==
    /\ committed < checked
    /\ committed' \in (committed + 1)..checked
    /\ UNCHANGED <<callers, queue, response, worker, sync, down, checked, accepted, foreign, faults>>

Foreign ==
    /\ foreign < MaxForeign /\ foreign' = foreign + 1
    /\ checked' = checked + 1
    /\ UNCHANGED <<callers, queue, response, worker, sync, down, committed, accepted, faults>>

Run == TakeRequest \/ TakeDone
Send == Accept \/ Fail \/ Mismatch
Broadcaster == TakeJob \/ Send \/ AskSync \/ SyncTimeout \/ Reply \/ Done \/ End
SequenceSync == SyncAnswer \/ SyncEnd
Caller(r) == Submit(r) \/ Receive(r) \/ NotRunning(r)

BroadcasterNext ==
    \/ \E r \in Requests : Caller(r) \/ Cancel(r)
    \/ Run \/ Broadcaster \/ SequenceSync
    \/ ShutDown
    \/ Commit \/ Foreign

BroadcasterSpec == BroadcasterInit /\ [][BroadcasterNext]_broadcasterVars

\* The goroutines run, and waiting for the node's status is not bounded.
RunBroadcasterSpec ==
    /\ BroadcasterSpec
    /\ WF_broadcasterVars(Run) /\ WF_broadcasterVars(Broadcaster)
    /\ \A r \in Requests : WF_broadcasterVars(Caller(r))

\* The node answers.
FairBroadcasterSpec == RunBroadcasterSpec /\ WF_broadcasterVars(SequenceSync)

-----------------------------------------------------------------------------
(* Properties *)

Outcomes == {Nothing, "ok", "error", "refused", "mismatch"}

\* The channels hold one value, a request has two attempts at most, and the
\* node does not commit what its mempool did not check.
BroadcasterTypeOK ==
    /\ call \in [Requests -> {"idle", "waiting", "over"}]
    /\ told \in [Requests -> Outcomes \cup {"canceled", "closed"}]
    /\ reqch \in Seq(Requests) /\ pending \in Seq(Requests) /\ broadcastch \in Seq(Requests)
    /\ Len(reqch) <= 1 /\ Len(broadcastch) <= 1
    /\ free \in BOOLEAN /\ donech \in BOOLEAN /\ down \in BOOLEAN
    /\ response \in [Requests -> Outcomes]
    /\ stage \in {"idle", "send", "sync", "wait", "reply", "done", "ended"}
    /\ job \in Requests /\ try \in 1..2 /\ seq \in Nat /\ outcome \in Outcomes
    /\ syncer \in {"idle", "asking", "ended"} /\ awaited \in BOOLEAN /\ current \in Nat
    /\ checked \in Nat /\ committed \in 0..checked

\* The messages of a request are in one transaction at most, through second
\* attempts, answers that are lost and sequences that were wrong.
ExecutedOnce == \A i, j \in DOMAIN accepted : accepted[i] = accepted[j] => i = j

\* Transactions reach the node in the order run took the requests
\* (serialBroadcaster).
InOrder ==
    \A i, j \in DOMAIN accepted, k, l \in DOMAIN taken :
        accepted[i] = taken[k] /\ accepted[j] = taken[l] /\ i < j => k < l

\* Both: the node accepts each request once, in the order of the requests.
OnceInOrder == ExecutedOnce /\ InOrder

\* A caller who is told "ok" had its transaction accepted, one who is told
\* that it was refused or had a wrong sequence did not.
AnswerIsTrue ==
    \A r \in Requests :
        /\ told[r] = "ok" => r \in Range(accepted)
        /\ told[r] \in {"refused", "mismatch"} => r \notin Range(accepted)

\* Every call returns, without giving up (BroadcastMsgs, BroadcastTx).
Returns == \A r \in Requests : call[r] = "waiting" ~> call[r] = "over"

\* tx.go:39: "timed-out waiting for sequence sync": broadcaster does not wait
\* for a sequence for ever.
SyncTimesOut == stage \in {"sync", "wait"} ~> stage \notin {"sync", "wait"}
=============================================================================
