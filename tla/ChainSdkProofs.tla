--------------------------- MODULE ChainSdkProofs ---------------------------
(***************************************************************************)
(* Proofs about the Go SDK of the chain: the serial broadcaster of its     *)
(* client (TxBroadcaster) and its event bus (PubSub).                      *)
(***************************************************************************)
EXTENDS TxBroadcaster, PubSub, SequenceTheorems, TLAPS

-----------------------------------------------------------------------------
(***************************************************************************)
(* The serial broadcaster: the node accepts each request once and in their *)
(* order, and an answer says what became of the request, for any requests, *)
(* signed by whoever, and any faults.                                      *)
(*                                                                         *)
(* What is pending, handed over and worked on are consecutive parts of     *)
(* what run took (QueueOrder), and no request is taken twice (TakenOnce).  *)
(* So the request broadcaster works on comes after all that were accepted  *)
(* or answered, and while it has an attempt left it is not among them.     *)
(***************************************************************************)

BroadcasterTypes == BroadcasterTypeOK /\ taken \in Seq(Requests) /\ accepted \in Seq(Requests)

\* The requests broadcaster has begun; those of them that may be accepted,
\* and those that may be answered.
Begun == Len(taken) - Len(pending) - Len(broadcastch)
Tried == IF stage \in {"send", "sync", "wait"} THEN Begun - 1 ELSE Begun
Answered == IF stage = "reply" THEN Begun - 1 ELSE Tried

QueueOrder ==
    /\ Begun \in Nat
    /\ \A i \in 1..Len(broadcastch) : broadcastch[i] = taken[Begun + i]
    /\ \A i \in 1..Len(pending) : pending[i] = taken[Begun + Len(broadcastch) + i]
    /\ stage \notin {"idle", "ended"} => Begun > 0 /\ job = taken[Begun]

TakenOnce ==
    /\ \A i, j \in 1..Len(taken) : taken[i] = taken[j] => i = j
    /\ \A i \in 1..Len(taken) : call[taken[i]] # "idle"
    /\ \A i \in 1..Len(reqch) :
          call[reqch[i]] # "idle" /\ \A j \in 1..Len(taken) : taken[j] # reqch[i]

AcceptedTried == \A i \in 1..Len(accepted) : \E k \in 1..Tried : accepted[i] = taken[k]

\* An answer is the result of the last attempt, and is given once.
True(r, answer) ==
    /\ answer = "ok" => \E i \in 1..Len(accepted) : accepted[i] = r
    /\ answer \in {"refused", "mismatch"} => \A i \in 1..Len(accepted) : accepted[i] # r

AnswersTrue ==
    /\ stage \in {"sync", "wait"} => outcome = "mismatch"
    /\ awaited => stage = "wait"
    /\ stage = "reply" => outcome # Nothing /\ True(job, outcome)
    /\ \A r \in Requests :
          /\ response[r] # Nothing => \E k \in 1..Answered : r = taken[k]
          /\ True(r, response[r])
          /\ told[r] \in Outcomes => told[r] = Nothing \/ told[r] = response[r]

BroadcasterInv == BroadcasterTypes /\ QueueOrder /\ TakenOnce /\ AcceptedTried /\ OnceInOrder /\ AnswersTrue

\* One element is put at the end of a sequence.
LEMMA OneMore ==
    ASSUME NEW S, NEW s \in Seq(S), NEW t \in Seq(S), Len(t) = 1
    PROVE  /\ s \o t \in Seq(S) /\ Len(s \o t) = Len(s) + 1
           /\ \A i \in 1..Len(s) : (s \o t)[i] = s[i]
           /\ (s \o t)[Len(s) + 1] = t[1]
  <1>1. s \o t \in Seq(S) /\ Len(s \o t) = Len(s) + Len(t) /\ Len(s) \in Nat
    BY ConcatProperties
  <1>2. \A i \in 1..(Len(s) + Len(t)) :
           (s \o t)[i] = IF i <= Len(s) THEN s[i] ELSE t[i - Len(s)]
    BY ConcatProperties
  <1>. QED
    BY <1>1, <1>2

\* A value is sent on a channel that has none.
LEMMA OneSent ==
    ASSUME NEW S, NEW s \in Seq(S), Len(s) < 1, NEW e \in S
    PROVE  /\ Append(s, e) \in Seq(S) /\ Len(Append(s, e)) = 1 /\ Append(s, e)[1] = e
  <1>1. Len(s) = 0
    OBVIOUS
  <1>. QED
    BY <1>1

LEMMA BroadcasterTypesKept ==
    ASSUME BroadcasterTypes, [BroadcasterNext]_broadcasterVars
    PROVE  BroadcasterTypes'
  <1>. USE BroadcasterAssumption
  <1>1. CASE \E r \in Requests : Submit(r)
    BY <1>1 DEF BroadcasterTypes, BroadcasterTypeOK, Submit, worker, sync, node
  <1>2. ASSUME NEW r \in Requests, NEW answer \in Outcomes \cup {"canceled", "closed"},
               Return(r, answer)
        PROVE  BroadcasterTypes'
    BY <1>2 DEF BroadcasterTypes, BroadcasterTypeOK, Return, queue, worker, sync, node
  <1>3. CASE \E r \in Requests : Receive(r) \/ Cancel(r) \/ NotRunning(r)
    <2>1. \A r \in Requests : response[r] \in Outcomes
      BY DEF BroadcasterTypes, BroadcasterTypeOK
    <2>. QED
      BY <1>2, <1>3, <2>1 DEF Receive, Cancel, NotRunning
  <1>18. broadcastch \in Seq(Requests) /\ Len(broadcastch) <= 1
    BY DEF BroadcasterTypes, BroadcasterTypeOK
  <1>4. ASSUME NEW waiting \in Seq(Requests), NEW idle \in BOOLEAN, TryBroadcast(waiting, idle)
        PROVE  /\ pending' \in Seq(Requests) /\ broadcastch' \in Seq(Requests)
               /\ Len(broadcastch') <= 1
    <2>1. CASE waiting # <<>> /\ idle /\ Len(broadcastch) < 1
      <3>1. Head(waiting) \in Requests /\ Tail(waiting) \in Seq(Requests)
        BY <2>1
      <3>. QED
        <4>1. pending' = Tail(waiting) /\ broadcastch' = Append(broadcastch, Head(waiting))
          BY <1>4, <2>1, Zenon DEF TryBroadcast
        <4>2. Len(broadcastch) < 1
          BY <2>1
        <4>3. /\ Append(broadcastch, Head(waiting)) \in Seq(Requests)
              /\ Len(Append(broadcastch, Head(waiting))) = 1
          BY <1>18, <3>1, <4>2, OneSent
        <4>. QED
          BY <3>1, <4>1, <4>3
    <2>2. CASE ~(waiting # <<>> /\ idle /\ Len(broadcastch) < 1)
      BY <1>4, <1>18, <2>2 DEF TryBroadcast
    <2>. QED
      BY <2>1, <2>2
  <1>5. CASE Run
    <2>1. pending \in Seq(Requests) /\ pending \o reqch \in Seq(Requests)
          /\ taken \o reqch \in Seq(Requests) /\ free \in BOOLEAN
      BY DEF BroadcasterTypes, BroadcasterTypeOK
    <2>2. /\ pending' \in Seq(Requests) /\ broadcastch' \in Seq(Requests)
          /\ Len(broadcastch') <= 1
      BY <1>4, <1>5, <2>1 DEF Run, TakeRequest, TakeDone
    <2>3. /\ taken' \in Seq(Requests) /\ reqch' \in Seq(Requests) /\ Len(reqch') <= 1
      <3>1. <<>> \in Seq(Requests) /\ Len(<<>>) = 0
        OBVIOUS
      <3>2. /\ taken \in Seq(Requests) /\ reqch \in Seq(Requests) /\ Len(reqch) <= 1
        BY DEF BroadcasterTypes, BroadcasterTypeOK
      <3>3. taken' \in {taken, taken \o reqch} /\ reqch' \in {reqch, <<>>}
        BY <1>5 DEF Run, TakeRequest, TakeDone
      <3>4. taken' \in Seq(Requests)
        BY <2>1, <3>2, <3>3
      <3>5. reqch' \in Seq(Requests) /\ Len(reqch') <= 1
        <4>1. CASE reqch' = reqch
          BY <3>2, <4>1
        <4>2. CASE reqch' = <<>>
          BY <3>1, <4>2
        <4>. QED
          BY <3>3, <4>1, <4>2
      <3>. QED
        BY <3>4, <3>5
    <2>5. free' \in BOOLEAN
      BY <1>5, <2>1, Zenon DEF Run, TakeRequest, TakeDone, TryBroadcast
    <2>6. donech' \in BOOLEAN
      <3>1. donech \in BOOLEAN
        BY DEF BroadcasterTypes, BroadcasterTypeOK
      <3>. QED
        BY <1>5, <3>1, Zenon DEF Run, TakeRequest, TakeDone
    <2>4. UNCHANGED <<callers, response, worker, sync, down, node>>
      BY <1>5 DEF Run, TakeRequest, TakeDone
    <2>. QED
      BY <2>2, <2>3, <2>4, <2>5, <2>6
      DEF BroadcasterTypes, BroadcasterTypeOK, callers, worker, sync, node
  <1>6. CASE Commit
    <2>1. committed' \in 0..checked
      BY <1>6 DEF Commit, BroadcasterTypes, BroadcasterTypeOK
    <2>2. UNCHANGED <<callers, queue, response, worker, sync, down, checked, accepted>>
      BY <1>6 DEF Commit
    <2>. QED
      BY <2>1, <2>2 DEF BroadcasterTypes, BroadcasterTypeOK, callers, queue, worker, sync
  <1>15. CASE Foreign
    <2>1. checked' = checked + 1 /\ committed' = committed
          /\ UNCHANGED <<callers, queue, response, worker, sync, down, accepted>>
      BY <1>15 DEF Foreign
    <2>. QED
      BY <2>1 DEF BroadcasterTypes, BroadcasterTypeOK, callers, queue, worker, sync
  <1>19. CASE ShutDown
    BY <1>19 DEF ShutDown, BroadcasterTypes, BroadcasterTypeOK, callers, queue, worker, sync, node
  <1>20. CASE SyncEnd
    BY <1>20 DEF SyncEnd, BroadcasterTypes, BroadcasterTypeOK, callers, queue, worker, node
  <1>16. CASE AskSync \/ End \/ Done
    BY <1>16 DEF AskSync, End, Done, BroadcasterTypes, BroadcasterTypeOK, callers, queue, worker,
                 sync, node
  <1>7. CASE TakeJob
    <2>1. Head(broadcastch) \in Requests
      BY <1>7 DEF TakeJob, BroadcasterTypes, BroadcasterTypeOK
    <2>. QED
      BY <1>7, <2>1 DEF TakeJob, BroadcasterTypes, BroadcasterTypeOK, callers, sync, node
  <1>8. CASE Accept
    BY <1>8 DEF Accept, Attempted, BroadcasterTypes, BroadcasterTypeOK, Outcomes,
                callers, queue, sync
  <1>9. CASE Fail
    BY <1>9 DEF Fail, Attempted, BroadcasterTypes, BroadcasterTypeOK, Outcomes,
                callers, queue, sync
  <1>10. CASE Mismatch
    BY <1>10 DEF Mismatch, Attempted, BroadcasterTypes, BroadcasterTypeOK, Outcomes,
                 callers, queue, sync
  <1>17. Again => stage' \in {"send", "reply"} /\ try' \in 1..2
    BY DEF Again, BroadcasterTypes, BroadcasterTypeOK
  <1>11. CASE SyncTimeout
    <2>1. stage' \in {"send", "reply"} /\ try' \in 1..2
      BY <1>11, <1>17 DEF SyncTimeout
    <2>2. /\ awaited' = FALSE
          /\ UNCHANGED <<callers, queue, response, job, seq, outcome, syncer, current, down, node>>
      BY <1>11 DEF SyncTimeout
    <2>. QED
      BY <2>1, <2>2 DEF BroadcasterTypes, BroadcasterTypeOK, callers, queue, node
  <1>12. CASE Reply
    BY <1>12 DEF Reply, BroadcasterTypes, BroadcasterTypeOK, callers, queue, sync, node
  <1>13. CASE SyncAnswer
    <2>1. /\ syncer' = "idle" /\ awaited' = FALSE
          /\ UNCHANGED <<callers, queue, response, job, outcome, current, down, node>>
      BY <1>13 DEF SyncAnswer
    <2>2. \/ /\ seq' \in {committed, current}
             /\ stage' \in {"send", "reply"} /\ try' \in 1..2
          \/ UNCHANGED <<seq, stage, try>>
      BY <1>13, <1>17 DEF SyncAnswer
    <2>3. committed \in Nat /\ current \in Nat
      BY DEF BroadcasterTypes, BroadcasterTypeOK
    <2>. QED
      BY <2>1, <2>2, <2>3 DEF BroadcasterTypes, BroadcasterTypeOK, callers, queue, node
  <1>14. CASE UNCHANGED broadcasterVars
    BY <1>14 DEF broadcasterVars, BroadcasterTypes, BroadcasterTypeOK, callers, queue, worker,
                 sync, node
  <1>. QED
    BY <1>1, <1>3, <1>5, <1>6, <1>7, <1>8, <1>9, <1>10, <1>11, <1>12, <1>13, <1>14,
       <1>15, <1>16, <1>19, <1>20
    DEF BroadcasterNext, Caller, Run, Send, Broadcaster, SequenceSync

LEMMA BroadcasterStarts == BroadcasterInit => BroadcasterInv
  <1>. SUFFICES ASSUME BroadcasterInit PROVE BroadcasterInv
    OBVIOUS
  <1>1. BroadcasterTypes
    <2>1. <<>> \in Seq(Requests) /\ Len(<<>>) = 0
      OBVIOUS
    <2>2. /\ call \in [Requests -> {"idle", "waiting", "over"}]
          /\ told \in [Requests -> Outcomes \cup {"canceled", "closed"}]
          /\ response \in [Requests -> Outcomes] /\ outcome \in Outcomes
      BY DEF BroadcasterInit, Outcomes
    <2>3. seq \in Nat /\ try \in 1..2 /\ current \in Nat /\ checked \in Nat
          /\ committed \in 0..checked
      BY DEF BroadcasterInit
    <2>4. free \in BOOLEAN /\ donech \in BOOLEAN /\ down \in BOOLEAN /\ awaited \in BOOLEAN
      BY DEF BroadcasterInit
    <2>. QED
      BY <2>1, <2>2, <2>3, <2>4 DEF BroadcasterInit, BroadcasterTypes, BroadcasterTypeOK
  <1>2. QueueOrder /\ TakenOnce /\ AcceptedTried /\ OnceInOrder
    BY DEF BroadcasterInit, QueueOrder, Begun, TakenOnce, AcceptedTried, OnceInOrder,
           ExecutedOnce, InOrder
  <1>3. AnswersTrue
    BY DEF BroadcasterInit, AnswersTrue, True, Nothing
  <1>. QED
    BY <1>1, <1>2, <1>3 DEF BroadcasterInv

\* Lengths are natural numbers, and the parts fit into what was taken.
LEMMA Lengths ==
    ASSUME BroadcasterTypes, QueueOrder
    PROVE  /\ Len(taken) \in Nat /\ Len(pending) \in Nat /\ Len(broadcastch) \in {0, 1}
           /\ Len(accepted) \in Nat /\ Len(reqch) \in {0, 1}
           /\ Begun \in 0..Len(taken) /\ Tried \in Int /\ Answered \in Int
           /\ Tried <= Begun /\ Answered <= Tried
           /\ stage \in {"send", "sync", "wait"} => Tried = Begun - 1
           /\ stage \notin {"send", "sync", "wait"} => Tried = Begun
  <1>1. /\ Len(taken) \in Nat /\ Len(pending) \in Nat /\ Len(broadcastch) \in Nat
        /\ Len(accepted) \in Nat /\ Len(reqch) \in Nat
        /\ Len(broadcastch) <= 1 /\ Len(reqch) <= 1
    BY DEF BroadcasterTypes, BroadcasterTypeOK
  <1>2. Begun \in 0..Len(taken)
    BY <1>1 DEF QueueOrder, Begun
  <1>3. /\ stage \in {"send", "sync", "wait"} => Tried = Begun - 1
        /\ stage \notin {"send", "sync", "wait"} => Tried = Begun
        /\ stage # "reply" => Answered = Tried
        /\ stage = "reply" => Answered = Begun - 1
    BY DEF Tried, Answered
  <1>. HIDE DEF Tried, Answered
  <1>4. Tried \in Int /\ Tried <= Begun
    BY <1>2, <1>3
  <1>5. Answered \in Int /\ Answered <= Tried
    BY <1>2, <1>3, <1>4
  <1>6. Len(broadcastch) \in {0, 1} /\ Len(reqch) \in {0, 1}
    <2>1. \A n \in Nat : n <= 1 => n \in {0, 1}
      OBVIOUS
    <2>. QED
      BY <1>1, <2>1
  <1>. QED
    BY <1>1, <1>2, <1>3, <1>4, <1>5, <1>6

\* A step of broadcaster that changes no queue, and no answer.
LEMMA StageMoves ==
    ASSUME BroadcasterInv, BroadcasterTypes',
           UNCHANGED <<call, told, reqch, pending, broadcastch, taken, response, job, accepted>>,
           stage' \in {"idle", "ended"} \/ stage \notin {"idle", "ended"},
           stage' \in {"send", "sync", "wait"} => stage \in {"send", "sync", "wait"},
           stage' = "reply" => stage \in {"send", "sync", "wait", "reply"},
           stage' \in {"sync", "wait"} => outcome' = "mismatch",
           awaited' => stage' = "wait",
           stage' = "reply" => outcome' # Nothing /\ True(job, outcome')
    PROVE  BroadcasterInv'
  <1>. DEFINE B == Begun
  <1>1. Begun' = Begun
    BY DEF Begun
  <1>2. Tried \in Int /\ Tried' \in Int /\ Tried <= Tried' /\ Answered \in Int
        /\ Answered' \in Int /\ Answered <= Answered'
    BY <1>1, Lengths DEF Tried, Answered, BroadcasterInv, QueueOrder
  <1>3. QueueOrder' /\ TakenOnce' /\ OnceInOrder'
    BY <1>1 DEF BroadcasterInv, QueueOrder, TakenOnce, OnceInOrder, ExecutedOnce, InOrder
  <1>4. AcceptedTried'
    <2>1. \A k \in 1..Tried : k \in 1..Tried'
      BY <1>2
    <2>. QED
      BY <2>1 DEF BroadcasterInv, AcceptedTried
  <1>5. AnswersTrue'
    <2>1. \A k \in 1..Answered : k \in 1..Answered'
      BY <1>2
    <2>2. \A r, answer : True(r, answer) => True(r, answer)'
      BY DEF True
    <2>3. \A r \in Requests :
             /\ response'[r] # Nothing => \E k \in 1..Answered' : r = taken'[k]
             /\ True(r, response[r])'
             /\ told'[r] \in Outcomes => told'[r] = Nothing \/ told'[r] = response'[r]
      BY <2>1 DEF BroadcasterInv, AnswersTrue, True
    <2>4. stage' = "reply" => outcome' # Nothing /\ True(job, outcome)'
      BY DEF True
    <2>. QED
      BY <2>3, <2>4 DEF AnswersTrue
  <1>. QED
    BY <1>3, <1>4, <1>5 DEF BroadcasterInv

\* The request that broadcaster works on was not accepted yet while it has an
\* attempt left, and not answered before it is.
LEMMA JobIsNew ==
    ASSUME BroadcasterInv
    PROVE  /\ stage \in {"send", "sync", "wait"} => \A i \in 1..Len(accepted) : accepted[i] # job
           /\ stage \in {"send", "sync", "wait", "reply"} => response[job] = Nothing
           /\ stage \in {"send", "sync", "wait", "reply"} => Begun \in 1..Len(taken)
           /\ \A k \in 1..Len(taken) :
                 stage \in {"send", "sync", "wait", "reply"} /\ taken[k] = job => k = Begun
  <1>1. /\ Begun \in 0..Len(taken) /\ Len(taken) \in Nat /\ Tried \in Int /\ Answered \in Int
        /\ Tried <= Begun /\ Answered <= Tried
    BY Lengths DEF BroadcasterInv
  <1>2. ASSUME stage \in {"send", "sync", "wait", "reply"}
        PROVE  /\ Begun \in 1..Len(taken) /\ job = taken[Begun] /\ Answered < Begun
               /\ \A k \in 1..Len(taken) : taken[k] = job => k = Begun
    BY <1>1, <1>2 DEF BroadcasterInv, QueueOrder, TakenOnce, Answered, Tried
  <1>3. ASSUME stage \in {"send", "sync", "wait"}
        PROVE  \A i \in 1..Len(accepted) : accepted[i] # job
    <2>1. Tried < Begun
      BY <1>1, <1>3 DEF Tried
    <2>2. \A k \in 1..Tried : k \in 1..Len(taken) /\ k # Begun
      BY <1>1, <2>1
    <2>. QED
      BY <1>2, <1>3, <2>2 DEF BroadcasterInv, AcceptedTried
  <1>4. ASSUME stage \in {"send", "sync", "wait", "reply"}
        PROVE  response[job] = Nothing
    <2>1. \A k \in 1..Answered : k \in 1..Len(taken) /\ k # Begun
      BY <1>1, <1>2, <1>4
    <2>2. job \in Requests
      BY DEF BroadcasterInv, BroadcasterTypes, BroadcasterTypeOK
    <2>. QED
      BY <1>2, <1>4, <2>1, <2>2 DEF BroadcasterInv, AnswersTrue
  <1>. QED
    BY <1>2, <1>3, <1>4

\* run and the callers: what was accepted and answered was taken before.
LEMMA TakenGrows ==
    ASSUME BroadcasterInv, BroadcasterTypes', QueueOrder', TakenOnce', Begun' = Begun,
           UNCHANGED <<stage, job, outcome, awaited, response, accepted>>,
           Len(taken) <= Len(taken'), \A k \in 1..Len(taken) : taken'[k] = taken[k],
           \A r \in Requests : told'[r] \in Outcomes => told'[r] \in {told[r], response[r]}
    PROVE  BroadcasterInv'
  <1>1. /\ Begun \in 0..Len(taken) /\ Len(taken) \in Nat /\ Tried \in Int /\ Answered \in Int
        /\ Tried <= Begun /\ Answered <= Tried /\ Len(taken') \in Nat
    BY Lengths DEF BroadcasterInv, BroadcasterTypes
  <1>2. Tried' = Tried /\ Answered' = Answered
    BY DEF Tried, Answered
  <1>3. \A k \in 1..Tried : k \in 1..Len(taken) /\ k \in 1..Len(taken') /\ taken'[k] = taken[k]
    BY <1>1
  <1>4. \A k \in 1..Answered : taken'[k] = taken[k]
    BY <1>1
  <1>5. AcceptedTried'
    BY <1>2, <1>3 DEF BroadcasterInv, AcceptedTried
  <1>6. OnceInOrder'
    <2>. DEFINE A == 1..Len(accepted)
    <2>1. /\ DOMAIN accepted = A /\ DOMAIN accepted' = A
          /\ DOMAIN taken = 1..Len(taken) /\ DOMAIN taken' = 1..Len(taken')
      BY DEF BroadcasterInv, BroadcasterTypes
    <2>2. ASSUME NEW i \in A, NEW k \in 1..Len(taken'), accepted[i] = taken'[k]
          PROVE  k \in 1..Len(taken) /\ accepted[i] = taken[k]
      <3>1. PICK m \in 1..Tried : accepted[i] = taken[m]
        BY DEF BroadcasterInv, AcceptedTried
      <3>2. m = k
        <4>1. \A x, y \in 1..Len(taken') : taken'[x] = taken'[y] => x = y
          BY DEF TakenOnce
        <4>. QED
          BY <1>3, <2>2, <3>1, <4>1
      <3>. QED
        BY <1>3, <3>1, <3>2
    <2>3. ExecutedOnce'
      BY DEF BroadcasterInv, OnceInOrder, ExecutedOnce
    <2>4. InOrder'
      BY <2>1, <2>2 DEF BroadcasterInv, OnceInOrder, InOrder
    <2>. QED
      BY <2>3, <2>4 DEF OnceInOrder
  <1>7. AnswersTrue'
    <2>1. \A r, answer : True(r, answer)' <=> True(r, answer)
      BY DEF True
    <2>. QED
      BY <1>2, <1>4, <2>1 DEF BroadcasterInv, AnswersTrue, True
  <1>. QED
    BY <1>5, <1>6, <1>7 DEF BroadcasterInv

LEMMA CallersKeep ==
    ASSUME BroadcasterInv, BroadcasterTypes', NEW r \in Requests,
           Submit(r) \/ Receive(r) \/ Cancel(r) \/ NotRunning(r)
    PROVE  BroadcasterInv'
  <1>1. Len(reqch) \in {0, 1} /\ reqch \in Seq(Requests)
    BY Lengths DEF BroadcasterInv, BroadcasterTypes, BroadcasterTypeOK
  <1>2. UNCHANGED <<stage, job, outcome, awaited, response, accepted, taken, pending, broadcastch>>
    BY DEF Submit, Receive, Cancel, NotRunning, Return, worker, sync, node, queue
  <1>3. QueueOrder' /\ Begun' = Begun
    BY <1>2 DEF BroadcasterInv, QueueOrder, Begun
  <1>4. CASE Submit(r)
    <2>1. /\ Len(reqch') = 1 /\ reqch'[1] = r
          /\ call[r] = "idle" /\ call' = [call EXCEPT ![r] = "waiting"] /\ told' = told
      BY <1>1, <1>4, OneSent DEF Submit
    <2>2. TakenOnce'
      <3>1. call \in [Requests -> {"idle", "waiting", "over"}]
        BY DEF BroadcasterInv, BroadcasterTypes, BroadcasterTypeOK
      <3>2. \A i \in 1..Len(taken) : taken[i] \in Requests /\ taken[i] # r /\ call[taken[i]] # "idle"
        BY <2>1 DEF BroadcasterInv, TakenOnce, BroadcasterTypes
      <3>3. \A x \in Requests : x # r => call'[x] = call[x]
        BY <2>1, <3>1
      <3>4. call'[r] # "idle"
        BY <2>1, <3>1
      <3>. QED
        BY <1>2, <2>1, <3>2, <3>3, <3>4 DEF BroadcasterInv, TakenOnce
    <2>3. Len(taken) <= Len(taken')
      BY <1>2, Lengths DEF BroadcasterInv
    <2>. QED
      BY <1>2, <1>3, <2>1, <2>2, <2>3, TakenGrows
  <1>5. CASE Receive(r) \/ Cancel(r) \/ NotRunning(r)
    <2>1. PICK answer : Return(r, answer) /\ answer \in {response[r], "canceled", "closed"}
      BY <1>5 DEF Receive, Cancel, NotRunning
    <2>2. /\ call' = [call EXCEPT ![r] = "over"] /\ told' = [told EXCEPT ![r] = answer]
          /\ reqch' = reqch
      BY <2>1 DEF Return, queue
    <2>3. /\ call \in [Requests -> {"idle", "waiting", "over"}]
          /\ \A i \in 1..Len(taken) : taken[i] \in Requests
          /\ \A i \in 1..Len(reqch) : reqch[i] \in Requests
      BY <1>1 DEF BroadcasterInv, BroadcasterTypes, BroadcasterTypeOK
    <2>4. \A x \in Requests : call[x] # "idle" => call'[x] # "idle"
      BY <2>2, <2>3
    <2>5. TakenOnce'
      BY <1>2, <2>2, <2>3, <2>4 DEF BroadcasterInv, TakenOnce
    <2>6. \A x \in Requests : told'[x] \in Outcomes => told'[x] \in {told[x], response[x]}
      <3>1. told \in [Requests -> Outcomes \cup {"canceled", "closed"}]
        BY DEF BroadcasterInv, BroadcasterTypes, BroadcasterTypeOK
      <3>. QED
        BY <2>1, <2>2, <3>1 DEF Outcomes, Nothing
    <2>7. Len(taken) <= Len(taken')
      BY <1>2, Lengths DEF BroadcasterInv
    <2>. QED
      BY <1>2, <1>3, <2>5, <2>6, <2>7, TakenGrows
  <1>. QED
    BY <1>4, <1>5

\* What was passed on and what waits stay consecutive, whoever is free.
LEMMA PassingOn ==
    ASSUME BroadcasterInv, BroadcasterTypes',
           NEW waiting \in Seq(Requests), NEW idle, TryBroadcast(waiting, idle),
           Len(taken') = Begun + Len(broadcastch) + Len(waiting),
           Len(taken) <= Len(taken'), \A k \in 1..Len(taken) : taken'[k] = taken[k],
           \A i \in 1..Len(waiting) : waiting[i] = taken'[Begun + Len(broadcastch) + i],
           UNCHANGED <<stage, job>>
    PROVE  QueueOrder' /\ Begun' = Begun
  <1>. DEFINE B == Begun
              b == Len(broadcastch)
              w == Len(waiting)
  <1>1. B \in 0..Len(taken) /\ Len(taken) \in Nat /\ b \in {0, 1} /\ w \in Nat
        /\ broadcastch \in Seq(Requests)
    BY Lengths DEF BroadcasterInv, BroadcasterTypes, BroadcasterTypeOK
  <1>2. stage' \notin {"idle", "ended"} => B > 0 /\ job' = taken'[B]
    <2>1. stage' \notin {"idle", "ended"} => B > 0 /\ job' = taken[B]
      BY DEF BroadcasterInv, QueueOrder
    <2>. QED
      BY <1>1, <2>1
  <1>3. \A i \in 1..b : broadcastch[i] = taken'[B + i]
    <2>1. \A i \in 1..b : broadcastch[i] = taken[B + i]
      BY DEF BroadcasterInv, QueueOrder
    <2>2. B + b <= Len(taken)
      BY <1>1, Lengths DEF BroadcasterInv, BroadcasterTypes, BroadcasterTypeOK, Begun
    <2>. QED
      BY <1>1, <2>1, <2>2
  <1>4. CASE waiting # <<>> /\ idle /\ b < 1
    <2>0. /\ w > 0 /\ Head(waiting) = waiting[1] /\ waiting[1] \in Requests
          /\ Len(Tail(waiting)) = w - 1
          /\ \A i \in 1..(w - 1) : Tail(waiting)[i] = waiting[i + 1]
      BY <1>4
    <2>1. /\ pending' = Tail(waiting) /\ broadcastch' = Append(broadcastch, waiting[1])
      BY <1>4, <2>0 DEF TryBroadcast
    <2>9. /\ Len(broadcastch') = 1 /\ broadcastch'[1] = waiting[1]
      BY <1>1, <1>4, <2>0, <2>1, OneSent
    <2>2. Begun' = B
      <3>1. Len(taken') - (w - 1) - 1 = B + b + w - (w - 1) - 1 /\ b = 0
        BY <1>1, <1>4
      <3>. QED
        <4>1. Begun' = Len(taken') - Len(pending') - Len(broadcastch')
          BY DEF Begun
        <4>. HIDE DEF w, B, b
        <4>. QED
          BY <1>1, <2>0, <2>1, <2>9, <3>1, <4>1
    <2>3. 1 \in 1..w /\ b = 0
      BY <1>1, <1>4, <2>0
    <2>4. waiting[1] = taken'[B + 1]
      BY <1>1, <2>3
    <2>5. \A i \in 1..(w - 1) : i + 1 \in 1..w /\ B + b + (i + 1) = B + 1 + i
      BY <1>1, <2>3
    <2>6. \A i \in 1..(w - 1) : pending'[i] = taken'[B + 1 + i]
      BY <2>0, <2>1, <2>5
    <2>. HIDE DEF B, b, w
    <2>7. /\ Begun' \in Nat
          /\ \A i \in 1..Len(broadcastch') : broadcastch'[i] = taken'[Begun' + i]
          /\ \A i \in 1..Len(pending') : pending'[i] = taken'[Begun' + Len(broadcastch') + i]
      <3>1. \A i \in 1..1 : i = 1
        OBVIOUS
      <3>2. Len(pending') = w - 1
        BY <2>0, <2>1
      <3>. QED
        BY <1>1, <2>2, <2>4, <2>6, <2>9, <3>1, <3>2
    <2>. QED
      BY <1>2, <2>2, <2>7 DEF QueueOrder, B
  <1>5. CASE ~(waiting # <<>> /\ idle /\ b < 1)
    <2>1. broadcastch' = broadcastch /\ pending' = waiting
      BY <1>5 DEF TryBroadcast
    <2>2. Begun' = B
      BY <1>1, <2>1 DEF Begun
    <2>. QED
      BY <1>1, <1>2, <1>3, <2>1, <2>2 DEF QueueOrder
  <1>. QED
    BY <1>4, <1>5

LEMMA RunKeeps ==
    ASSUME BroadcasterInv, BroadcasterTypes', Run
    PROVE  BroadcasterInv'
  <1>1. /\ Begun \in 0..Len(taken) /\ Len(taken) \in Nat /\ Len(broadcastch) \in {0, 1}
        /\ Len(pending) \in Nat /\ Len(reqch) \in {0, 1}
        /\ taken \in Seq(Requests) /\ pending \in Seq(Requests) /\ reqch \in Seq(Requests)
        /\ Len(taken) = Begun + Len(broadcastch) + Len(pending)
    BY Lengths DEF BroadcasterInv, BroadcasterTypes, BroadcasterTypeOK, Begun
  <1>2. UNCHANGED <<stage, job, outcome, awaited, response, accepted, call, told>>
    BY DEF Run, TakeRequest, TakeDone, worker, sync, node, callers
  <1>3. CASE TakeRequest
    <2>. DEFINE waiting == pending \o reqch
    <2>1. /\ Len(reqch) = 1 /\ reqch' = <<>> /\ taken' = taken \o reqch
          /\ TryBroadcast(waiting, free)
      BY <1>1, <1>3 DEF TakeRequest
    <2>2. /\ waiting \in Seq(Requests) /\ Len(waiting) = Len(pending) + 1
          /\ \A i \in 1..Len(pending) : waiting[i] = pending[i]
          /\ waiting[Len(pending) + 1] = reqch[1]
      BY <1>1, <2>1, OneMore
    <2>3. /\ Len(taken') = Len(taken) + 1
          /\ \A i \in 1..Len(taken) : taken'[i] = taken[i]
          /\ taken'[Len(taken) + 1] = reqch[1]
      BY <1>1, <2>1, OneMore
    <2>. HIDE DEF waiting
    <2>4. \A i \in 1..Len(waiting) : waiting[i] = taken'[Begun + Len(broadcastch) + i]
      <3>1. ASSUME NEW i \in 1..Len(pending)
            PROVE  waiting[i] = taken'[Begun + Len(broadcastch) + i]
        <4>1. pending[i] = taken[Begun + Len(broadcastch) + i]
          BY DEF BroadcasterInv, QueueOrder
        <4>2. Begun + Len(broadcastch) + i \in 1..Len(taken)
          BY <1>1
        <4>. QED
          BY <2>2, <2>3, <4>1, <4>2
      <3>2. waiting[Len(pending) + 1] = taken'[Begun + Len(broadcastch) + (Len(pending) + 1)]
        <4>1. Begun + Len(broadcastch) + (Len(pending) + 1) = Len(taken) + 1
          BY <1>1
        <4>. QED
          BY <2>2, <2>3, <4>1
      <3>3. \A i \in 1..Len(waiting) : i \in 1..Len(pending) \/ i = Len(pending) + 1
        BY <1>1, <2>2
      <3>. QED
        BY <3>1, <3>2, <3>3
    <2>5. Len(taken') = Begun + Len(broadcastch) + Len(waiting) /\ Len(taken) <= Len(taken')
      BY <1>1, <2>2, <2>3
    <2>6. QueueOrder' /\ Begun' = Begun
      BY <1>2, <2>1, <2>2, <2>3, <2>4, <2>5, PassingOn
    <2>7. TakenOnce'
      <3>1. \A j \in 1..Len(taken') : j \in 1..Len(taken) \/ j = Len(taken) + 1
        BY <1>1, <2>3
      <3>2. /\ call[reqch[1]] # "idle"
            /\ \A j \in 1..Len(taken) : taken[j] # reqch[1]
        BY <2>1 DEF BroadcasterInv, TakenOnce
      <3>3. \A i, j \in 1..Len(taken') : taken'[i] = taken'[j] => i = j
        BY <2>3, <3>1, <3>2 DEF BroadcasterInv, TakenOnce
      <3>4. \A i \in 1..Len(taken') : call[taken'[i]] # "idle"
        BY <2>3, <3>1, <3>2 DEF BroadcasterInv, TakenOnce
      <3>5. Len(reqch') = 0
        BY <2>1
      <3>. QED
        BY <1>2, <3>3, <3>4, <3>5 DEF TakenOnce
    <2>. QED
      BY <1>2, <2>3, <2>5, <2>6, <2>7, TakenGrows
  <1>4. CASE TakeDone
    <2>1. taken' = taken /\ reqch' = reqch /\ TryBroadcast(pending, TRUE)
      BY <1>4 DEF TakeDone
    <2>2. \A i \in 1..Len(pending) : pending[i] = taken'[Begun + Len(broadcastch) + i]
      BY <2>1 DEF BroadcasterInv, QueueOrder
    <2>5. Len(taken) <= Len(taken') /\ \A k \in 1..Len(taken) : taken'[k] = taken[k]
      BY <1>1, <2>1
    <2>6. Len(taken') = Begun + Len(broadcastch) + Len(pending)
      BY <1>1, <2>1
    <2>7. TRUE \in BOOLEAN /\ UNCHANGED <<stage, job>>
      BY <1>2
    <2>3. QueueOrder' /\ Begun' = Begun
      BY <1>1, <2>1, <2>2, <2>5, <2>6, <2>7, PassingOn
    <2>4. TakenOnce'
      BY <1>2, <2>1 DEF BroadcasterInv, TakenOnce
    <2>. QED
      BY <1>1, <1>2, <2>1, <2>3, <2>4, TakenGrows
  <1>. QED
    BY <1>3, <1>4 DEF Run

LEMMA TakeJobKeeps ==
    ASSUME BroadcasterInv, BroadcasterTypes', TakeJob
    PROVE  BroadcasterInv'
  <1>1. /\ Begun \in 0..Len(taken) /\ Len(taken) \in Nat /\ Len(broadcastch) = 1
        /\ Len(pending) \in Nat /\ Len(taken) = Begun + Len(broadcastch) + Len(pending)
        /\ broadcastch \in Seq(Requests)
    BY Lengths DEF TakeJob, BroadcasterInv, BroadcasterTypes, BroadcasterTypeOK, Begun
  <1>2. /\ stage = "idle" /\ stage' = "send" /\ job' = broadcastch[1] /\ broadcastch' = <<>>
        /\ UNCHANGED <<call, told, reqch, pending, taken, response, outcome, awaited, accepted>>
    BY <1>1 DEF TakeJob, callers, sync, node
  <1>3. Begun' = Begun + 1 /\ Tried' = Begun /\ Answered' = Begun
        /\ Tried = Begun /\ Answered = Begun
    BY <1>1, <1>2 DEF Begun, Tried, Answered
  <1>4. QueueOrder'
    <2>1. job' = taken'[Begun']
      BY <1>1, <1>2, <1>3 DEF BroadcasterInv, QueueOrder
    <2>2. \A i \in 1..Len(pending) : pending[i] = taken[Begun' + 0 + i]
      BY <1>1, <1>3 DEF BroadcasterInv, QueueOrder
    <2>. QED
      BY <1>1, <1>2, <1>3, <2>1, <2>2 DEF QueueOrder
  <1>5. TakenOnce' /\ OnceInOrder' /\ AcceptedTried'
    BY <1>2, <1>3 DEF BroadcasterInv, TakenOnce, OnceInOrder, ExecutedOnce, InOrder, AcceptedTried
  <1>6. AnswersTrue'
    <2>1. \A r, answer : True(r, answer)' <=> True(r, answer)
      BY <1>2 DEF True
    <2>2. ~awaited
      BY <1>2 DEF BroadcasterInv, AnswersTrue
    <2>. QED
      BY <1>2, <1>3, <2>1, <2>2 DEF BroadcasterInv, AnswersTrue, True
  <1>. QED
    BY <1>4, <1>5, <1>6 DEF BroadcasterInv

LEMMA AcceptKeeps ==
    ASSUME BroadcasterInv, BroadcasterTypes', Accept
    PROVE  BroadcasterInv'
  <1>1. /\ Begun \in 0..Len(taken) /\ Len(taken) \in Nat /\ Len(accepted) \in Nat
        /\ Tried = Begun - 1 /\ taken \in Seq(Requests) /\ accepted \in Seq(Requests)
    BY Lengths DEF Accept, BroadcasterInv, BroadcasterTypes
  <1>2. /\ stage = "send" /\ stage' = "reply" /\ outcome' \in {"ok", "error"}
        /\ accepted' = Append(accepted, job)
        /\ UNCHANGED <<call, told, reqch, pending, broadcastch, taken, response, job, awaited>>
    BY DEF Accept, Attempted, callers, queue, sync
  <1>3. Begun' = Begun /\ Tried' = Begun /\ Answered' = Begun - 1 /\ Answered = Begun - 1
    BY <1>2 DEF Begun, Tried, Answered
  <1>4. /\ \A i \in 1..Len(accepted) : accepted[i] # job
        /\ Begun \in 1..Len(taken) /\ \A k \in 1..Len(taken) : taken[k] = job => k = Begun
    BY <1>2, JobIsNew
  <1>5. /\ Len(accepted') = Len(accepted) + 1 /\ accepted'[Len(accepted) + 1] = job
        /\ \A i \in 1..Len(accepted) : accepted'[i] = accepted[i]
        /\ \A i \in 1..Len(accepted') : i \in 1..Len(accepted) \/ i = Len(accepted) + 1
    BY <1>1, <1>2
  <1>6. QueueOrder' /\ TakenOnce'
    BY <1>2, <1>3 DEF BroadcasterInv, QueueOrder, TakenOnce
  <1>7. job = taken[Begun]
    BY <1>2 DEF BroadcasterInv, QueueOrder
  <1>8. AcceptedTried'
    <2>1. \A i \in 1..Len(accepted) : \E k \in 1..(Begun - 1) : accepted[i] = taken[k]
      BY <1>1 DEF BroadcasterInv, AcceptedTried
    <2>2. \A k \in 1..(Begun - 1) : k \in 1..Begun
      BY <1>1
    <2>3. Begun \in 1..Begun
      BY <1>4
    <2>4. \A i \in 1..Len(accepted') : \E k \in 1..Begun : accepted'[i] = taken[k]
      BY <1>5, <1>7, <2>1, <2>2, <2>3
    <2>. QED
      BY <1>2, <1>3, <2>4 DEF AcceptedTried
  <1>9. OnceInOrder'
    <2>1. /\ DOMAIN accepted = 1..Len(accepted) /\ DOMAIN accepted' = 1..Len(accepted')
          /\ DOMAIN taken = 1..Len(taken) /\ DOMAIN taken' = 1..Len(taken)
      BY <1>1, <1>2
    <2>2. ExecutedOnce'
      BY <1>4, <1>5, <2>1 DEF BroadcasterInv, OnceInOrder, ExecutedOnce
    <2>3. ASSUME NEW i \in 1..Len(accepted'), NEW j \in 1..Len(accepted'),
                 NEW k \in 1..Len(taken), NEW l \in 1..Len(taken),
                 accepted'[i] = taken[k], accepted'[j] = taken[l], i < j
          PROVE  k < l
      <3>1. i \in 1..Len(accepted)
        BY <1>1, <1>5, <2>3
      <3>2. CASE j \in 1..Len(accepted)
        BY <1>5, <2>1, <2>3, <3>1, <3>2 DEF BroadcasterInv, OnceInOrder, InOrder
      <3>3. CASE j = Len(accepted) + 1
        <4>1. l = Begun
          BY <1>4, <1>5, <2>3, <3>3
        <4>2. PICK m \in 1..Tried : accepted[i] = taken[m]
          BY <3>1 DEF BroadcasterInv, AcceptedTried
        <4>3. m \in 1..Len(taken) /\ m < Begun
          BY <1>1
        <4>4. k = m
          BY <1>5, <2>3, <3>1, <4>2, <4>3 DEF BroadcasterInv, TakenOnce
        <4>. QED
          BY <4>1, <4>3, <4>4
      <3>. QED
        BY <1>5, <3>2, <3>3
    <2>4. InOrder'
      BY <1>2, <2>1, <2>3 DEF InOrder
    <2>. QED
      BY <2>2, <2>4 DEF OnceInOrder
  <1>10. AnswersTrue'
    <2>1. ASSUME NEW r \in Requests PROVE True(r, response[r])'
      <3>1. True(r, response[r])
        BY DEF BroadcasterInv, AnswersTrue
      <3>2. CASE r = job
        <4>1. response[r] = Nothing
          BY <1>2, <3>2, JobIsNew
        <4>. QED
          BY <1>2, <4>1 DEF True, Nothing
      <3>3. CASE r # job
        <4>1. Len(accepted) + 1 \in Nat /\ \A i \in 1..Len(accepted) : i \in 1..Len(accepted')
          BY <1>1, <1>5
        <4>. QED
          BY <1>2, <1>5, <3>1, <3>3, <4>1 DEF True
      <3>. QED
        BY <3>2, <3>3
    <2>2. True(job, outcome)'
      <3>1. Len(accepted) + 1 \in 1..Len(accepted')
        BY <1>1, <1>5
      <3>. QED
        BY <1>2, <1>5, <3>1 DEF True
    <2>3. ~awaited
      BY <1>2 DEF BroadcasterInv, AnswersTrue
    <2>. QED
      BY <1>2, <1>3, <2>1, <2>2, <2>3 DEF BroadcasterInv, AnswersTrue, Nothing
  <1>. QED
    BY <1>6, <1>8, <1>9, <1>10 DEF BroadcasterInv

LEMMA ReplyKeeps ==
    ASSUME BroadcasterInv, BroadcasterTypes', Reply
    PROVE  BroadcasterInv'
  <1>1. /\ Begun \in 0..Len(taken) /\ Len(taken) \in Nat
    BY Lengths DEF BroadcasterInv
  <1>2. /\ stage = "reply" /\ stage' = "done" /\ response' = [response EXCEPT ![job] = outcome]
        /\ UNCHANGED <<call, told, reqch, pending, broadcastch, taken, job, awaited, accepted>>
    BY DEF Reply, callers, queue, sync, node
  <1>3. Begun' = Begun /\ Tried' = Begun /\ Answered' = Begun /\ Answered = Begun - 1
        /\ Tried = Begun
    BY <1>2 DEF Begun, Tried, Answered
  <1>4. /\ response[job] = Nothing /\ Begun \in 1..Len(taken)
    BY <1>2, JobIsNew
  <1>5. job = taken[Begun] /\ outcome # Nothing /\ True(job, outcome) /\ ~awaited
    BY <1>2 DEF BroadcasterInv, QueueOrder, AnswersTrue
  <1>6. response \in [Requests -> Outcomes] /\ job \in Requests
    BY DEF BroadcasterInv, BroadcasterTypes, BroadcasterTypeOK
  <1>7. QueueOrder' /\ TakenOnce' /\ OnceInOrder' /\ AcceptedTried'
    BY <1>2, <1>3 DEF BroadcasterInv, QueueOrder, TakenOnce, OnceInOrder, ExecutedOnce, InOrder,
                      AcceptedTried
  <1>8. AnswersTrue'
    <2>1. \A r, answer : True(r, answer)' <=> True(r, answer)
      BY <1>2 DEF True
    <2>2. /\ response'[job] = outcome
          /\ \A r \in Requests : r # job => response'[r] = response[r]
      BY <1>2, <1>6
    <2>3. ASSUME NEW r \in Requests
          PROVE  /\ response'[r] # Nothing => \E k \in 1..Begun : r = taken[k]
                 /\ True(r, response'[r])
                 /\ told[r] \in Outcomes => told[r] = Nothing \/ told[r] = response'[r]
      <3>1. CASE r = job
        <4>1. Begun \in 1..Begun
          BY <1>4
        <4>2. told[r] \in Outcomes => told[r] = Nothing
          BY <1>4, <3>1 DEF BroadcasterInv, AnswersTrue
        <4>. QED
          BY <1>5, <2>2, <3>1, <4>1, <4>2
      <3>2. CASE r # job
        <4>1. \A k \in 1..(Begun - 1) : k \in 1..Begun
          BY <1>1
        <4>. QED
          BY <1>3, <2>2, <3>2, <4>1 DEF BroadcasterInv, AnswersTrue
      <3>. QED
        BY <3>1, <3>2
    <2>4. \A r \in Requests : True(r, response[r])'
      BY <1>2, <2>3 DEF True
    <2>. QED
      BY <1>2, <1>3, <1>5, <2>3, <2>4 DEF AnswersTrue
  <1>. QED
    BY <1>7, <1>8 DEF BroadcasterInv

LEMMA WorkerMoves ==
    ASSUME BroadcasterInv, BroadcasterTypes',
           \/ Fail \/ Mismatch \/ AskSync \/ SyncTimeout \/ Done \/ End
           \/ SyncAnswer \/ SyncEnd \/ Commit \/ Foreign \/ ShutDown
    PROVE  BroadcasterInv'
  <1>1. UNCHANGED <<call, told, reqch, pending, broadcastch, taken, response, job, accepted>>
    BY DEF Fail, Mismatch, AskSync, SyncTimeout, Done, End, SyncAnswer, SyncEnd, Commit, Foreign,
           ShutDown, Attempted, callers, queue, worker, node
  <1>2. /\ stage \in {"idle", "send", "sync", "wait", "reply", "done", "ended"}
        /\ try \in 1..2
    BY DEF BroadcasterInv, BroadcasterTypes, BroadcasterTypeOK
  <1>3. /\ stage \in {"sync", "wait"} => outcome = "mismatch"
        /\ awaited => stage = "wait"
        /\ stage = "reply" => outcome # Nothing /\ True(job, outcome)
    BY DEF BroadcasterInv, AnswersTrue
  <1>4. stage \in {"send", "sync", "wait"} => True(job, "mismatch") /\ True(job, "refused")
    BY JobIsNew DEF True
  <1>5. True(job, "error")
    BY DEF True
  <1>6. CASE Fail \/ Mismatch
    <2>1. /\ stage = "send" /\ awaited' = awaited
          /\ \/ stage' = "reply" /\ outcome' \in {"error", "refused", "mismatch"}
             \/ stage' = "sync" /\ outcome' = "mismatch"
      BY <1>6 DEF Fail, Mismatch, Attempted, sync
    <2>. QED
      BY <1>1, <1>3, <1>4, <1>5, <2>1, StageMoves DEF Nothing
  <1>7. CASE AskSync
    <2>1. stage = "sync" /\ stage' = "wait" /\ outcome' = outcome
      BY <1>7 DEF AskSync
    <2>. QED
      BY <1>1, <1>3, <2>1, StageMoves
  <1>8. CASE SyncTimeout \/ SyncAnswer
    <2>1. /\ outcome' = outcome /\ awaited' = FALSE
          /\ stage' = stage \/ (stage = "wait" /\ stage' \in {"send", "reply"})
      <3>1. Again => stage' \in {"send", "reply"}
        BY DEF Again
      <3>2. CASE SyncTimeout
        BY <3>1, <3>2 DEF SyncTimeout
      <3>3. CASE SyncAnswer
        <4>1. outcome' = outcome /\ awaited' = FALSE /\ (Again \/ stage' = stage)
          BY <3>3 DEF SyncAnswer
        <4>2. awaited => stage' \in {"send", "reply"}
          BY <3>1, <3>3 DEF SyncAnswer
        <4>3. ~awaited => stage' = stage
          BY <3>3 DEF SyncAnswer
        <4>4. stage' = stage \/ (stage = "wait" /\ stage' \in {"send", "reply"})
          <5>1. CASE awaited
            BY <1>3, <4>2, <5>1
          <5>2. CASE ~awaited
            BY <4>3, <5>2
          <5>. QED
            BY <5>1, <5>2
        <4>. QED
          BY <4>1, <4>4
      <3>. QED
        BY <1>8, <3>2, <3>3
    <2>. QED
      BY <1>1, <1>3, <1>4, <2>1, StageMoves DEF Nothing
  <1>9. CASE Done \/ End
    <2>1. /\ outcome' = outcome /\ awaited' = awaited
          /\ stage \in {"idle", "done"} /\ stage' \in {"idle", "ended"}
      BY <1>9 DEF Done, End, sync
    <2>. QED
      BY <1>1, <1>3, <2>1, StageMoves
  <1>10. CASE SyncEnd \/ Commit \/ Foreign \/ ShutDown
    <2>1. outcome' = outcome /\ awaited' = awaited /\ stage' = stage
      BY <1>10 DEF SyncEnd, Commit, Foreign, ShutDown, worker, sync
    <2>. QED
      BY <1>1, <1>2, <1>3, <2>1, StageMoves
  <1>. QED
    BY <1>6, <1>7, <1>8, <1>9, <1>10

LEMMA BroadcasterSteps == BroadcasterInv /\ [BroadcasterNext]_broadcasterVars => BroadcasterInv'
  <1>. SUFFICES ASSUME BroadcasterInv, [BroadcasterNext]_broadcasterVars
                PROVE  BroadcasterInv'
    OBVIOUS
  <1>1. BroadcasterTypes'
    BY BroadcasterTypesKept DEF BroadcasterInv
  <1>2. CASE \E r \in Requests : Caller(r) \/ Cancel(r)
    BY <1>1, <1>2, CallersKeep DEF Caller
  <1>3. CASE Run
    BY <1>1, <1>3, RunKeeps
  <1>4. CASE TakeJob
    BY <1>1, <1>4, TakeJobKeeps
  <1>5. CASE Accept
    BY <1>1, <1>5, AcceptKeeps
  <1>6. CASE Reply
    BY <1>1, <1>6, ReplyKeeps
  <1>7. CASE \/ Fail \/ Mismatch \/ AskSync \/ SyncTimeout \/ Done \/ End
             \/ SyncAnswer \/ SyncEnd \/ Commit \/ Foreign \/ ShutDown
    BY <1>1, <1>7, WorkerMoves
  <1>8. CASE UNCHANGED broadcasterVars
    BY <1>1, <1>8 DEF broadcasterVars, BroadcasterInv, QueueOrder, Begun, TakenOnce, AcceptedTried,
           Tried, Answered, OnceInOrder, ExecutedOnce, InOrder, AnswersTrue, True, callers, queue,
           worker, sync, node
  <1>. QED
    BY <1>2, <1>3, <1>4, <1>5, <1>6, <1>7, <1>8
    DEF BroadcasterNext, Send, Broadcaster, SequenceSync

LEMMA BroadcasterInvariant == BroadcasterSpec => []BroadcasterInv
  BY BroadcasterStarts, BroadcasterSteps, PTL DEF BroadcasterSpec

\* The channels, the attempts and the node's sequences keep their types.
THEOREM BroadcasterTypeCorrect == BroadcasterSpec => []BroadcasterTypeOK
  <1>1. BroadcasterInv => BroadcasterTypeOK
    BY DEF BroadcasterInv, BroadcasterTypes
  <1>. QED
    BY <1>1, BroadcasterInvariant, PTL

\* The node accepts each request once, in the order in which run took them
\* (serialBroadcaster), through second attempts and lost answers.
THEOREM AcceptedOnceInOrder == BroadcasterSpec => []OnceInOrder
  <1>1. BroadcasterInv => OnceInOrder
    BY DEF BroadcasterInv
  <1>. QED
    BY <1>1, BroadcasterInvariant, PTL

\* A caller is told "ok" of an accepted transaction only, and "refused" or
\* "mismatch" of one that was not accepted.
THEOREM AnswersAreTrue == BroadcasterSpec => []AnswerIsTrue
  <1>1. BroadcasterInv => AnswerIsTrue
    <2>. SUFFICES ASSUME BroadcasterInv, NEW r \in Requests
                  PROVE  /\ told[r] = "ok" => r \in Range(accepted)
                         /\ told[r] \in {"refused", "mismatch"} => r \notin Range(accepted)
      BY DEF AnswerIsTrue
    <2>1. DOMAIN accepted = 1..Len(accepted)
      BY DEF BroadcasterInv, BroadcasterTypes
    <2>2. told[r] \in {"ok", "refused", "mismatch"} => told[r] = response[r]
      BY DEF BroadcasterInv, AnswersTrue, Outcomes, Nothing
    <2>3. True(r, response[r])
      BY DEF BroadcasterInv, AnswersTrue
    <2>. QED
      BY <2>1, <2>2, <2>3 DEF True, Range
  <1>. QED
    BY <1>1, BroadcasterInvariant, PTL

-----------------------------------------------------------------------------
(***************************************************************************)
(* The event bus for any set of subscribers, any tree of clones and any    *)
(* number of events.  The invariant adds to the three properties what the  *)
(* goroutines know of each other: which buses are listed, what a loop      *)
(* still has to do, and that no bus is ahead of the root.                  *)
(***************************************************************************)
USE PubSubAssumption DEF Buses

\* A bus lists exactly the children that have not ended.
Listed ==
    /\ \A s \in Subscribers : mode[s] # "none" => parent[s] \in Buses
    /\ \A b \in Buses, s \in Subscribers :
          s \in subs[b] <=> mode[s] \notin {"none", "done"} /\ parent[s] = b

\* A loop goes over listed children and is blocked on one of them.
Loops ==
    \A b \in Buses :
        /\ todo[b] \subseteq subs[b]
        /\ mode[b] \notin {"publishing", "asking"} => todo[b] = {}
        /\ target[b] \in todo[b] \/ (target[b] = NoBus /\ todo[b] = {})

\* A bus reports or ends when it lists nobody; only the root reports to nobody.
Childless ==
    /\ \A b \in Buses : mode[b] \in {"none", "reporting", "done"} => subs[b] = {}
    /\ mode[Root] \notin {"none", "reporting"}

\* Nobody has taken an event the root has not, and a loop passes on the last
\* event its bus has taken.
Bounded ==
    /\ \A s \in Subscribers : mode[s] # "none" => Known(s) <= sent
    /\ \A b \in Buses : mode[b] = "publishing" => cur[b] = Known(b)

IInv == TypeOK /\ Listed /\ Loops /\ Childless /\ Bounded /\ BufferIsUnread /\ UpToDate

-----------------------------------------------------------------------------
LEMMA KnownType ==
    ASSUME TypeOK, NEW b \in Buses
    PROVE  Known(b) \in Nat
BY DEF TypeOK, Known

LEMMA InitInv ==
    ASSUME Init
    PROVE  IInv
<1> USE DEF Init
<1>1. TypeOK BY DEF TypeOK, Modes
<1>2. Listed BY DEF Listed
<1>3. Loops BY DEF Loops
<1>4. Childless BY DEF Childless
<1>5. Bounded
  <2>1. \A b \in Buses : mode[b] \in {"none", "running"}
    OBVIOUS
  <2>2. \A s \in Subscribers : mode[s] = "none"
    OBVIOUS
  <2> QED BY <2>1, <2>2 DEF Bounded
<1>6. \A s \in Subscribers : mode[s] = "none"
  OBVIOUS
<1>7. BufferIsUnread /\ UpToDate BY <1>6 DEF BufferIsUnread, UpToDate, Live
<1> QED BY <1>1, <1>2, <1>3, <1>4, <1>5, <1>7 DEF IInv

\* A goroutine that has nobody to wait for goes on to the next stage.
LEMMA Stages ==
    ASSUME NEW b \in Buses, NEW S
    PROVE  /\ AfterPublishing(S) \in {"running", "publishing"}
           /\ AfterPublishing(S) = "running" <=> S = {}
           /\ AfterWaiting(b, S) \in {"waiting", "reporting", "done"}
           /\ AfterWaiting(b, S) = "waiting" <=> S # {}
           /\ AfterWaiting(b, S) = "done" => b = Root
           /\ AfterWaiting(b, S) = "reporting" => b # Root
           /\ AfterAsking(b, S) \in {"asking", "waiting", "reporting", "done"}
           /\ AfterAsking(b, S) = "asking" <=> S # {}
           /\ AfterAsking(b, S) \in {"reporting", "done"} => subs[b] = {}
           /\ AfterAsking(b, S) = "done" => b = Root
           /\ AfterAsking(b, S) = "reporting" => b # Root
BY DEF AfterPublishing, AfterWaiting, AfterAsking

LEMMA NoBusIsNobody == NoBus \notin Buses
OBVIOUS

LEMMA NoRootAmong == Root \notin Subscribers
OBVIOUS

LEMMA PickOne ==
    ASSUME NEW S, NEW n \in Pick(S)
    PROVE  n \in S \/ (n = NoBus /\ S = {})
BY DEF Pick

\* A run of events stays one when the next is appended or the first is taken.
LEMMA RunExtends ==
    ASSUME NEW q \in Seq(Nat), NEW r \in Nat, NEW e \in Nat, e = r + Len(q) + 1,
           \A i \in 1..Len(q) : q[i] = r + i
    PROVE  \A i \in 1..Len(Append(q, e)) : Append(q, e)[i] = r + i
<1>1. Len(Append(q, e)) = Len(q) + 1
  OBVIOUS
<1>2. SUFFICES ASSUME NEW i \in 1..(Len(q) + 1)
               PROVE  Append(q, e)[i] = r + i
  BY <1>1
<1>3. CASE i = Len(q) + 1
  BY <1>3
<1>4. CASE i \in 1..Len(q)
  BY <1>4
<1> QED BY <1>3, <1>4

LEMMA RunShrinks ==
    ASSUME NEW q \in Seq(Nat), NEW r \in Nat, q # <<>>, \A i \in 1..Len(q) : q[i] = r + i
    PROVE  /\ Head(q) = r + 1
           /\ Len(Tail(q)) = Len(q) - 1
           /\ \A i \in 1..Len(Tail(q)) : Tail(q)[i] = r + 1 + i
OBVIOUS

\* An event handed to a child: the child follows its parent by one event, and
\* its own children follow it by one.
LEMMA ForwardKeeps ==
    ASSUME IInv, NEW b \in Buses, NEW c \in Subscribers, Forward(b, c)
    PROVE  IInv'
<1> USE DEF IInv
<1>1. /\ c \in todo[b] /\ c \in subs[b] /\ parent[c] = b /\ b # c
      /\ mode[b] = "publishing" /\ mode[c] = "running" /\ todo[c] = {}
  BY NoBusIsNobody DEF Forward, Receptive, Loops, Listed
<1>2. PICK n \in Pick(todo[b] \ {c}), m \in Pick(subs[c]) :
          target' = [target EXCEPT ![b] = n, ![c] = m]
  BY DEF Forward
<1>3. /\ todo' = [todo EXCEPT ![b] = @ \ {c}, ![c] = subs[c]]
      /\ mode' = [mode EXCEPT ![b] = AfterPublishing(todo[b] \ {c}),
                              ![c] = AfterPublishing(subs[c])]
      /\ evbuf' = [evbuf EXCEPT ![c] = Append(@, cur[b])]
      /\ cur' = [cur EXCEPT ![c] = cur[b]]
      /\ UNCHANGED <<parent, subs, closing, sent, read>>
  BY DEF Forward
<1>4. /\ AfterPublishing(todo[b] \ {c}) \in {"running", "publishing"}
      /\ AfterPublishing(todo[b] \ {c}) = "running" <=> todo[b] \ {c} = {}
      /\ AfterPublishing(subs[c]) \in {"running", "publishing"}
      /\ AfterPublishing(subs[c]) = "running" <=> subs[c] = {}
  BY Stages
<1>5. /\ n \in todo[b] \ {c} \/ (n = NoBus /\ todo[b] \ {c} = {})
      /\ m \in subs[c] \/ (m = NoBus /\ subs[c] = {})
  BY PickOne
<1>6. TypeOK'
  <2>1. mode' \in [Buses -> Modes] BY <1>3, <1>4 DEF TypeOK, Modes
  <2>2. evbuf' \in [Subscribers -> Seq(Nat)] /\ cur' \in [Buses -> Nat]
    BY <1>3 DEF TypeOK
  <2>3. todo' \in [Buses -> SUBSET Subscribers] BY <1>3 DEF TypeOK
  <2>4. target' \in [Buses -> Subscribers \cup {NoBus}]
    BY <1>2, <1>5 DEF TypeOK
  <2> QED BY <1>3, <2>1, <2>2, <2>3, <2>4 DEF TypeOK
<1>7. Listed'
  BY <1>1, <1>3, <1>4 DEF Listed, TypeOK
<1>8. Loops'
  BY <1>1, <1>2, <1>3, <1>4, <1>5 DEF Loops, TypeOK
<1>9. Childless'
  BY <1>1, <1>3, <1>4 DEF Childless, TypeOK
<1>10. /\ Known(b) \in Nat /\ Known(c) \in Nat
       /\ Known(c) = Known(b) - 1 /\ cur[b] = Known(b) /\ Known(b) <= sent
  <2>1. Known(b) <= sent
    BY <1>1 DEF Bounded, Known, TypeOK
  <2> QED BY <1>1, <2>1, KnownType DEF Bounded, UpToDate, Live
<1>11. /\ Known(c)' = Known(b)
       /\ Len(evbuf[c]') = Len(evbuf[c]) + 1
       /\ \A x \in Buses \ {c} : Known(x)' = Known(x)
  BY <1>1, <1>3, <1>10 DEF Known, TypeOK
<1>12. Bounded'
  BY <1>1, <1>3, <1>4, <1>10, <1>11 DEF Bounded, TypeOK
<1>13. BufferIsUnread'
  <2>1. \A i \in 1..Len(evbuf[c]') : evbuf[c]'[i] = read[c]' + i
    <3>1. /\ evbuf[c] \in Seq(Nat) /\ read[c] \in Nat /\ cur[b] = read[c] + Len(evbuf[c]) + 1
          /\ evbuf[c]' = Append(evbuf[c], cur[b]) /\ read[c]' = read[c]
      BY <1>1, <1>3, <1>10 DEF Known, TypeOK
    <3>2. \A i \in 1..Len(evbuf[c]) : evbuf[c][i] = read[c] + i
      BY <1>1 DEF BufferIsUnread
    <3>3. cur[b] \in Nat
      BY <1>10
    <3>4. \A i \in 1..Len(Append(evbuf[c], cur[b])) : Append(evbuf[c], cur[b])[i] = read[c] + i
      BY <3>1, <3>2, <3>3, RunExtends, Zenon
    <3> QED BY <3>1, <3>4
  <2>2. \A s \in Subscribers \ {c} : evbuf[s]' = evbuf[s] /\ read[s]' = read[s] /\ (mode[s]' # "none" => mode[s] # "none")
    BY <1>1, <1>3 DEF TypeOK
  <2> QED BY <2>1, <2>2 DEF BufferIsUnread
<1>14. UpToDate'
  <2> SUFFICES ASSUME NEW s \in Subscribers, Live(s)'
               PROVE  Known(s)' = IF mode[parent[s]]' = "publishing" /\ s \in todo[parent[s]]'
                                  THEN Known(parent[s])' - 1 ELSE Known(parent[s])'
    BY <1>3 DEF UpToDate
  <2>1. Live(s) /\ parent[s] \in Buses /\ s \in subs[parent[s]]
    BY <1>1, <1>3, <1>4 DEF Live, TypeOK, Listed
  <2>2. CASE s = c
    BY <2>2, <1>1, <1>3, <1>4, <1>10, <1>11 DEF TypeOK
  <2>3. CASE s # c /\ parent[s] = c
    <3>1. Known(s) = Known(c)
      BY <2>1, <2>3, <1>1 DEF UpToDate
    <3>2. mode[c]' = "publishing" /\ s \in todo[c]'
      BY <2>1, <2>3, <1>1, <1>3, <1>4 DEF TypeOK
    <3> QED BY <3>1, <3>2, <2>3, <1>1, <1>3, <1>10, <1>11
  <2>4. CASE s # c /\ parent[s] # c
    <3>1. /\ Known(s)' = Known(s) /\ Known(parent[s])' = Known(parent[s])
      <4>1. PICK p \in Buses : p = parent[s] /\ p # c
        BY <2>1, <2>4
      <4>2. Known(p)' = Known(p)
        BY <4>1, <1>11
      <4>3. Known(parent[s])' = Known(p)'
        BY <4>1, <1>3 DEF Known
      <4> QED BY <4>1, <4>2, <4>3, <2>4, <1>11
    <3>2. mode[parent[s]]' = "publishing" /\ s \in todo[parent[s]]'
             <=> mode[parent[s]] = "publishing" /\ s \in todo[parent[s]]
      BY <2>1, <2>4, <1>1, <1>3, <1>4 DEF TypeOK
    <3> QED BY <3>1, <3>2, <2>1, <2>4, <1>3 DEF UpToDate
  <2> QED BY <2>2, <2>3, <2>4
<1> QED BY <1>6, <1>7, <1>8, <1>9, <1>12, <1>13, <1>14

\* A step that moves no event and starts no loop keeps what is known of events.
LEMMA QuietStep ==
    ASSUME IInv, UNCHANGED <<evbuf, cur, sent, read, parent>>,
           \A s \in Subscribers : mode[s]' # "none" => mode[s] # "none",
           \A x \in Buses : mode[x]' = "publishing" => mode[x] = "publishing",
           \A s \in Subscribers : Live(s)' => Live(s),
           \A s \in Subscribers, p \in Buses : Live(s)' /\ p = parent[s] =>
              (mode[p]' = "publishing" /\ s \in todo[p]'
                 <=> mode[p] = "publishing" /\ s \in todo[p])
    PROVE  Bounded' /\ BufferIsUnread' /\ UpToDate'
<1>1. \A x \in Buses : Known(x)' = Known(x)
  BY DEF Known
<1>2. Bounded'
  BY <1>1 DEF IInv, Bounded
<1>3. BufferIsUnread'
  BY DEF IInv, BufferIsUnread
<1>4. UpToDate'
  <2> SUFFICES ASSUME NEW s \in Subscribers, Live(s)'
               PROVE  Known(s)' = IF mode[parent[s]]' = "publishing" /\ s \in todo[parent[s]]'
                                  THEN Known(parent[s])' - 1 ELSE Known(parent[s])'
    BY DEF UpToDate
  <2>1. PICK p \in Buses : p = parent[s] /\ p = parent[s]'
    BY DEF IInv, Listed, Live
  <2>2. Known(s) = IF mode[p] = "publishing" /\ s \in todo[p] THEN Known(p) - 1 ELSE Known(p)
    BY <2>1 DEF IInv, UpToDate
  <2>3. Known(parent[s])' = Known(p)'
    BY <2>1 DEF Known
  <2> QED BY <1>1, <2>1, <2>2, <2>3
<1> QED BY <1>2, <1>3, <1>4

LEMMA SkipKeeps ==
    ASSUME IInv, NEW b \in Buses, NEW c \in Subscribers, Skip(b, c)
    PROVE  IInv'
<1> USE DEF IInv
<1>1. /\ c \in todo[b] /\ c \in subs[b] /\ parent[c] = b
      /\ mode[b] \in {"publishing", "asking"} /\ ~Live(c)
  BY NoBusIsNobody DEF Skip, Unreachable, ShuttingDown, Loops, Listed, Live
<1>2. PICK n \in Pick(todo[b] \ {c}) : target' = [target EXCEPT ![b] = n]
  BY DEF Skip
<1>3. n \in todo[b] \ {c} \/ (n = NoBus /\ todo[b] \ {c} = {})
  BY PickOne
<1> DEFINE next == IF mode[b] = "publishing" THEN AfterPublishing(todo[b] \ {c})
                   ELSE AfterAsking(b, todo[b] \ {c})
<1>4. /\ todo' = [todo EXCEPT ![b] = @ \ {c}]
      /\ mode' = [mode EXCEPT ![b] = next]
      /\ UNCHANGED <<parent, subs, evbuf, cur, closing, sent, read>>
  BY DEF Skip
<1>5. /\ next \in Modes \ {"none"}
      /\ mode[b] = "publishing" => next \in {"running", "publishing"}
      /\ mode[b] = "asking" => next \notin {"running", "publishing"}
      /\ next \in {"publishing", "asking"} <=> todo[b] \ {c} # {}
      /\ next \notin {"reporting", "done"}
  BY <1>1, Stages DEF Modes
<1> HIDE DEF next
<1>6. TypeOK'
  BY <1>2, <1>3, <1>4, <1>5 DEF TypeOK
<1>7. Listed'
  BY <1>1, <1>4, <1>5 DEF Listed, TypeOK
<1>8. Loops'
  BY <1>1, <1>2, <1>3, <1>4, <1>5 DEF Loops, TypeOK
<1>9. Childless'
  BY <1>1, <1>4, <1>5 DEF Childless, TypeOK
<1>10. Bounded' /\ BufferIsUnread' /\ UpToDate'
  <2>1. \A s \in Subscribers : mode[s]' # "none" => mode[s] # "none"
    BY <1>1, <1>4, <1>5 DEF TypeOK
  <2>2. \A x \in Buses : mode[x]' = "publishing" => mode[x] = "publishing"
    BY <1>1, <1>4, <1>5 DEF TypeOK
  <2>3. \A s \in Subscribers : Live(s)' => Live(s)
    BY <1>1, <1>4, <1>5 DEF TypeOK, Live
  <2>4. \A s \in Subscribers, p \in Buses : Live(s)' /\ p = parent[s] =>
              (mode[p]' = "publishing" /\ s \in todo[p]'
                 <=> mode[p] = "publishing" /\ s \in todo[p])
    BY <1>1, <1>4, <1>5, <2>3 DEF TypeOK
  <2> QED BY <1>4, <2>1, <2>2, <2>3, <2>4, QuietStep
<1> QED BY <1>6, <1>7, <1>8, <1>9, <1>10

LEMMA ShutdownKeeps ==
    ASSUME IInv, NEW b \in Buses, Shutdown(b)
    PROVE  IInv'
<1> USE DEF IInv
<1>1. PICK n \in Pick(subs[b]) : target' = [target EXCEPT ![b] = n]
  BY DEF Shutdown
<1>2. n \in subs[b] \/ (n = NoBus /\ subs[b] = {})
  BY PickOne
<1> DEFINE next == AfterAsking(b, subs[b])
<1>3. /\ mode[b] = "running"
      /\ todo' = [todo EXCEPT ![b] = subs[b]]
      /\ mode' = [mode EXCEPT ![b] = next]
      /\ UNCHANGED <<parent, subs, evbuf, cur, closing, sent, read>>
  BY DEF Shutdown
<1>4. /\ next \in Modes \ {"none", "running", "publishing", "waiting"}
      /\ next = "asking" <=> subs[b] # {}
      /\ next = "done" => b = Root
      /\ next = "reporting" => b # Root
  BY Stages DEF Modes, AfterAsking, AfterWaiting
<1> HIDE DEF next
<1>5. TypeOK'
  BY <1>1, <1>2, <1>3, <1>4 DEF TypeOK
<1>6. Listed'
  BY <1>3, <1>4 DEF Listed, TypeOK
<1>7. Loops'
  BY <1>1, <1>2, <1>3, <1>4 DEF Loops, TypeOK
<1>8. Childless'
  BY <1>3, <1>4 DEF Childless, TypeOK, Modes
<1>9. Bounded' /\ BufferIsUnread' /\ UpToDate'
  <2>1. \A s \in Subscribers : mode[s]' # "none" => mode[s] # "none"
    BY <1>3, <1>4 DEF TypeOK
  <2>2. \A x \in Buses : mode[x]' = "publishing" => mode[x] = "publishing"
    BY <1>3, <1>4 DEF TypeOK
  <2>3. \A s \in Subscribers : Live(s)' => Live(s)
    BY <1>3, <1>4 DEF TypeOK, Live
  <2>4. \A s \in Subscribers, p \in Buses : Live(s)' /\ p = parent[s] =>
              (mode[p]' = "publishing" /\ s \in todo[p]'
                 <=> mode[p] = "publishing" /\ s \in todo[p])
    BY <1>3, <1>4 DEF TypeOK
  <2> QED BY <1>3, <2>1, <2>2, <2>3, <2>4, QuietStep
<1> QED BY <1>5, <1>6, <1>7, <1>8, <1>9

LEMMA AskKeeps ==
    ASSUME IInv, NEW b \in Buses, NEW c \in Subscribers, Ask(b, c)
    PROVE  IInv'
<1> USE DEF IInv
<1>1. /\ c \in todo[b] /\ c \in subs[b] /\ parent[c] = b /\ b # c
      /\ mode[b] = "asking" /\ mode[c] = "running" /\ todo[c] = {} /\ c # Root
  BY NoBusIsNobody DEF Ask, Loops, Listed
<1>2. PICK n \in Pick(todo[b] \ {c}), m \in Pick(subs[c]) :
          target' = [target EXCEPT ![b] = n, ![c] = m]
  BY DEF Ask
<1>3. /\ n \in todo[b] \ {c} \/ (n = NoBus /\ todo[b] \ {c} = {})
      /\ m \in subs[c] \/ (m = NoBus /\ subs[c] = {})
  BY PickOne
<1> DEFINE nextb == AfterAsking(b, todo[b] \ {c})
           nextc == AfterAsking(c, subs[c])
<1>4. /\ todo' = [todo EXCEPT ![b] = @ \ {c}, ![c] = subs[c]]
      /\ mode' = [mode EXCEPT ![b] = nextb, ![c] = nextc]
      /\ UNCHANGED <<parent, subs, evbuf, cur, closing, sent, read>>
  BY DEF Ask
<1>5. /\ nextb \in {"asking", "waiting"}
      /\ nextb = "asking" <=> todo[b] \ {c} # {}
      /\ nextc \in {"asking", "reporting"}
      /\ nextc = "asking" <=> subs[c] # {}
  BY <1>1 DEF AfterAsking, AfterWaiting
<1> HIDE DEF nextb, nextc
<1>6. TypeOK'
  <2>1. mode' \in [Buses -> Modes] BY <1>4, <1>5 DEF TypeOK, Modes
  <2>2. todo' \in [Buses -> SUBSET Subscribers] BY <1>4 DEF TypeOK
  <2>3. target' \in [Buses -> Subscribers \cup {NoBus}] BY <1>2, <1>3 DEF TypeOK
  <2> QED BY <1>4, <2>1, <2>2, <2>3 DEF TypeOK
<1>7. Listed'
  BY <1>1, <1>4, <1>5 DEF Listed, TypeOK
<1>8. Loops'
  BY <1>1, <1>2, <1>3, <1>4, <1>5 DEF Loops, TypeOK
<1>9. Childless'
  BY <1>1, <1>4, <1>5 DEF Childless, TypeOK
<1>10. Bounded' /\ BufferIsUnread' /\ UpToDate'
  <2>1. \A s \in Subscribers : mode[s]' # "none" => mode[s] # "none"
    BY <1>1, <1>4, <1>5 DEF TypeOK
  <2>2. \A x \in Buses : mode[x]' = "publishing" => mode[x] = "publishing"
    BY <1>1, <1>4, <1>5 DEF TypeOK
  <2>3. \A s \in Subscribers : Live(s)' => Live(s)
    BY <1>1, <1>4, <1>5 DEF TypeOK, Live
  <2>4. \A s \in Subscribers, p \in Buses : Live(s)' /\ p = parent[s] =>
              (mode[p]' = "publishing" /\ s \in todo[p]'
                 <=> mode[p] = "publishing" /\ s \in todo[p])
    BY <1>1, <1>4, <1>5 DEF TypeOK
  <2> QED BY <1>4, <2>1, <2>2, <2>3, <2>4, QuietStep
<1> QED BY <1>6, <1>7, <1>8, <1>9, <1>10

LEMMA UnsubscribeKeeps ==
    ASSUME IInv, NEW b \in Buses, NEW c \in Subscribers, Unsubscribe(b, c)
    PROVE  IInv'
<1> USE DEF IInv
<1> DEFINE next == IF mode[b] = "running" THEN "running" ELSE AfterWaiting(b, subs[b] \ {c})
<1>1. /\ mode[c] = "reporting" /\ parent[c] = b /\ mode[b] \in {"running", "waiting"}
      /\ b # c /\ c \in subs[b] /\ subs[c] = {} /\ todo[b] = {} /\ todo[c] = {}
  BY DEF Unsubscribe, Listed, Childless, Loops
<1>2. /\ subs' = [subs EXCEPT ![b] = @ \ {c}]
      /\ mode' = [mode EXCEPT ![c] = "done", ![b] = next]
      /\ UNCHANGED <<parent, evbuf, cur, todo, target, closing, sent, read>>
  BY DEF Unsubscribe, loopVars
<1>3. /\ next \in Modes \ {"none", "publishing", "asking"}
      /\ next = "running" <=> mode[b] = "running"
      /\ next \in {"reporting", "done"} => subs[b] \ {c} = {}
      /\ next = "done" => b = Root
      /\ next = "reporting" => b # Root
  BY <1>1 DEF AfterWaiting, Modes
<1> HIDE DEF next
<1>4. TypeOK'
  BY <1>2, <1>3 DEF TypeOK, Modes
<1>5. Listed'
  <2>1. \A s \in Subscribers : mode[s]' # "none" => parent[s]' \in Buses
    BY <1>1, <1>2, <1>3 DEF Listed, TypeOK
  <2>2. ASSUME NEW x \in Buses, NEW s \in Subscribers
        PROVE  s \in subs[x]' <=> mode[s]' \notin {"none", "done"} /\ parent[s]' = x
    <3>1. CASE s = c
      BY <3>1, <1>1, <1>2, <1>3 DEF Listed, TypeOK
    <3>2. CASE s # c
      <4>1. s \in subs[x]' <=> s \in subs[x]
        BY <3>2, <1>2 DEF TypeOK
      <4>2. mode[s]' \in {"none", "done"} <=> mode[s] \in {"none", "done"}
        BY <3>2, <1>1, <1>2, <1>3, NoRootAmong DEF TypeOK
      <4> QED BY <4>1, <4>2, <1>2 DEF Listed
    <3> QED BY <3>1, <3>2
  <2> QED BY <2>1, <2>2 DEF Listed
<1>6. Loops'
  <2>1. \A x \in Buses : x # b => subs[x]' = subs[x]
    BY <1>2 DEF TypeOK
  <2>2. \A x \in Buses : mode[x]' \in {"publishing", "asking"} <=> mode[x] \in {"publishing", "asking"}
    BY <1>1, <1>2, <1>3 DEF TypeOK
  <2> QED BY <1>1, <1>2, <2>1, <2>2 DEF Loops
<1>7. Childless'
  BY <1>1, <1>2, <1>3 DEF Childless, TypeOK
<1>8. Bounded' /\ BufferIsUnread' /\ UpToDate'
  <2>1. \A s \in Subscribers : mode[s]' # "none" => mode[s] # "none"
    BY <1>1, <1>2, <1>3 DEF TypeOK
  <2>2. \A x \in Buses : mode[x]' = "publishing" => mode[x] = "publishing"
    BY <1>1, <1>2, <1>3 DEF TypeOK
  <2>3. \A s \in Subscribers : Live(s)' => Live(s)
    BY <1>1, <1>2, <1>3 DEF TypeOK, Live
  <2>4. \A s \in Subscribers, p \in Buses : Live(s)' /\ p = parent[s] =>
              (mode[p]' = "publishing" /\ s \in todo[p]'
                 <=> mode[p] = "publishing" /\ s \in todo[p])
    BY <1>1, <1>2, <1>3 DEF TypeOK
  <2> QED BY <1>2, <2>1, <2>2, <2>3, <2>4, QuietStep
<1> QED BY <1>4, <1>5, <1>6, <1>7, <1>8

\* A new subscriber, or a clone, knows what its parent knows.
LEMMA SubscribeKeeps ==
    ASSUME IInv, NEW b \in Buses, NEW c \in Subscribers, Subscribe(b, c)
    PROVE  IInv'
<1> USE DEF IInv
<1>1. /\ mode[b] = "running" /\ mode[c] = "none" /\ b # c /\ todo[b] = {} /\ subs[c] = {}
      /\ todo[c] = {} /\ \A s \in Subscribers : s \notin subs[c]
  BY DEF Subscribe, Loops, Childless
<1>2. /\ mode' = [mode EXCEPT ![c] = "running"]
      /\ parent' = [parent EXCEPT ![c] = b]
      /\ subs' = [subs EXCEPT ![b] = @ \cup {c}]
      /\ evbuf' = [evbuf EXCEPT ![c] = BufferFor(b)]
      /\ read' = [read EXCEPT ![c] = IF b = Root THEN sent ELSE read[b]]
      /\ UNCHANGED <<cur, todo, target, closing, sent>>
  BY DEF Subscribe, loopVars
<1>3. BufferFor(b) \in Seq(Nat) /\ (b = Root => BufferFor(b) = <<>>) /\ (b # Root => BufferFor(b) = evbuf[b])
  BY DEF BufferFor, TypeOK
<1>4. TypeOK'
  BY <1>1, <1>2, <1>3 DEF TypeOK, Modes
<1>5. Listed'
  <2>1. \A s \in Subscribers : mode[s]' # "none" => parent[s]' \in Buses
    BY <1>1, <1>2 DEF Listed, TypeOK
  <2>2. ASSUME NEW x \in Buses, NEW s \in Subscribers
        PROVE  s \in subs[x]' <=> mode[s]' \notin {"none", "done"} /\ parent[s]' = x
    <3>1. CASE s = c
      <4>1. c \notin subs[x]
        BY <1>1 DEF Listed
      <4> QED BY <3>1, <4>1, <1>1, <1>2 DEF TypeOK
    <3>2. CASE s # c
      BY <3>2, <1>1, <1>2 DEF Listed, TypeOK
    <3> QED BY <3>1, <3>2
  <2> QED BY <2>1, <2>2 DEF Listed
<1>6. Loops'
  <2>1. \A x \in Buses : subs[x] \subseteq subs[x]'
    BY <1>2 DEF TypeOK
  <2>2. \A x \in Buses : mode[x]' \in {"publishing", "asking"} <=> mode[x] \in {"publishing", "asking"}
    BY <1>1, <1>2 DEF TypeOK
  <2> QED BY <1>2, <2>1, <2>2 DEF Loops
<1>7. Childless'
  BY <1>1, <1>2, NoRootAmong DEF Childless, TypeOK
<1>8. \A s \in Subscribers \ {c} : /\ evbuf[s]' = evbuf[s] /\ read[s]' = read[s]
                                   /\ mode[s]' = mode[s] /\ parent[s]' = parent[s]
  BY <1>2 DEF TypeOK
<1>9. /\ \A x \in Buses \ {c} : Known(x)' = Known(x)
      /\ Known(c)' = Known(b) /\ Known(b) <= sent
  <2>1. \A x \in Buses \ {c} : Known(x)' = Known(x)
    BY <1>2, <1>8 DEF Known
  <2>2. CASE b = Root
    BY <2>1, <2>2, <1>1, <1>2, <1>3, NoRootAmong DEF Known, TypeOK
  <2>3. CASE b # Root
    <3>1. Known(b) <= sent
      BY <2>3, <1>1 DEF Bounded
    <3>2. read[c]' = read[b] /\ evbuf[c]' = evbuf[b] /\ c # Root
      BY <2>3, <1>2, <1>3, NoRootAmong DEF TypeOK
    <3> QED BY <3>1, <3>2, <2>1, <2>3 DEF Known
  <2> QED BY <2>2, <2>3
<1>10. Bounded'
  BY <1>1, <1>2, <1>9 DEF Bounded, TypeOK
<1>11. BufferIsUnread'
  <2>1. \A i \in 1..Len(evbuf[c]') : evbuf[c]'[i] = read[c]' + i
    <3>1. CASE b = Root
      BY <3>1, <1>2, <1>3 DEF TypeOK
    <3>2. CASE b # Root
      <4>1. evbuf[c]' = evbuf[b] /\ read[c]' = read[b] /\ b \in Subscribers
        BY <3>2, <1>2, <1>3 DEF TypeOK
      <4>2. \A i \in 1..Len(evbuf[b]) : evbuf[b][i] = read[b] + i
        BY <4>1, <1>1 DEF BufferIsUnread
      <4> QED BY <4>1, <4>2
    <3> QED BY <3>1, <3>2
  <2> QED BY <2>1, <1>8 DEF BufferIsUnread
<1>12. UpToDate'
  <2> SUFFICES ASSUME NEW s \in Subscribers, Live(s)'
               PROVE  Known(s)' = IF mode[parent[s]]' = "publishing" /\ s \in todo[parent[s]]'
                                  THEN Known(parent[s])' - 1 ELSE Known(parent[s])'
    BY DEF UpToDate
  <2>1. CASE s = c
    <3>1. parent[c]' = b /\ mode[b]' # "publishing"
      BY <1>1, <1>2 DEF TypeOK
    <3>2. Known(parent[c])' = Known(b)'
      BY <3>1 DEF Known
    <3> QED BY <3>1, <3>2, <2>1, <1>1, <1>9
  <2>2. CASE s # c
    <3>1. PICK p \in Buses : p = parent[s] /\ s \in subs[p] /\ p # c /\ Live(s)
      BY <2>2, <1>1, <1>8 DEF Live, Listed
    <3>2. Known(parent[s])' = Known(p)'
      BY <3>1, <2>2, <1>8 DEF Known
    <3>3. mode[p]' = mode[p] /\ todo[p]' = todo[p]
      BY <3>1, <1>2 DEF TypeOK
    <3> QED BY <3>1, <3>2, <3>3, <2>2, <1>8, <1>9 DEF UpToDate
  <2> QED BY <2>1, <2>2
<1> QED BY <1>4, <1>5, <1>6, <1>7, <1>10, <1>11, <1>12

LEMMA EmitKeeps ==
    ASSUME IInv, NEW c \in Subscribers, Emit(c)
    PROVE  IInv'
<1> USE DEF IInv
<1>1. /\ mode[c] = "running" /\ evbuf[c] # <<>> /\ evbuf[c] \in Seq(Nat) /\ read[c] \in Nat
      /\ \A i \in 1..Len(evbuf[c]) : evbuf[c][i] = read[c] + i
  BY DEF Emit, TypeOK, BufferIsUnread
<1>2. /\ Head(evbuf[c]) = read[c] + 1
      /\ Len(Tail(evbuf[c])) = Len(evbuf[c]) - 1
      /\ \A i \in 1..Len(Tail(evbuf[c])) : Tail(evbuf[c])[i] = read[c] + 1 + i
  BY <1>1, RunShrinks
<1>3. /\ read' = [read EXCEPT ![c] = Head(evbuf[c])]
      /\ evbuf' = [evbuf EXCEPT ![c] = Tail(@)]
      /\ UNCHANGED <<mode, parent, subs, cur, todo, target, closing, sent>>
  BY DEF Emit, loopVars
<1>4. TypeOK'
  BY <1>1, <1>2, <1>3 DEF TypeOK
<1>5. Listed' /\ Loops' /\ Childless'
  BY <1>3 DEF Listed, Loops, Childless
<1>6. \A x \in Buses : Known(x)' = Known(x)
  BY <1>1, <1>2, <1>3 DEF Known, TypeOK
<1>7. Bounded'
  BY <1>3, <1>6 DEF Bounded
<1>8. BufferIsUnread'
  BY <1>2, <1>3 DEF BufferIsUnread, TypeOK
<1>9. UpToDate'
  <2> SUFFICES ASSUME NEW s \in Subscribers, Live(s)'
               PROVE  Known(s)' = IF mode[parent[s]]' = "publishing" /\ s \in todo[parent[s]]'
                                  THEN Known(parent[s])' - 1 ELSE Known(parent[s])'
    BY DEF UpToDate
  <2>1. PICK p \in Buses : p = parent[s] /\ p = parent[s]'
    BY <1>3 DEF Listed, Live
  <2>2. Known(parent[s])' = Known(p)'
    BY <2>1 DEF Known
  <2> QED BY <1>3, <1>6, <2>1, <2>2 DEF UpToDate, Live
<1> QED BY <1>4, <1>5, <1>7, <1>8, <1>9

\* The root takes an event: its children are behind by the event it hands out.
LEMMA PublishKeeps ==
    ASSUME IInv, Publish
    PROVE  IInv'
<1> USE DEF IInv
<1>1. mode[Root] = "running" /\ todo[Root] = {}
  BY DEF Publish, Loops
<1>2. PICK n \in Pick(subs[Root]) : target' = [target EXCEPT ![Root] = n]
  BY DEF Publish
<1>3. n \in subs[Root] \/ (n = NoBus /\ subs[Root] = {})
  BY PickOne
<1> DEFINE next == AfterPublishing(subs[Root])
<1>4. /\ sent' = sent + 1
      /\ cur' = [cur EXCEPT ![Root] = sent + 1]
      /\ todo' = [todo EXCEPT ![Root] = subs[Root]]
      /\ mode' = [mode EXCEPT ![Root] = next]
      /\ UNCHANGED <<parent, subs, evbuf, closing, read>>
  BY DEF Publish
<1>5. next \in {"running", "publishing"} /\ (next = "running" <=> subs[Root] = {})
  BY Stages
<1> HIDE DEF next
<1>6. TypeOK'
  BY <1>2, <1>3, <1>4, <1>5 DEF TypeOK, Modes
<1>7. Listed'
  BY <1>1, <1>4, <1>5, NoRootAmong DEF Listed, TypeOK
<1>8. Loops'
  BY <1>1, <1>2, <1>3, <1>4, <1>5 DEF Loops, TypeOK
<1>9. Childless'
  BY <1>1, <1>4, <1>5 DEF Childless, TypeOK
<1>10. Known(Root)' = Known(Root) + 1 /\ Known(Root) \in Nat
       /\ \A s \in Subscribers : Known(s)' = Known(s) /\ Known(s) \in Nat
  BY <1>4, NoRootAmong, KnownType DEF Known
<1>11. \A s \in Subscribers : mode[s]' = mode[s] /\ parent[s]' = parent[s]
  BY <1>4, NoRootAmong DEF TypeOK
<1>12. Bounded'
  <2>1. sent \in Nat BY DEF TypeOK
  <2>2. \A s \in Subscribers : mode[s]' # "none" => Known(s)' <= sent'
    BY <1>4, <1>10, <1>11, <2>1 DEF Bounded
  <2>3. cur[Root]' = Known(Root)'
    BY <1>4 DEF Known, TypeOK
  <2> QED BY <1>4, <1>10, <1>11, <2>2, <2>3 DEF Bounded, TypeOK
<1>13. BufferIsUnread'
  BY <1>4, <1>11 DEF BufferIsUnread
<1>14. UpToDate'
  <2> SUFFICES ASSUME NEW s \in Subscribers, Live(s)'
               PROVE  Known(s)' = IF mode[parent[s]]' = "publishing" /\ s \in todo[parent[s]]'
                                  THEN Known(parent[s])' - 1 ELSE Known(parent[s])'
    BY DEF UpToDate
  <2>1. PICK p \in Buses : p = parent[s] /\ p = parent[s]' /\ s \in subs[p] /\ Live(s)
    BY <1>11 DEF Listed, Live
  <2>2. Known(parent[s])' = Known(p)'
    BY <2>1 DEF Known
  <2>3. Known(s) = IF mode[p] = "publishing" /\ s \in todo[p] THEN Known(p) - 1 ELSE Known(p)
    BY <2>1 DEF UpToDate
  <2>4. CASE p = Root
    <3>1. Known(s) = Known(Root)
      BY <2>3, <2>4, <1>1
    <3>2. mode[Root]' = "publishing" /\ s \in todo[Root]'
      BY <2>1, <2>4, <1>4, <1>5 DEF TypeOK
    <3>3. Known(s)' = Known(Root)' - 1
      BY <3>1, <1>10
    <3> QED BY <3>2, <3>3, <2>1, <2>2, <2>4
  <2>5. CASE p # Root
    BY <2>1, <2>2, <2>3, <2>5, <1>4, <1>10, <1>11 DEF TypeOK
  <2> QED BY <2>4, <2>5
<1> QED BY <1>6, <1>7, <1>8, <1>9, <1>12, <1>13, <1>14

\* The inductive step: one case per action.
LEMMA NextKeeps ==
    ASSUME IInv, [Next]_vars
    PROVE  IInv'
<1>1. CASE UNCHANGED vars
  BY <1>1 DEF vars, IInv, TypeOK, Listed, Loops, Childless, Bounded, BufferIsUnread,
              UpToDate, Known, Live
<1>2. CASE Publish
  BY <1>2, PublishKeeps
<1>3. CASE Stopped
  BY <1>1, <1>3 DEF Stopped
<1>4. ASSUME NEW b \in Buses, Close(b)
      PROVE  IInv'
  <2>1. /\ closing' = closing \cup {b}
        /\ UNCHANGED <<mode, parent, subs, evbuf, cur, todo, target, sent, read>>
    BY <1>4 DEF Close, loopVars
  <2> QED BY <2>1 DEF IInv, TypeOK, Listed, Loops, Childless, Bounded, BufferIsUnread,
                      UpToDate, Known, Live
<1>5. ASSUME NEW b \in Buses, Shutdown(b)
      PROVE  IInv'
  BY <1>5, ShutdownKeeps
<1>6. ASSUME NEW s \in Subscribers, Emit(s)
      PROVE  IInv'
  BY <1>6, EmitKeeps
<1>7. ASSUME NEW b \in Buses, NEW c \in Subscribers,
             Subscribe(b, c) \/ Forward(b, c) \/ Skip(b, c) \/ Ask(b, c) \/ Unsubscribe(b, c)
      PROVE  IInv'
  BY <1>7, SubscribeKeeps, ForwardKeeps, SkipKeeps, AskKeeps, UnsubscribeKeeps
<1> QED BY <1>1, <1>2, <1>3, <1>4, <1>5, <1>6, <1>7 DEF Next

\* The strengthened invariant, for any subscribers and any number of events.
THEOREM BusInvariant == Spec => []IInv
<1> QED BY InitInv, NextKeeps, PTL DEF Spec

\* What a subscriber holds is exactly what its consumer has not received yet
\* (evbuf in bus.go), in every tree of clones.
THEOREM NothingLostInBuffers == Spec => []BufferIsUnread
<1>1. IInv => BufferIsUnread BY DEF IInv
<1> QED BY <1>1, BusInvariant, PTL

\* Every subscriber has what its parent has, but for the event being handed over.
THEOREM SubscribersKeepUp == Spec => []UpToDate
<1>1. IInv => UpToDate BY DEF IInv
<1> QED BY <1>1, BusInvariant, PTL

\* No bus ends before the buses below it (run's wait on unsubch).
THEOREM ParentsOutlive == Spec => []NoOrphan
<1>1. IInv => NoOrphan
  <2> SUFFICES ASSUME IInv, NEW s \in Subscribers, mode[s] \notin {"none", "done"}
               PROVE  s \in subs[parent[s]] /\ mode[parent[s]] \notin {"none", "reporting", "done"}
    BY DEF NoOrphan
  <2>1. parent[s] \in Buses /\ s \in subs[parent[s]]
    BY DEF IInv, Listed
  <2> QED BY <2>1 DEF IInv, Childless
<1> QED BY <1>1, BusInvariant, PTL

-----------------------------------------------------------------------------
(* The refinement *)

LiveSet == {s \in Subscribers : Live(s)}

\* A step that leaves sent, read and the set of live subscribers as they are
\* is a stuttering step of Broadcast.
LEMMA Stutters ==
    ASSUME UNCHANGED <<sent, read>>, \A s \in Subscribers : Live(s)' <=> Live(s)
    PROVE  UNCHANGED Promise!broadcastVars
<1>1. LiveSet' = LiveSet
  BY DEF LiveSet
<1> QED BY <1>1 DEF Promise!broadcastVars, LiveSet

\* A subscriber that starts to shut down stops; nobody else is concerned.
LEMMA Stops ==
    ASSUME NEW c \in Subscribers, Live(c), ~Live(c)', UNCHANGED <<sent, read>>,
           \A s \in Subscribers \ {c} : Live(s)' <=> Live(s)
    PROVE  Promise!Stop(c)
<1>1. LiveSet' = LiveSet \ {c}
  BY DEF LiveSet
<1> QED BY <1>1 DEF Promise!Stop, LiveSet

LEMMA StepRefines ==
    ASSUME IInv, [Next]_vars
    PROVE  [Promise!BroadcastNext]_Promise!broadcastVars
<1> USE DEF IInv
<1>1. CASE UNCHANGED vars
  BY <1>1, Stutters DEF vars, Live
<1>2. CASE Publish
  <2>1. \A s \in Subscribers : mode[s]' = mode[s]
    BY <1>2, NoRootAmong DEF Publish, TypeOK
  <2>2. LiveSet' = LiveSet
    BY <2>1 DEF LiveSet, Live
  <2>3. Promise!Publish
    BY <1>2, <2>2 DEF Publish, Promise!Publish, LiveSet
  <2> QED BY <2>3 DEF Promise!BroadcastNext
<1>3. CASE Stopped
  BY <1>3, <1>1 DEF Stopped
<1>4. ASSUME NEW b \in Buses, Close(b)
      PROVE  [Promise!BroadcastNext]_Promise!broadcastVars
  BY <1>4, Stutters DEF Close, Live
<1>5. ASSUME NEW b \in Buses, Shutdown(b)
      PROVE  [Promise!BroadcastNext]_Promise!broadcastVars
  <2>1. /\ mode[b] = "running"
        /\ mode' = [mode EXCEPT ![b] = AfterAsking(b, subs[b])]
        /\ UNCHANGED <<sent, read>>
        /\ AfterAsking(b, subs[b]) \notin {"running", "publishing"}
    BY <1>5, Stages DEF Shutdown
  <2>2. CASE b = Root
    <3>1. \A s \in Subscribers : mode[s]' = mode[s]
      BY <2>1, <2>2, NoRootAmong DEF TypeOK
    <3> QED BY <2>1, <3>1, Stutters DEF Live
  <2>3. CASE b # Root
    <3>1. \A s \in Subscribers \ {b} : mode[s]' = mode[s]
      BY <2>1 DEF TypeOK
    <3>2. b \in Subscribers /\ Live(b) /\ ~Live(b)'
      BY <2>1, <2>3 DEF TypeOK, Live
    <3>3. Promise!Stop(b)
      BY <2>1, <3>1, <3>2, Stops DEF Live
    <3> QED BY <3>2, <3>3 DEF Promise!BroadcastNext
  <2> QED BY <2>2, <2>3
<1>6. ASSUME NEW c \in Subscribers, Emit(c)
      PROVE  [Promise!BroadcastNext]_Promise!broadcastVars
  <2>1. /\ mode[c] = "running" /\ evbuf[c] # <<>> /\ evbuf[c] \in Seq(Nat) /\ read[c] \in Nat
        /\ \A i \in 1..Len(evbuf[c]) : evbuf[c][i] = read[c] + i
        /\ read[c] + Len(evbuf[c]) <= sent /\ sent \in Nat
    BY <1>6, NoRootAmong DEF Emit, TypeOK, BufferIsUnread, Bounded, Known
  <2>2. Head(evbuf[c]) = read[c] + 1 /\ read[c] < sent
    <3>1. Len(Tail(evbuf[c])) = Len(evbuf[c]) - 1 /\ Head(evbuf[c]) = read[c] + 1
      BY <2>1, RunShrinks
    <3> QED BY <2>1, <3>1
  <2>3. /\ read' = [read EXCEPT ![c] = read[c] + 1]
        /\ UNCHANGED <<mode, sent>>
    BY <1>6, <2>2 DEF Emit
  <2>4. LiveSet' = LiveSet /\ c \in LiveSet
    BY <2>1, <2>3 DEF LiveSet, Live
  <2>5. Promise!Receive(c)
    BY <2>2, <2>3, <2>4 DEF Promise!Receive, LiveSet
  <2> QED BY <2>5 DEF Promise!BroadcastNext
<1>7. ASSUME NEW b \in Buses, NEW c \in Subscribers, Subscribe(b, c)
      PROVE  [Promise!BroadcastNext]_Promise!broadcastVars
  <2>1. /\ mode[b] = "running" /\ mode[c] = "none"
        /\ mode' = [mode EXCEPT ![c] = "running"]
        /\ read' = [read EXCEPT ![c] = IF b = Root THEN sent ELSE read[b]]
        /\ UNCHANGED sent
    BY <1>7 DEF Subscribe
  <2>2. LiveSet' = LiveSet \cup {c} /\ c \notin LiveSet /\ b \in LiveSet \cup {Root}
    BY <2>1 DEF LiveSet, Live, TypeOK
  <2>3. Promise!Subscribe(b, c)
    BY <2>1, <2>2 DEF Promise!Subscribe, LiveSet
  <2> QED BY <2>3 DEF Promise!BroadcastNext
<1>8. ASSUME NEW b \in Buses, NEW c \in Subscribers, Forward(b, c)
      PROVE  [Promise!BroadcastNext]_Promise!broadcastVars
  <2>1. /\ mode[b] = "publishing" /\ mode[c] = "running"
        /\ mode' = [mode EXCEPT ![b] = AfterPublishing(todo[b] \ {c}),
                                ![c] = AfterPublishing(subs[c])]
        /\ UNCHANGED <<sent, read>>
    BY <1>8 DEF Forward, Receptive
  <2>2. /\ AfterPublishing(todo[b] \ {c}) \in {"running", "publishing"}
        /\ AfterPublishing(subs[c]) \in {"running", "publishing"}
    BY Stages
  <2>3. \A s \in Subscribers : Live(s)' <=> Live(s)
    BY <2>1, <2>2 DEF Live, TypeOK
  <2> QED BY <2>1, <2>3, Stutters
<1>9. ASSUME NEW b \in Buses, NEW c \in Subscribers, Skip(b, c)
      PROVE  [Promise!BroadcastNext]_Promise!broadcastVars
  <2> DEFINE next == IF mode[b] = "publishing" THEN AfterPublishing(todo[b] \ {c})
                     ELSE AfterAsking(b, todo[b] \ {c})
  <2>1. mode[b] \in {"publishing", "asking"} /\ mode' = [mode EXCEPT ![b] = next]
        /\ UNCHANGED <<sent, read>>
    BY <1>9 DEF Skip
  <2>2. next \in {"running", "publishing"} <=> mode[b] = "publishing"
    BY <2>1, Stages
  <2> HIDE DEF next
  <2>3. \A s \in Subscribers : Live(s)' <=> Live(s)
    BY <2>1, <2>2 DEF Live, TypeOK
  <2> QED BY <2>1, <2>3, Stutters
<1>10. ASSUME NEW b \in Buses, NEW c \in Subscribers, Ask(b, c)
       PROVE  [Promise!BroadcastNext]_Promise!broadcastVars
  <2>1. /\ mode[b] = "asking" /\ mode[c] = "running"
        /\ mode' = [mode EXCEPT ![b] = AfterAsking(b, todo[b] \ {c}), ![c] = AfterAsking(c, subs[c])]
        /\ UNCHANGED <<sent, read>>
    BY <1>10 DEF Ask
  <2>2. /\ AfterAsking(b, todo[b] \ {c}) \notin {"running", "publishing"}
        /\ AfterAsking(c, subs[c]) \notin {"running", "publishing"}
    BY Stages
  <2>3. Live(c) /\ ~Live(c)' /\ \A s \in Subscribers \ {c} : Live(s)' <=> Live(s)
    BY <2>1, <2>2 DEF Live, TypeOK
  <2>4. Promise!Stop(c)
    BY <2>1, <2>3, Stops
  <2> QED BY <2>4 DEF Promise!BroadcastNext
<1>11. ASSUME NEW b \in Buses, NEW c \in Subscribers, Unsubscribe(b, c)
       PROVE  [Promise!BroadcastNext]_Promise!broadcastVars
  <2> DEFINE next == IF mode[b] = "running" THEN "running" ELSE AfterWaiting(b, subs[b] \ {c})
  <2>1. /\ mode[c] = "reporting" /\ mode[b] \in {"running", "waiting"}
        /\ mode' = [mode EXCEPT ![c] = "done", ![b] = next]
        /\ UNCHANGED <<sent, read>>
    BY <1>11 DEF Unsubscribe
  <2>2. next \in {"running", "publishing"} <=> mode[b] = "running"
    BY <2>1, Stages
  <2> HIDE DEF next
  <2>3. \A s \in Subscribers : Live(s)' <=> Live(s)
    BY <2>1, <2>2 DEF Live, TypeOK
  <2> QED BY <2>1, <2>3, Stutters
<1> QED BY <1>1, <1>2, <1>3, <1>4, <1>5, <1>6, <1>7, <1>8, <1>9, <1>10, <1>11 DEF Next

\* The bus keeps its promise: each subscriber reads, exactly once and in order,
\* the events after the point where it, or the one it was cloned from, began.
THEOREM BusKeepsPromise == Spec => ImplementsBroadcast
<1>1. Init => Promise!BroadcastInit
  <2>1. ASSUME Init
        PROVE  LiveSet = {}
    BY <2>1 DEF Init, LiveSet, Live
  <2> QED BY <2>1 DEF Init, Promise!BroadcastInit, LiveSet
<1>2. IInv /\ [Next]_vars => [Promise!BroadcastNext]_Promise!broadcastVars
  BY StepRefines
<1> QED BY <1>1, <1>2, BusInvariant, PTL DEF Spec, ImplementsBroadcast, Promise!BroadcastSpec
=============================================================================
