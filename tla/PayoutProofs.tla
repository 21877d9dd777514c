---------------------------- MODULE PayoutProofs ----------------------------
(***************************************************************************)
(* Proofs about how miners and hosts come to their pay: the pool's proxy   *)
(* (Proxy), the payout step of the provider agent (Agent) and its watch of *)
(* the treasury (TreasuryWatch).                                           *)
(***************************************************************************)
EXTENDS Proxy, Agent, TreasuryWatch, SequenceTheorems, FiniteSums

-----------------------------------------------------------------------------
(***************************************************************************)
(* Proof that the proxy credits a share only upon the pool's answer to     *)
(* that submit, and once: for every number of requests, ids of miners and  *)
(* limits of the maps.                                                     *)
(*                                                                         *)
(* CreditIsEarned is not inductive.  That a credit is not given twice      *)
(* rests on Resolved: an id that was credited has left the map for good,   *)
(* as ids are never issued again.  That it is earned rests on what is      *)
(* known of an answer on its way (AnswersJudged) and of an entry that      *)
(* counts as a share (SharesAreJobs).                                      *)
(*                                                                         *)
(* That an answer is taken for its own request has two halves.  The        *)
(* address it credits: on a cpu connection whatever is outstanding was     *)
(* asked under the address bound now (AnswersOfSession), since only a      *)
(* login binds it and nothing goes out before.  The id the miner reads:    *)
(* what is outstanding has its entry unless the map dropped it (HasEntry), *)
(* since an entry leaves with the answer and the pool gives only one       *)
(* (AnsweredOnce).                                                         *)
(***************************************************************************)

Requests == [kind : Jobs \union {"login", "other"}, mid : MinerIds,
             by : Addresses \union {NoAddress}, share : BOOLEAN]

Types ==
    /\ addr \in Addresses \union {NoAddress}
    /\ asked \in Seq(Requests)
    /\ unanswered \subseteq Ids /\ pending \subseteq Ids
    /\ answers \subseteq [id : Ids, ok : BOOLEAN]
    /\ accepted \subseteq Ids
    /\ credits \in Seq(Ids \X Addresses)

\* Only submits count as shares.
SharesAreJobs == \A id \in Ids : asked[id].share => asked[id].kind \in Jobs

\* An answer that accepts a submit is one the pool gave.
AnswersJudged ==
    \A answer \in answers : answer.ok /\ asked[answer.id].kind \in Jobs => answer.id \in accepted

\* An id that was credited is not in the map any more.
Resolved == \A i \in DOMAIN credits : credits[i][1] \notin unanswered

IInv == Types /\ SharesAreJobs /\ AnswersJudged /\ Resolved /\ CreditIsEarned

USE ProxyAssumption
-----------------------------------------------------------------------------

\* Initially there are no requests, answers or credits.
LEMMA InitIInv == Init => IInv
BY DEF Init, IInv, Types, Ids, SharesAreJobs, AnswersJudged, Resolved, CreditIsEarned, Requests

\* A new connection starts from nothing.
LEMMA ReopenedIInv == Reopened => IInv'
BY DEF Reopened, IInv, Types, Ids, SharesAreJobs, AnswersJudged, Resolved, CreditIsEarned, Requests

\* A request under a fresh id leaves earlier ones, their answers and credits
\* as they are.
LEMMA IssueIInv ==
    ASSUME IInv, NEW request \in Requests, Issue(request),
           request.share => request.kind \in Jobs,
           addr' \in Addresses \union {NoAddress},
           UNCHANGED <<answers, accepted, credits>>
    PROVE  IInv'
<1> DEFINE n == Len(asked) + 1
<1>1. /\ n \in Nat /\ asked' = Append(asked, request) /\ asked \in Seq(Requests)
      /\ Ids = 1..(n - 1) /\ n \notin Ids
  BY DEF Issue, IInv, Types, Ids
<1>2. asked' \in Seq(Requests) /\ Len(asked') = n
  BY <1>1
<1>3. Ids' = Ids \union {n} /\ Ids \subseteq Ids'
  BY <1>1, <1>2 DEF Ids
<1>4. asked'[n] = request /\ \A id \in Ids : asked'[id] = asked[id]
  BY <1>1
<1>5. unanswered' \subseteq unanswered \union {n} /\ pending' \subseteq pending \union {n}
  BY DEF Issue
<1> HIDE DEF n
<1>6. credits \in Seq(Ids' \X Addresses)
  BY <1>3 DEF IInv, Types
<1>7. Types'
  BY <1>2, <1>3, <1>5, <1>6 DEF IInv, Types
<1>8. SharesAreJobs'
  BY <1>3, <1>4 DEF IInv, SharesAreJobs
<1>9. AnswersJudged'
  BY <1>4 DEF IInv, Types, AnswersJudged
<1>10. Resolved'
  <2>1. ASSUME NEW i \in DOMAIN credits PROVE credits[i][1] \in Ids /\ credits[i][1] \notin unanswered
    BY DEF IInv, Types, Resolved
  <2> QED
    BY <1>1, <1>5, <2>1 DEF Resolved
<1>11. CreditIsEarned'
  BY DEF IInv, CreditIsEarned
<1> QED
  BY <1>7, <1>8, <1>9, <1>10, <1>11 DEF IInv

\* A judgement adds an answer, and the share to the accepted ones.
LEMMA JudgeIInv ==
    ASSUME IInv, NEW id \in pending, NEW ok \in BOOLEAN, Judge(id, ok)
    PROVE  IInv'
<1>1. /\ id \in Ids /\ Ids' = Ids /\ asked' = asked /\ credits' = credits
      /\ unanswered' = unanswered /\ addr' = addr
      /\ pending' = pending \ {id}
      /\ answers' = answers \union {[id |-> id, ok |-> ok]}
      /\ accepted' = IF ok /\ asked[id].kind \in Jobs THEN accepted \union {id} ELSE accepted
  BY DEF Judge, IInv, Types, Ids
<1>2. Types'
  BY <1>1 DEF IInv, Types
<1>3. SharesAreJobs' /\ Resolved' /\ CreditIsEarned'
  BY <1>1 DEF IInv, SharesAreJobs, Resolved, CreditIsEarned
<1>4. AnswersJudged'
  BY <1>1 DEF IInv, AnswersJudged
<1> QED
  BY <1>2, <1>3, <1>4 DEF IInv

\* An answer is passed on once, and credits the share it accepts.
LEMMA PumpIInv ==
    ASSUME IInv, NEW answer \in answers, Pump(answer)
    PROVE  IInv'
<1> DEFINE u == answer.id
<1>1. /\ u \in Ids /\ Ids' = Ids /\ asked' = asked /\ addr' = addr
      /\ pending' = pending /\ accepted' = accepted
      /\ answers' = answers \ {answer} /\ unanswered' = unanswered \ {u}
  BY DEF Pump, Entry, IInv, Types, Ids
<1>2. SharesAreJobs' /\ AnswersJudged'
  BY <1>1 DEF IInv, SharesAreJobs, AnswersJudged
<1>3. CASE credits' = credits
  BY <1>1, <1>2, <1>3 DEF IInv, Types, Resolved, CreditIsEarned
<1>4. CASE credits' # credits
  <2>1. /\ answer.ok /\ u \in unanswered /\ asked[u].share /\ addr # NoAddress
        /\ credits' = Append(credits, <<u, addr>>)
    BY <1>4 DEF Pump, Entry
  <2>2. u \in accepted
    BY <1>1, <2>1 DEF IInv, SharesAreJobs, AnswersJudged
  <2>3. credits \in Seq(Ids \X Addresses) /\ <<u, addr>> \in Ids \X Addresses
    BY <1>1, <2>1 DEF IInv, Types
  <2> HIDE DEF u
  <2>4. credits' \in Seq(Ids \X Addresses)
    BY <2>1, <2>3
  <2>5. PICK n \in Nat : n = Len(credits)
    BY <2>3
  <2>6. /\ DOMAIN credits = 1..n /\ DOMAIN credits' = 1..(n + 1)
        /\ credits'[n + 1] = <<u, addr>>
        /\ \A i \in 1..n : credits'[i] = credits[i]
    BY <2>1, <2>3, <2>5
  <2>7. \A i \in 1..n : credits'[i][1] \in accepted /\ credits'[i][1] \notin unanswered
    BY <2>6 DEF IInv, Resolved, CreditIsEarned
  <2>8. credits'[n + 1][1] = u
    BY <2>6
  <2>9. \A i \in 1..(n + 1) : i \in 1..n \/ i = n + 1
    OBVIOUS
  <2>10. Types'
    BY <1>1, <2>4 DEF IInv, Types
  <2>11. Resolved'
    BY <1>1, <2>6, <2>7, <2>8, <2>9 DEF Resolved
  <2>12. \A i \in 1..(n + 1) : credits'[i][1] \in accepted
    BY <2>2, <2>7, <2>8, <2>9
  <2>13. ASSUME NEW i \in 1..(n + 1), NEW j \in 1..(n + 1), credits'[i][1] = credits'[j][1]
         PROVE  i = j
    <3>1. CASE i \in 1..n /\ j \in 1..n
      <4>1. credits[i][1] = credits[j][1]
        BY <2>6, <2>13, <3>1
      <4> QED
        BY <2>6, <3>1, <4>1 DEF IInv, CreditIsEarned
    <3>2. CASE i \in 1..n /\ j = n + 1
      BY <2>1, <2>7, <2>8, <2>13, <3>2
    <3>3. CASE i = n + 1 /\ j \in 1..n
      BY <2>1, <2>7, <2>8, <2>13, <3>3
    <3> QED
      BY <2>9, <3>1, <3>2, <3>3
  <2>14. CreditIsEarned'
    BY <1>1, <2>6, <2>12, <2>13 DEF CreditIsEarned
  <2> QED
    BY <1>2, <2>10, <2>11, <2>14 DEF IInv
<1> QED
  BY <1>3, <1>4

\* Every step keeps the invariant.
LEMMA NextIInv == IInv /\ [Next]_vars => IInv'
<1> SUFFICES ASSUME IInv, [Next]_vars PROVE IInv'
  OBVIOUS
<1>1. ASSUME NEW m \in MinerIds, NEW a \in Addresses, Login(a, m) PROVE IInv'
  <2>1. Request("login", m, FALSE) \in Requests
    BY <1>1 DEF Login, Request, Requests
  <2>2. ~Request("login", m, FALSE).share
    BY DEF Request
  <2> QED
    BY <1>1, <2>1, <2>2, IssueIInv DEF Login
<1>2. ASSUME NEW m \in MinerIds, NEW job \in Jobs, Submit(job, m) PROVE IInv'
  <2>1. Request(job, m, Known(job)) \in Requests
    BY <1>2 DEF Submit, Request, Requests, IInv, Types, Known
  <2>2. Request(job, m, Known(job)).kind \in Jobs
    BY DEF Request
  <2> QED
    BY <1>2, <2>1, <2>2, IssueIInv DEF Submit, IInv, Types
<1>3. ASSUME NEW m \in MinerIds, Ask(m) PROVE IInv'
  <2>1. Request("other", m, FALSE) \in Requests
    BY <1>3 DEF Ask, Request, Requests, IInv, Types
  <2>2. ~Request("other", m, FALSE).share
    BY DEF Request
  <2> QED
    BY <1>3, <2>1, <2>2, IssueIInv DEF Ask, IInv, Types
<1>4. ASSUME NEW job \in Jobs, Notify(job) PROVE IInv'
  BY <1>4 DEF Notify, IInv, Types, Ids, SharesAreJobs, AnswersJudged, Resolved, CreditIsEarned
<1>5. CASE Saved
  BY <1>5 DEF Saved, session, IInv, Types, Ids, SharesAreJobs, AnswersJudged, Resolved,
              CreditIsEarned
<1>6. CASE Reconnect \/ Crash
  BY <1>6, ReopenedIInv DEF Reconnect, Crash
<1>7. CASE UNCHANGED vars
  BY <1>7 DEF vars, session, IInv, Types, Ids, SharesAreJobs, AnswersJudged, Resolved,
              CreditIsEarned
<1> QED
  BY <1>1, <1>2, <1>3, <1>4, <1>5, <1>6, <1>7, JudgeIInv, PumpIInv DEF Next, Serve, Pool, Miner

\* "Share credit must be bound to the pool's answer to THAT submit"
\* (UpstreamIds), whatever ids the miner chooses and in whatever order the
\* pool answers.
THEOREM CreditsAreEarned == Spec => []CreditIsEarned
<1>1. IInv => CreditIsEarned
  BY DEF IInv
<1> QED
  BY InitIInv, NextIInv, <1>1, PTL DEF Spec
-----------------------------------------------------------------------------
(* Answers are taken for the requests they answer. *)

\* The requests the pool is asked, and has not had its answer passed on for.
Outstanding == pending \union {answer.id : answer \in answers}

\* What is outstanding was asked under the address of the connection.
AnswersOfSession == \A id \in Outstanding : connected /\ asked[id].by = addr

SInv == IInv /\ AnswersOfSession /\ CreditedToSubmitter

\* A request under a fresh id, while the address is bound or nothing is
\* outstanding.
LEMMA IssueSInv ==
    ASSUME SInv, NEW request \in Requests, Issue(request), request.by = addr',
           connected => connected' /\ addr' = addr,
           UNCHANGED <<answers, credits>>
    PROVE  AnswersOfSession' /\ CreditedToSubmitter'
<1> DEFINE n == Len(asked) + 1
<1>1. /\ n \notin Ids /\ asked'[n] = request
      /\ \A id \in Ids : asked'[id] = asked[id]
  BY DEF Issue, SInv, IInv, Types, Ids
<1>2. pending' = pending \/ (connected' /\ pending' = pending \union {n})
  BY DEF Issue
<1> HIDE DEF n
<1>3. Outstanding \subseteq Ids
  BY DEF Outstanding, SInv, IInv, Types
<1>4. ASSUME NEW id \in Outstanding PROVE connected' /\ asked'[id].by = addr'
  BY <1>1, <1>3, <1>4 DEF SInv, AnswersOfSession
<1>5. Outstanding' = Outstanding \/ (connected' /\ Outstanding' = Outstanding \union {n})
  BY <1>2 DEF Outstanding
<1>6. AnswersOfSession'
  BY <1>1, <1>4, <1>5 DEF AnswersOfSession
<1>7. ASSUME NEW i \in DOMAIN credits PROVE credits[i][2] = asked'[credits[i][1]].by
  <2>1. credits[i][1] \in Ids
    BY DEF SInv, IInv, Types
  <2> QED
    BY <1>1, <2>1 DEF SInv, CreditedToSubmitter
<1> QED
  BY <1>6, <1>7 DEF CreditedToSubmitter

\* An answer passed on credits the address of the connection.
LEMMA PumpSInv ==
    ASSUME SInv, NEW answer \in answers, Pump(answer)
    PROVE  AnswersOfSession' /\ CreditedToSubmitter'
<1> DEFINE u == answer.id
<1>1. /\ u \in Outstanding /\ asked' = asked /\ addr' = addr /\ connected' = connected
      /\ Outstanding' \subseteq Outstanding
  BY DEF Pump, Outstanding
<1>2. AnswersOfSession'
  BY <1>1 DEF SInv, AnswersOfSession
<1>3. CASE credits' = credits
  BY <1>1, <1>2, <1>3 DEF SInv, CreditedToSubmitter
<1>4. CASE credits' # credits
  <2>1. credits' = Append(credits, <<u, addr>>) /\ credits \in Seq(Ids \X Addresses)
    BY <1>4 DEF Pump, SInv, IInv, Types
  <2>2. asked[u].by = addr
    BY <1>1 DEF SInv, AnswersOfSession
  <2> HIDE DEF u
  <2>3. PICK n \in Nat : n = Len(credits)
    BY <2>1
  <2>4. /\ DOMAIN credits = 1..n /\ DOMAIN credits' = 1..(n + 1)
        /\ credits'[n + 1] = <<u, addr>>
        /\ \A i \in 1..n : credits'[i] = credits[i]
    BY <2>1, <2>3
  <2>5. ASSUME NEW i \in 1..(n + 1) PROVE credits'[i][2] = asked'[credits'[i][1]].by
    <3>1. CASE i = n + 1
      BY <1>1, <2>2, <2>4, <3>1
    <3>2. CASE i \in 1..n
      BY <1>1, <2>4, <3>2 DEF SInv, CreditedToSubmitter
    <3> QED
      BY <3>1, <3>2
  <2> QED
    BY <1>2, <2>4, <2>5 DEF CreditedToSubmitter
<1> QED
  BY <1>3, <1>4

\* Every step of a cpu connection keeps the invariant: its address is bound
\* before anything goes to the pool.
LEMMA NextSInv ==
    ASSUME Dialect = "cpu", SInv, [Next]_vars
    PROVE  SInv'
<1>1. IInv'
  BY NextIInv DEF SInv
<1>2. ASSUME NEW m \in MinerIds, NEW a \in Addresses, Login(a, m)
      PROVE  AnswersOfSession' /\ CreditedToSubmitter'
  <2>1. Request("login", m, FALSE) \in Requests /\ Request("login", m, FALSE).by = addr'
    BY <1>2 DEF Login, Request, Requests
  <2> QED
    BY <1>2, <2>1, IssueSInv DEF Login
<1>3. ASSUME NEW m \in MinerIds, NEW job \in Jobs, Submit(job, m)
      PROVE  AnswersOfSession' /\ CreditedToSubmitter'
  <2>1. Request(job, m, Known(job)) \in Requests /\ Request(job, m, Known(job)).by = addr'
    BY <1>3 DEF Submit, Request, Requests, SInv, IInv, Types, Known
  <2> QED
    BY <1>3, <2>1, IssueSInv DEF Submit
<1>4. ASSUME NEW m \in MinerIds, Ask(m) PROVE AnswersOfSession' /\ CreditedToSubmitter'
  <2>1. Request("other", m, FALSE) \in Requests /\ Request("other", m, FALSE).by = addr'
    BY <1>4 DEF Ask, Request, Requests, SInv, IInv, Types
  <2> QED
    BY <1>4, <2>1, IssueSInv DEF Ask
<1>5. ASSUME NEW id \in pending, NEW ok \in BOOLEAN, Judge(id, ok)
      PROVE  AnswersOfSession' /\ CreditedToSubmitter'
  BY <1>5 DEF Judge, SInv, AnswersOfSession, Outstanding, CreditedToSubmitter
<1>6. ASSUME NEW job \in Jobs, Notify(job) PROVE AnswersOfSession' /\ CreditedToSubmitter'
  BY <1>6 DEF Notify, SInv, AnswersOfSession, Outstanding, CreditedToSubmitter
<1>7. CASE Saved \/ UNCHANGED vars
  <2>1. UNCHANGED <<addr, connected, asked, pending, answers, credits>>
    BY <1>7 DEF Saved, vars, session
  <2>2. Outstanding' = Outstanding
    BY <2>1 DEF Outstanding
  <2>3. AnswersOfSession'
    BY <2>1, <2>2 DEF SInv, AnswersOfSession
  <2>4. CreditedToSubmitter'
    BY <2>1 DEF SInv, CreditedToSubmitter
  <2> QED
    BY <1>1, <2>3, <2>4 DEF SInv
<1>8. CASE Reconnect \/ Crash
  <2>1. pending' = {} /\ answers' = {} /\ credits' = <<>>
    BY <1>8 DEF Reconnect, Crash, Reopened
  <2>2. Outstanding' = {} /\ DOMAIN credits' = {}
    BY <2>1 DEF Outstanding
  <2>3. AnswersOfSession'
    BY <2>2 DEF AnswersOfSession
  <2>4. CreditedToSubmitter'
    BY <2>2 DEF CreditedToSubmitter
  <2> QED
    BY <1>1, <2>3, <2>4 DEF SInv
<1> QED
  BY <1>1, <1>2, <1>3, <1>4, <1>5, <1>6, <1>7, <1>8, PumpSInv
  DEF SInv, Next, Serve, Pool, Miner

\* "Share credit must be bound to the pool's answer to THAT submit": on a cpu
\* connection the address credited is the one the share was submitted under
\* (handle_miner).  The gpu dialect does not have this: the run
\* ProxyAuthorize shows an address bound anew between submit and answer.
THEOREM CreditsGoToSubmitters ==
    ASSUME Dialect = "cpu"
    PROVE  Spec => []CreditedToSubmitter
<1>1. Init => SInv
  BY InitIInv DEF Init, SInv, AnswersOfSession, Outstanding, CreditedToSubmitter
<1>2. SInv => CreditedToSubmitter
  BY DEF SInv
<1>3. SInv /\ [Next]_vars => SInv'
  BY NextSInv
<1> QED
  BY <1>1, <1>2, <1>3, PTL DEF Spec

-----------------------------------------------------------------------------

\* Every outstanding request has its entry, unless the map dropped it.
HasEntry == Outstanding \subseteq unanswered \union evicted

\* The pool answers a request once.
AnsweredOnce ==
    \A answer \in answers :
        /\ answer.id \notin pending
        /\ \A other \in answers : other.id = answer.id => other = answer

RInv ==
    /\ IInv /\ HasEntry /\ RepliesMatch /\ AnsweredOnce
    /\ \A r \in replies : r[1] \in Ids

LEMMA IssueRInv ==
    ASSUME RInv, NEW request, Issue(request), UNCHANGED <<answers, replies>>
    PROVE  HasEntry' /\ RepliesMatch' /\ AnsweredOnce' /\ \A r \in replies' : r[1] \in Ids'
<1> DEFINE n == Len(asked) + 1
<1>1. /\ n \in Nat /\ asked' = Append(asked, request) /\ asked \in Seq(Requests)
      /\ Len(asked') = n /\ Ids = 1..(n - 1) /\ Ids' = 1..n /\ n \notin Ids
      /\ \A id \in Ids : asked'[id] = asked[id]
  BY DEF Issue, RInv, IInv, Types, Ids
<1>2. pending' \subseteq pending \union {n}
  BY DEF Issue
<1>3. PICK oldest : /\ unanswered' = (unanswered \union {n}) \ oldest
                    /\ evicted' = evicted \union oldest
  BY DEF Issue
<1> HIDE DEF n
<1>4. HasEntry'
  BY <1>2, <1>3 DEF RInv, HasEntry, Outstanding
<1>5. RepliesMatch'
  BY <1>1, <1>3 DEF RInv, RepliesMatch
<1>6. AnsweredOnce'
  BY <1>1, <1>2 DEF RInv, IInv, Types, AnsweredOnce
<1>7. \A r \in replies' : r[1] \in Ids'
  BY <1>1 DEF RInv
<1> QED
  BY <1>4, <1>5, <1>6, <1>7

LEMMA PumpRInv ==
    ASSUME RInv, NEW answer \in answers, Pump(answer)
    PROVE  HasEntry' /\ RepliesMatch' /\ AnsweredOnce' /\ \A r \in replies' : r[1] \in Ids'
<1> DEFINE u == answer.id
<1>1. /\ u \in Ids /\ u \in Outstanding /\ asked' = asked /\ Ids' = Ids
      /\ pending' = pending /\ answers' = answers \ {answer}
      /\ unanswered' = unanswered \ {u} /\ evicted' = evicted
  BY DEF Pump, Entry, Outstanding, RInv, IInv, Types, Ids
<1>2. AnsweredOnce' /\ u \notin Outstanding' /\ Outstanding' \subseteq Outstanding
  BY <1>1 DEF RInv, AnsweredOnce, Outstanding
<1>3. \A r \in replies' : r \in replies \/ r[1] = u
  BY DEF Pump, Entry
<1>4. replies' = replies \union {<<u, IF u \in unanswered THEN asked[u].mid ELSE u>>}
  BY DEF Pump, Entry
<1> HIDE DEF u
<1>5. HasEntry'
  BY <1>1, <1>2 DEF RInv, HasEntry
<1>6. u \in unanswered \/ u \in evicted
  BY <1>1 DEF RInv, HasEntry
<1>7. RepliesMatch'
  BY <1>1, <1>4, <1>6 DEF RInv, RepliesMatch
<1> QED
  BY <1>1, <1>2, <1>3, <1>5, <1>7 DEF RInv

LEMMA NextRInv == RInv /\ [Next]_vars => RInv'
<1> SUFFICES ASSUME RInv, [Next]_vars PROVE RInv'
  OBVIOUS
<1>1. IInv'
  BY NextIInv DEF RInv
<1>2. CASE \E m \in MinerIds : \/ \E a \in Addresses : Login(a, m)
                               \/ \E job \in Jobs : Submit(job, m)
                               \/ Ask(m)
  BY <1>1, <1>2, IssueRInv DEF Login, Submit, Ask, RInv
<1>3. ASSUME NEW id \in pending, NEW ok \in BOOLEAN, Judge(id, ok) PROVE RInv'
  <2>1. /\ Ids' = Ids /\ asked' = asked /\ unanswered' = unanswered /\ replies' = replies
        /\ evicted' = evicted /\ pending' = pending \ {id}
        /\ answers' = answers \union {[id |-> id, ok |-> ok]}
    BY <1>3 DEF Judge, Ids
  <2>2. Outstanding' = Outstanding
    <3>1. [id |-> id, ok |-> ok].id = id
      OBVIOUS
    <3>2. {answer.id : answer \in answers'} = {answer.id : answer \in answers} \union {id}
      BY <2>1, <3>1
    <3> QED
      BY <2>1, <3>2 DEF Outstanding
  <2>3. HasEntry' /\ RepliesMatch'
    BY <2>1, <2>2 DEF RInv, HasEntry, RepliesMatch
  <2>4. AnsweredOnce'
    BY <2>1 DEF RInv, AnsweredOnce
  <2> QED
    BY <1>1, <2>1, <2>3, <2>4 DEF RInv
<1>4. ASSUME NEW answer \in answers, Pump(answer) PROVE RInv'
  BY <1>1, <1>4, PumpRInv DEF RInv
<1>5. ASSUME NEW job \in Jobs, Notify(job) PROVE RInv'
  BY <1>1, <1>5 DEF Notify, RInv, Ids, HasEntry, Outstanding, AnsweredOnce, RepliesMatch
<1>6. CASE Saved \/ UNCHANGED vars
  BY <1>1, <1>6 DEF Saved, vars, session, RInv, Ids, HasEntry, Outstanding, AnsweredOnce,
                    RepliesMatch
<1>7. CASE Reconnect \/ Crash
  BY <1>1, <1>7 DEF Reconnect, Crash, Reopened, RInv, HasEntry, Outstanding, AnsweredOnce,
                    RepliesMatch
<1> QED
  BY <1>2, <1>3, <1>4, <1>5, <1>6, <1>7 DEF Next, Serve, Pool, Miner

\* The miner reads every answer under the id of the request it answers,
\* whatever its own ids are and in whatever order the pool answers, unless
\* the map dropped the entry (UpstreamIds).
THEOREM RepliesFollowRequests == Spec => []RepliesMatch
<1>1. Init => RInv
  BY InitIInv DEF Init, RInv, HasEntry, Outstanding, AnsweredOnce, RepliesMatch
<1>2. RInv => RepliesMatch
  BY DEF RInv
<1> QED
  BY <1>1, <1>2, NextRInv, PTL DEF Spec

\* Both, for a cpu connection: an answer is taken for the request it answers
\* and no other (UpstreamIds).
THEOREM AnswersAreMatched ==
    ASSUME Dialect = "cpu"
    PROVE  Spec => []AnswersMatched
<1>1. CreditedToSubmitter /\ RepliesMatch => AnswersMatched
  BY DEF AnswersMatched
<1> QED
  BY <1>1, CreditsGoToSubmitters, RepliesFollowRequests, PTL

-----------------------------------------------------------------------------
(***************************************************************************)
(* The agent: what it takes for new has arrived since it last looked, for  *)
(* any inflows, fees, faults and restarts, save one fault: a swap that is  *)
(* counted and not carried out, which the run AgentUnmined is about.       *)
(*                                                                         *)
(* The two properties rest on Backed: the wallet and what was counted as   *)
(* swapped out of it do not exceed what arrived, and for the state in      *)
(* memory as for the one in state.json, what had arrived when it was last  *)
(* credited and was not credited has left the wallet uncounted.            *)
(***************************************************************************)

BooksType ==
    [epoch : 0..(FlushEvery - 1), credited : Nat, swapped : Nat, seen : Nat,
     owed : [Providers -> Nat], pots : [Pots -> Nat], totals : [Pots -> Nat]]

AgentTypes ==
    /\ stage \in {"credit", "pay", "fee", "flush"} /\ round \in BOOLEAN
    /\ todo \subseteq Pots
    /\ DOMAIN due \subseteq Providers /\ \A p \in DOMAIN due : due[p] \in Nat
    /\ mem \in BooksType /\ disk \in BooksType
    /\ wallet \in Nat /\ lp \in Nat /\ arrived \in Nat

Backed ==
    /\ wallet + mem.swapped <= arrived
    /\ disk.swapped <= mem.swapped
    /\ \A s \in {mem, disk} :
          /\ s.credited <= s.seen /\ s.seen <= arrived
          /\ s.seen - s.credited <= arrived - wallet - s.swapped

\* A swap takes out of the wallet at most what is there, and counts at most
\* what was asked for.
LEMMA SpendWithin ==
    ASSUME NEW amount \in Int, NEW balance \in Nat
    PROVE  /\ Spend(amount, balance) \in 0..balance
           /\ amount \in Nat => Spend(amount, balance) \in 0..amount
  BY AgentAssumption DEF Spend

LEMMA SwappedWithin ==
    ASSUME NEW amount \in Int, NEW balance \in Nat, NEW kind \in SwapFaults
    PROVE  LET swap == Swapped(amount, balance, kind)
           IN  /\ swap.gone \in 0..balance /\ swap.spent \in 0..balance
               /\ swap.returned \in BOOLEAN
               /\ amount \in Nat => swap.spent \in 0..amount
               /\ kind # "unmined" /\ swap.returned => swap.spent = swap.gone
  <1>. DEFINE spend == IF kind = "unread" THEN 0 ELSE Spend(amount, balance)
  <1>1. spend \in 0..balance /\ (amount \in Nat => spend \in 0..amount)
    BY SpendWithin
  <1>2. kind = "unread" => spend = 0
    OBVIOUS
  <1>. HIDE DEF spend
  <1>3. Swapped(amount, balance, kind) =
            [gone |-> IF kind \in {"none", "landed"} THEN spend ELSE 0,
             spent |-> spend, returned |-> kind \notin {"thrown", "landed"}]
    BY DEF Swapped, spend
  <1>. DEFINE swap == Swapped(amount, balance, kind)
  <1>4. /\ swap.gone = IF kind \in {"none", "landed"} THEN spend ELSE 0
        /\ swap.spent = spend /\ swap.returned = (kind \notin {"thrown", "landed"})
    BY <1>3
  <1>5. kind \in {"none", "unread", "thrown", "landed", "unmined"}
    BY DEF SwapFaults
  <1>6. 0 \in 0..balance
    OBVIOUS
  <1>. HIDE DEF swap
  <1>7. swap.gone \in 0..balance /\ swap.spent \in 0..balance
    BY <1>1, <1>4, <1>6
  <1>8. swap.returned \in BOOLEAN /\ (amount \in Nat => swap.spent \in 0..amount)
    BY <1>1, <1>4
  <1>9. kind # "unmined" /\ swap.returned => swap.spent = swap.gone
    BY <1>2, <1>4, <1>5
  <1>. QED
    BY <1>7, <1>8, <1>9 DEF swap

LEMMA SharesType ==
    ASSUME NEW slice \in Nat
    PROVE  Host(slice) \in Nat /\ Split(slice) \in [Pots -> Nat]
  <1>1. Host(slice) \in Nat /\ Cut(slice) \in Nat
    BY DEF Host, Cut
  <1>2. slice - Host(slice) - 2 * Cut(slice) \in Nat
    BY DEF Host, Cut
  <1>. QED
    BY <1>1, <1>2 DEF Split

LEMMA AddedType ==
    ASSUME NEW pots \in [Pots -> Nat], NEW more \in [Pots -> Nat]
    PROVE  Added(pots, more) \in [Pots -> Nat]
  BY DEF Added

LEMMA ReservedType ==
    ASSUME mem \in BooksType
    PROVE  Reserved \in Nat
  <1>1. mem.owed \in [Providers -> Nat]
    BY DEF BooksType
  <1>2. IsFiniteSet(DOMAIN mem.owed) /\ \A p \in DOMAIN mem.owed : mem.owed[p] \in Nat
    BY <1>1, AgentAssumption
  <1>3. Reserved = Total(mem.owed, DOMAIN mem.owed)
    BY SetSumIsTotal DEF Reserved, SumOf
  <1>. QED
    BY <1>2, <1>3, TotalNat

LEMMA AgentStarts == AgentInit => AgentTypes /\ Backed
  <1>. SUFFICES ASSUME AgentInit PROVE AgentTypes /\ Backed
    OBVIOUS
  <1>1. 0 \in 0..(FlushEvery - 1)
    BY AgentAssumption
  <1>2. NoState \in BooksType
    BY <1>1 DEF NoState, BooksType
  <1>3. AgentTypes
    BY <1>2 DEF AgentInit, AgentTypes, NothingDue
  <1>. QED
    BY <1>3 DEF AgentInit, Backed, NoState

\* Each action, on the types and on what is backed.
LEMMA CreditKeeps ==
    ASSUME AgentTypes, NEW active \in SUBSET Providers, Credit(active)
    PROVE  AgentTypes' /\ (Backed => Backed')
  <1>1. NextEpoch \in 0..(FlushEvery - 1) /\ Cumulative \in Nat /\ New \in Nat
    BY AgentAssumption DEF AgentTypes, BooksType, NextEpoch, Cumulative, New
  <1>2. mem' \in BooksType
    BY <1>1 DEF Credit, AgentTypes, BooksType
  <1>3. /\ DOMAIN due' \subseteq Providers
        /\ \A p \in DOMAIN due' : due'[p] \in Nat
    <2>1. CASE New > 0
      <3>1. due' = [p \in active |-> New \div Cardinality(active)]
        BY <2>1 DEF Credit
      <3>2. ASSUME NEW p \in active PROVE New \div Cardinality(active) \in Nat
        <4>1. IsFiniteSet(active)
          BY AgentAssumption, FS_Subset
        <4>2. Cardinality(active) \in Nat /\ Cardinality(active) # 0
          BY <4>1, FS_CardinalityType, FS_EmptySet
        <4>. QED
          BY <1>1, <4>2
      <3>. QED
        BY <3>1, <3>2
    <2>2. CASE ~(New > 0)
      BY <2>2 DEF Credit, NothingDue
    <2>. QED
      BY <2>1, <2>2
  <1>4. AgentTypes'
    BY <1>2, <1>3 DEF Credit, AgentTypes, agentBounds
  <1>5. ASSUME Backed PROVE Backed'
    <2>1. /\ mem'.credited = wallet + mem.swapped /\ mem'.seen = arrived
          /\ mem'.swapped = mem.swapped
      BY DEF Credit, Cumulative, AgentTypes, BooksType
    <2>. QED
      BY <1>5, <2>1 DEF Credit, Backed, AgentTypes, BooksType
  <1>. QED
    BY <1>4, <1>5

LEMMA NoCreditKeeps ==
    ASSUME AgentTypes, NoCredit
    PROVE  AgentTypes' /\ (Backed => Backed')
  <1>1. NextEpoch \in 0..(FlushEvery - 1)
    BY AgentAssumption DEF AgentTypes, BooksType, NextEpoch
  <1>2. mem' \in BooksType
    BY <1>1 DEF NoCredit, AgentTypes, BooksType
  <1>3. AgentTypes'
    BY <1>2 DEF NoCredit, AgentTypes, coins
  <1>4. /\ mem'.credited = mem.credited /\ mem'.seen = mem.seen
        /\ mem'.swapped = mem.swapped
    BY DEF NoCredit, AgentTypes, BooksType
  <1>. QED
    BY <1>3, <1>4 DEF NoCredit, Backed, coins

LEMMA PayKeeps ==
    ASSUME AgentTypes, NEW p \in Providers, NEW kind \in SwapFaults, Pay(p, kind)
    PROVE  AgentTypes' /\ (kind # "unmined" /\ Backed => Backed')
  <1>. DEFINE slice == due[p]
              pend == mem.owed[p] + Host(slice)
              swap == Swapped(pend, wallet, kind)
  <1>1. slice \in Nat /\ Host(slice) \in Nat /\ Split(slice) \in [Pots -> Nat]
    BY SharesType DEF Pay, AgentTypes
  <1>2. pend \in Nat
    BY <1>1 DEF AgentTypes, BooksType
  <1>3. /\ swap.gone \in 0..wallet /\ swap.spent \in 0..wallet /\ swap.spent \in 0..pend
        /\ swap.returned \in BOOLEAN
        /\ kind # "unmined" /\ swap.returned => swap.spent = swap.gone
    BY <1>2, SwappedWithin DEF AgentTypes
  <1>4. Added(mem.pots, Split(slice)) \in [Pots -> Nat]
    BY <1>1, AddedType DEF AgentTypes, BooksType
  <1>5. /\ due' = [x \in DOMAIN due \ {p} |-> due[x]]
        /\ IF Host(slice) = 0 THEN mem' = mem /\ wallet' = wallet
           ELSE /\ wallet' = wallet - swap.gone
                /\ mem' = IF swap.returned
                          THEN [mem EXCEPT !.owed[p] = pend - swap.spent,
                                           !.swapped = @ + swap.spent,
                                           !.pots = Added(@, Split(slice))]
                          ELSE mem
        /\ UNCHANGED <<disk, stage, todo, round, lp, arrived>>
    BY DEF Pay
  <1>. HIDE DEF slice, pend, swap
  <1>6. mem' \in BooksType
    <2>1. CASE mem' = mem
      BY <2>1 DEF AgentTypes
    <2>2. CASE mem' # mem
      <3>. DEFINE owed == [mem.owed EXCEPT ![p] = pend - swap.spent]
                  pots == Added(mem.pots, Split(slice))
      <3>1. mem' = [mem EXCEPT !.owed = owed, !.swapped = mem.swapped + swap.spent,
                               !.pots = pots]
        BY <1>5, <2>2
      <3>2. pend - swap.spent \in Nat /\ mem.swapped + swap.spent \in Nat
        BY <1>2, <1>3 DEF AgentTypes, BooksType
      <3>3. owed \in [Providers -> Nat]
        BY <3>2 DEF AgentTypes, BooksType
      <3>4. pots \in [Pots -> Nat]
        BY <1>4
      <3>. HIDE DEF owed, pots
      <3>. QED
        BY <3>1, <3>2, <3>3, <3>4 DEF AgentTypes, BooksType
    <2>. QED
      BY <2>1, <2>2
  <1>7. wallet' \in Nat
    BY <1>3, <1>5 DEF AgentTypes
  <1>8. AgentTypes'
    BY <1>5, <1>6, <1>7 DEF AgentTypes
  <1>9. /\ mem'.credited = mem.credited /\ mem'.seen = mem.seen
        /\ \/ mem'.swapped = mem.swapped /\ wallet' = wallet
           \/ ~swap.returned /\ mem'.swapped = mem.swapped /\ wallet' = wallet - swap.gone
           \/ /\ swap.returned /\ mem'.swapped = mem.swapped + swap.spent
              /\ wallet' = wallet - swap.gone
    BY <1>3, <1>5 DEF AgentTypes, BooksType
  <1>10. ASSUME kind # "unmined", Backed PROVE Backed'
    BY <1>3, <1>5, <1>9, <1>10 DEF Backed, AgentTypes, BooksType
  <1>. QED
    BY <1>8, <1>10

LEMMA SweepKeeps ==
    ASSUME AgentTypes, NEW kind \in SwapFaults, Sweep(kind)
    PROVE  AgentTypes' /\ (kind # "unmined" /\ Backed => Backed')
  <1>. DEFINE swap == Swapped(wallet - Reserved, wallet, kind)
  <1>1. wallet - Reserved \in Int
    BY ReservedType DEF AgentTypes
  <1>2. /\ swap.gone \in 0..wallet /\ swap.spent \in 0..wallet
        /\ swap.returned \in BOOLEAN
        /\ kind # "unmined" /\ swap.returned => swap.spent = swap.gone
    BY <1>1, SwappedWithin DEF AgentTypes
  <1>3. /\ \/ mem' = mem /\ wallet' = wallet
           \/ /\ wallet' = wallet - swap.gone
              /\ mem' = IF swap.returned THEN [mem EXCEPT !.swapped = @ + swap.spent] ELSE mem
        /\ stage' = "fee" /\ UNCHANGED <<disk, due, todo, round, lp, arrived>>
    BY DEF Sweep
  <1>. HIDE DEF swap
  <1>4. mem' \in BooksType /\ wallet' \in Nat
    BY <1>2, <1>3 DEF AgentTypes, BooksType
  <1>5. AgentTypes'
    BY <1>3, <1>4 DEF AgentTypes
  <1>6. /\ mem'.credited = mem.credited /\ mem'.seen = mem.seen
        /\ \/ mem'.swapped = mem.swapped /\ wallet' = wallet
           \/ ~swap.returned /\ mem'.swapped = mem.swapped /\ wallet' = wallet - swap.gone
           \/ /\ swap.returned /\ mem'.swapped = mem.swapped + swap.spent
              /\ wallet' = wallet - swap.gone
    BY <1>2, <1>3 DEF AgentTypes, BooksType
  <1>7. ASSUME kind # "unmined", Backed PROVE Backed'
    BY <1>2, <1>3, <1>6, <1>7 DEF Backed, AgentTypes, BooksType
  <1>. QED
    BY <1>5, <1>7

LEMMA FeeTickKeeps ==
    ASSUME AgentTypes, NEW kind \in SwapFaults, FeeTick(kind)
    PROVE  AgentTypes' /\ (Backed => Backed')
  <1>. DEFINE swap == Swapped(wallet + lp, wallet + lp, kind)
              third == (lp + swap.gone) \div 3
              more == [q \in Pots |-> third]
  <1>1. swap.gone \in 0..(wallet + lp) /\ swap.returned \in BOOLEAN
    BY SwappedWithin DEF AgentTypes
  <1>2. Added(mem.pots, more) \in [Pots -> Nat]
    <2>1. third \in Nat
      BY <1>1 DEF AgentTypes
    <2>2. more \in [Pots -> Nat]
      BY <2>1
    <2>. QED
      BY <2>2, AddedType DEF AgentTypes, BooksType
  <1>3. /\ \/ mem' = mem /\ wallet' = wallet /\ lp' = lp /\ arrived' = arrived
           \/ /\ wallet' = wallet + lp - swap.gone /\ lp' = 0 /\ arrived' = arrived + lp
              /\ mem' = IF swap.returned THEN [mem EXCEPT !.pots = Added(@, more)] ELSE mem
        /\ stage' = "flush" /\ todo' = IF mem.epoch = 0 THEN Pots ELSE {}
        /\ UNCHANGED <<disk, due, round>>
    BY DEF FeeTick, Redeemed
  <1>. HIDE DEF swap, more
  <1>4. mem' \in BooksType
    BY <1>1, <1>2, <1>3 DEF AgentTypes, BooksType
  <1>5. AgentTypes'
    BY <1>1, <1>3, <1>4 DEF AgentTypes
  <1>6. /\ mem'.credited = mem.credited /\ mem'.seen = mem.seen
        /\ mem'.swapped = mem.swapped
    BY <1>1, <1>3 DEF AgentTypes, BooksType
  <1>7. ASSUME Backed PROVE Backed'
    BY <1>1, <1>3, <1>6, <1>7 DEF Backed, AgentTypes, BooksType
  <1>. QED
    BY <1>5, <1>7

LEMMA FlushKeeps ==
    ASSUME AgentTypes, NEW q \in Pots, NEW kind, Flush(q, kind)
    PROVE  AgentTypes' /\ (Backed => Backed')
  <1>1. /\ mem' \in {mem, [mem EXCEPT !.pots[q] = 0, !.totals[q] = @ + mem.pots[q]]}
        /\ todo' = todo \ {q}
        /\ UNCHANGED <<disk, stage, due, round, wallet, lp, arrived>>
    BY DEF Flush
  <1>2. /\ mem' \in BooksType /\ mem'.credited = mem.credited /\ mem'.seen = mem.seen
        /\ mem'.swapped = mem.swapped
    <2>. DEFINE pots == [mem.pots EXCEPT ![q] = 0]
                sums == [mem.totals EXCEPT ![q] = mem.totals[q] + mem.pots[q]]
    <2>1. mem' \in {mem, [mem EXCEPT !.pots = pots, !.totals = sums]}
      BY <1>1
    <2>2. pots \in [Pots -> Nat] /\ sums \in [Pots -> Nat]
      BY DEF AgentTypes, BooksType
    <2>. HIDE DEF pots, sums
    <2>. QED
      BY <2>1, <2>2 DEF AgentTypes, BooksType
  <1>3. AgentTypes'
    BY <1>1, <1>2 DEF AgentTypes
  <1>4. ASSUME Backed PROVE Backed'
    BY <1>1, <1>2, <1>4 DEF Backed
  <1>. QED
    BY <1>3, <1>4

LEMMA SaveKeeps ==
    ASSUME AgentTypes, NEW kind, SaveState(kind)
    PROVE  AgentTypes' /\ (Backed => Backed')
  <1>1. /\ mem' = mem /\ disk' \in {mem, disk} /\ stage' = "credit"
        /\ UNCHANGED <<due, todo, round, wallet, lp, arrived>>
    BY DEF SaveState, coins
  <1>. QED
    BY <1>1 DEF AgentTypes, Backed, BooksType

LEMMA ChainsKeep ==
    ASSUME AgentTypes, Deliver \/ AccrueFee
    PROVE  AgentTypes' /\ (Backed => Backed')
  <1>1. CASE Deliver
    <2>1. PICK amount \in Nat : wallet' = wallet + amount /\ arrived' = arrived + amount
      BY <1>1, AgentAssumption DEF Deliver
    <2>. QED
      BY <1>1, <2>1 DEF Deliver, AgentTypes, Backed, BooksType
  <1>2. CASE AccrueFee
    <2>1. PICK amount \in Nat : lp' = lp + amount
      BY <1>2, AgentAssumption DEF AccrueFee
    <2>. QED
      BY <1>2, <2>1 DEF AccrueFee, AgentTypes, Backed
  <1>. QED
    BY <1>1, <1>2

LEMMA RestartKeeps ==
    ASSUME AgentTypes, NEW kind, Restart(kind)
    PROVE  AgentTypes' /\ (Backed => Backed')
  <1>1. 0 \in 0..(FlushEvery - 1)
    BY AgentAssumption
  <1>2. NoState \in BooksType
    BY <1>1 DEF NoState, BooksType
  <1>3. mem' = disk' /\ disk' \in {NoState, disk}
    BY DEF Restart
  <1>4. AgentTypes'
    BY <1>2, <1>3 DEF Restart, AgentTypes, coins, NothingDue
  <1>5. ASSUME Backed PROVE Backed'
    <2>1. /\ NoState.credited = 0 /\ NoState.seen = 0 /\ NoState.swapped = 0
      BY DEF NoState
    <2>. QED
      BY <1>3, <1>5, <2>1 DEF Restart, Backed, AgentTypes, BooksType, coins
  <1>. QED
    BY <1>4, <1>5

LEMMA AgentSteps ==
    ASSUME AgentTypes, [AgentNext]_agentVars
    PROVE  AgentTypes' /\ ("unmined" \notin Faults /\ Backed => Backed')
  <1>1. CASE \E active \in SUBSET Providers : Credit(active)
    BY <1>1, CreditKeeps
  <1>2. CASE NoCredit
    BY <1>2, NoCreditKeeps
  <1>3. CASE \E p \in Providers, kind \in SwapFaults : Pay(p, kind)
    <2>1. PICK p \in Providers, kind \in SwapFaults : Pay(p, kind)
      BY <1>3
    <2>2. AgentTypes' /\ (kind # "unmined" /\ Backed => Backed')
      BY <2>1, PayKeeps
    <2>3. CASE kind # "unmined"
      BY <2>2, <2>3
    <2>4. CASE kind = "unmined" /\ "unmined" \notin Faults
      <3>1. ~Happens(kind)
        BY <2>4 DEF Happens
      <3>. QED
        BY <2>1, <3>1 DEF Pay
    <2>. QED
      BY <2>2, <2>3, <2>4
  <1>4. CASE \E kind \in SwapFaults : Sweep(kind)
    <2>1. PICK kind \in SwapFaults : Sweep(kind)
      BY <1>4
    <2>2. AgentTypes' /\ (kind # "unmined" /\ Backed => Backed')
      BY <2>1, SweepKeeps
    <2>3. CASE kind # "unmined"
      BY <2>2, <2>3
    <2>4. CASE kind = "unmined" /\ "unmined" \notin Faults
      <3>1. ~Happens(kind) /\ kind # "none"
        BY <2>4 DEF Happens
      <3>. QED
        BY <2>1, <3>1 DEF Sweep
    <2>. QED
      BY <2>2, <2>3, <2>4
  <1>5. CASE \E kind \in SwapFaults : FeeTick(kind)
    BY <1>5, FeeTickKeeps
  <1>6. CASE \E q \in Pots, kind \in {"none", "thrown", "landed", "failed"} : Flush(q, kind)
    BY <1>6, FlushKeeps
  <1>7. CASE \E kind \in {"none", "unread"} : SaveState(kind)
    BY <1>7, SaveKeeps
  <1>8. CASE \E kind \in {"crash", "torn"} : Restart(kind)
    BY <1>8, RestartKeeps
  <1>9. CASE UNCHANGED agentVars
    BY <1>9 DEF agentVars, coins, AgentTypes, Backed
  <1>10. CASE Deliver \/ AccrueFee
    BY <1>10, ChainsKeep
  <1>. QED
    BY <1>1, <1>2, <1>3, <1>4, <1>5, <1>6, <1>7, <1>8, <1>9, <1>10 DEF AgentNext, Step

LEMMA AgentTyped == AgentSpec => []AgentTypes
  BY AgentStarts, AgentSteps, PTL DEF AgentSpec

LEMMA AgentBacked == "unmined" \notin Faults => (AgentSpec => [](AgentTypes /\ Backed))
  <1>. SUFFICES ASSUME "unmined" \notin Faults PROVE AgentSpec => [](AgentTypes /\ Backed)
    OBVIOUS
  <1>1. AgentTypes /\ Backed /\ [AgentNext]_agentVars => (AgentTypes /\ Backed)'
    BY AgentSteps
  <1>. QED
    BY <1>1, AgentStarts, PTL DEF AgentSpec

\* What is in memory and in state.json keeps its type, whatever happens.
THEOREM AgentTypeCorrect == AgentSpec => []AgentTypeOK
  <1>1. AgentTypes => AgentTypeOK
    BY DEF AgentTypes, AgentTypeOK, BooksType
  <1>. QED
    BY <1>1, AgentTyped, PTL

\* agent.py:135: "only genuinely new USDC is ever distributed", unless a swap
\* is counted that was not carried out.
THEOREM NewIsNew == "unmined" \notin Faults => (AgentSpec => []OnlyNew)
  <1>1. AgentTypes /\ Backed => OnlyNew
    BY DEF AgentTypes, BooksType, Backed, OnlyNew, New, Cumulative
  <1>. QED
    BY <1>1, AgentBacked, PTL

\* What was credited, and what the step finds in all, arrived, under the same
\* condition.
THEOREM CreditsArrived == "unmined" \notin Faults => (AgentSpec => []CreditedArrived)
  <1>1. AgentTypes /\ Backed => CreditedArrived
    BY DEF AgentTypes, BooksType, Backed, CreditedArrived, Cumulative
  <1>. QED
    BY <1>1, AgentBacked, PTL

-----------------------------------------------------------------------------
(***************************************************************************)
(* The watch of the treasury: every transfer of a confirmed block is       *)
(* booked once, for any amounts, chunks and numbers of confirmations, and  *)
(* any reorganisations, failures and restarts.                             *)
(*                                                                         *)
(* BookedOnce is kept by a restart only if it holds of state.json as well, *)
(* and by a reorganisation only because neither has a block that may be    *)
(* replaced.  A window's sum is a difference of sums from the chain's      *)
(* first block (WindowSum), so windows that follow each other add up.      *)
(***************************************************************************)

Window(s, first, last) == FoldSeq(LAMBDA x, y : x + y, 0, SubSeq(s, first, last))

SumTo(s, n) == Total(s, 1..n)

LEMMA WindowTotal ==
    ASSUME NEW s, NEW first, NEW last
    PROVE  Window(s, first, last) =
               Total(SubSeq(s, first, last), DOMAIN SubSeq(s, first, last))
  BY DEF Window, FoldSeq, FoldFunction, FoldFunctionOnSet, MapThenFoldSet, Total, Sums, Chosen

LEMMA SumToType ==
    ASSUME NEW s \in Seq(Nat), NEW n \in 0..Len(s)
    PROVE  SumTo(s, n) \in Nat
  <1>1. Len(s) \in Nat /\ n \in Nat /\ n <= Len(s)
    OBVIOUS
  <1>2. IsFiniteSet(1..n)
    BY <1>1, FS_Interval
  <1>3. \A i \in 1..n : s[i] \in Nat
    BY <1>1
  <1>. QED
    BY <1>2, <1>3, TotalNat DEF SumTo

LEMMA WindowSum ==
    ASSUME NEW s \in Seq(Nat), NEW a \in Nat, NEW b \in Nat, a <= b, b <= Len(s)
    PROVE  Window(s, a + 1, b) = SumTo(s, b) - SumTo(s, a) /\ Window(s, a + 1, b) \in Nat
  <1>. DEFINE w == SubSeq(s, a + 1, b)
              n == b - a
  <1>1. /\ n \in Nat /\ Len(s) \in Nat /\ w \in Seq(Nat) /\ Len(w) = n
        /\ \A i \in 1..n : w[i] = s[a + i] /\ w[i] \in Nat
    <2>1. \A i \in (a + 1)..b : s[i] \in Nat
      OBVIOUS
    <2>6. a + 1 \in Int /\ b \in Int
      OBVIOUS
    <2>2. /\ w \in Seq(Nat) /\ Len(w) = (IF a + 1 <= b THEN b - (a + 1) + 1 ELSE 0)
          /\ \A i \in 1..(b - (a + 1) + 1) : w[i] = s[(a + 1) + i - 1]
      <3>. DEFINE m == a + 1
      <3>. HIDE DEF m
      <3>1. \A i \in m..b : s[i] \in Nat
        BY <2>1 DEF m
      <3>2. m \in Int
        BY DEF m
      <3>3. /\ SubSeq(s, m, b) \in Seq(Nat)
            /\ Len(SubSeq(s, m, b)) = IF m <= b THEN b - m + 1 ELSE 0
            /\ \A i \in 1..(b - m + 1) : SubSeq(s, m, b)[i] = s[m + i - 1]
        BY <2>6, <3>1, <3>2, SubSeqProperties
      <3>. QED
        BY <3>3 DEF m
    <2>3. \A i \in 1..n : (a + 1) + i - 1 = a + i /\ a + i \in (a + 1)..b
      OBVIOUS
    <2>4. b - (a + 1) + 1 = n /\ n \in Nat
      OBVIOUS
    <2>5. Len(w) = n
      BY <2>2, <2>4
    <2>. QED
      BY <2>1, <2>2, <2>3, <2>4, <2>5
  <1>. HIDE DEF w
  <1>2. /\ Total(w, 1..0) = 0
        /\ \A i \in 1..n : Total(w, 1..i) = Total(w, 1..(i - 1)) + w[i]
        /\ \A i \in 0..n : Total(w, 1..i) \in Int
    <2>1. \A i \in 1..n : w[i] \in Int
      BY <1>1
    <2>. HIDE DEF n
    <2>. QED
      BY <1>1, <2>1, TotalFirst
  <1>3. /\ \A i \in 1..Len(s) : Total(s, 1..i) = Total(s, 1..(i - 1)) + s[i]
        /\ \A i \in 0..Len(s) : Total(s, 1..i) \in Int
    <2>1. \A i \in 1..Len(s) : s[i] \in Int
      OBVIOUS
    <2>. QED
      BY <1>1, <2>1, TotalFirst
  <1>. DEFINE Good == {i \in 0..n : Total(w, 1..i) = SumTo(s, a + i) - SumTo(s, a)}
  <1>4. 0 \in Good
    <2>1. SumTo(s, a) \in Int /\ a + 0 = a
      BY <1>1, SumToType
    <2>. QED
      BY <1>1, <1>2, <2>1
  <1>5. ASSUME NEW i \in 1..n, i - 1 \in Good
        PROVE  i \in Good
    <2>1. Total(w, 1..(i - 1)) = SumTo(s, a + (i - 1)) - SumTo(s, a)
      BY <1>5
    <2>2. a + i \in 1..Len(s) /\ a + i - 1 = a + (i - 1) /\ a + i - 1 \in 0..Len(s)
          /\ a \in 0..Len(s)
      BY <1>1
    <2>3. SumTo(s, a + i) = SumTo(s, a + (i - 1)) + s[a + i]
      BY <1>3, <2>2 DEF SumTo
    <2>4. SumTo(s, a + (i - 1)) \in Int /\ SumTo(s, a) \in Int /\ s[a + i] \in Int
      BY <2>2, SumToType
    <2>5. Total(w, 1..i) = Total(w, 1..(i - 1)) + s[a + i]
      BY <1>1, <1>2
    <2>6. i \in 0..n
      OBVIOUS
    <2>. QED
      BY <2>1, <2>3, <2>4, <2>5, <2>6
  <1>6. \A i \in 0..n : i \in Good
    <2>. HIDE DEF Good
    <2>. QED
      BY <1>1, <1>4, <1>5, UpTo
  <1>7. n \in 0..n /\ a + n = b
    BY <1>1
  <1>8. Total(w, 1..n) = SumTo(s, b) - SumTo(s, a)
    BY <1>6, <1>7
  <1>9. DOMAIN w = 1..n
    BY <1>1
  <1>10. Total(w, 1..n) \in Nat
    <2>1. IsFiniteSet(1..n)
      BY <1>1, FS_Interval
    <2>2. \A i \in 1..n : w[i] \in Nat
      BY <1>1
    <2>. QED
      BY <2>1, <2>2, TotalNat
  <1>. QED
    BY <1>8, <1>9, <1>10, WindowTotal DEF w

\* The sum of the first blocks, when others are replaced or mined.
LEMMA SumToSame ==
    ASSUME NEW s, NEW t, NEW n \in Nat, \A i \in 1..n : s[i] = t[i]
    PROVE  SumTo(s, n) = SumTo(t, n)
  <1>1. IsFiniteSet(1..n)
    BY FS_Interval
  <1>. QED
    BY <1>1, TotalAgree DEF SumTo

LEMMA WindowsOfChain ==
    /\ \A a, b : TransfersIn(a, b) = Window(chain, a, b)
    /\ \A a, b : TransfersIn(a, b)' = Window(chain', a, b)
  BY DEF TransfersIn, Window, FoldSeq, FoldFunction, FoldFunctionOnSet, MapThenFoldSet

WatchBooks == [last : Nat, pending : Nat, distributed : Nat]

WatchTypes ==
    /\ chain \in Seq(Nat) /\ chain \in Seq(Amounts) /\ Len(chain) > Confirmations
    /\ books \in WatchBooks /\ saved \in WatchBooks
    /\ at \in {"height", "logs", "pay", "reduce", "save"}
    /\ safe \in Nat /\ value \in Nat /\ origin \in Nat
    /\ paid \in Nat /\ unpaid \in Nat

\* Books are of blocks that stay, and have what these transfer.
Booked(w) ==
    /\ w.last <= Confirmed
    /\ w.last = 0 => w.pending + w.distributed = 0
    /\ w.last # 0 =>
          /\ 1 <= origin /\ origin <= w.last
          /\ w.pending + w.distributed = SumTo(chain, w.last) - SumTo(chain, origin)

WatchInv ==
    /\ WatchTypes
    /\ Booked(books) /\ Booked(saved)
    /\ books.last = 0 => origin = 0 /\ saved.last = 0
    /\ at = "logs" => books.last # 0 /\ books.last < safe /\ safe <= Confirmed
    /\ at \in {"pay", "reduce"} => value <= books.pending

LEMMA WatchStarts == WatchInit => WatchInv
  <1>. SUFFICES ASSUME WatchInit PROVE WatchInv
    OBVIOUS
  <1>1. chain \in Seq(Amounts) /\ chain \in Seq(Nat) /\ Len(chain) = Confirmations + 1
    <2>1. /\ Confirmations + 1 \in Nat /\ Amounts \subseteq Nat
          /\ chain \in [1..(Confirmations + 1) -> Amounts]
      BY TreasuryAssumption DEF WatchInit
    <2>2. chain \in Seq(Amounts) /\ Len(chain) = Confirmations + 1
      BY <2>1
    <2>. QED
      BY <2>1, <2>2, SeqMonotonic
  <1>2. Fresh \in WatchBooks /\ Fresh.last = 0 /\ Fresh.pending = 0 /\ Fresh.distributed = 0
    BY DEF Fresh, WatchBooks
  <1>. QED
    BY <1>1, <1>2, TreasuryAssumption DEF WatchInit, WatchInv, WatchTypes, Booked, Confirmed

\* What changes nothing but blocks that the books do not have.
LEMMA ChainKeeps ==
    ASSUME WatchInv, Mine \/ Reorganise
    PROVE  WatchInv'
  <1>1. /\ chain' \in Seq(Nat) /\ chain' \in Seq(Amounts) /\ Len(chain) <= Len(chain')
        /\ \A i \in 1..Confirmed : chain'[i] = chain[i]
        /\ UNCHANGED <<books, saved, at, safe, value, origin, payments>>
    <2>1. CASE Mine
      <3>1. PICK amount \in Amounts : chain' = Append(chain, amount)
        BY <2>1 DEF Mine
      <3>2. amount \in Nat
        BY TreasuryAssumption
      <3>. QED
        BY <2>1, <3>1, <3>2, TreasuryAssumption DEF Mine, WatchInv, WatchTypes, Confirmed
    <2>2. CASE Reorganise
      <3>1. PICK b \in (Len(chain) - Confirmations + 1)..Len(chain), amount \in Amounts :
               chain' = [chain EXCEPT ![b] = amount]
        BY <2>2 DEF Reorganise
      <3>2. amount \in Nat /\ b \in 1..Len(chain) /\ b > Confirmed
        BY TreasuryAssumption DEF WatchInv, WatchTypes, Confirmed
      <3>3. chain' \in Seq(Nat) /\ chain' \in Seq(Amounts) /\ Len(chain') = Len(chain)
            /\ \A i \in 1..Len(chain) : chain'[i] = IF i = b THEN amount ELSE chain[i]
        BY <3>1, <3>2, ExceptSeq DEF WatchInv, WatchTypes
      <3>. QED
        BY <2>2, <3>2, <3>3, TreasuryAssumption DEF Reorganise, WatchInv, WatchTypes, Confirmed
    <2>. QED
      BY <2>1, <2>2
  <1>2. Confirmed \in Nat /\ Confirmed' \in Nat /\ Confirmed <= Confirmed'
        /\ Len(chain') > Confirmations
    BY <1>1, TreasuryAssumption DEF WatchInv, WatchTypes, Confirmed
  <1>3. \A n \in Nat : n <= Confirmed => SumTo(chain', n) = SumTo(chain, n)
    BY <1>1, <1>2, SumToSame
  <1>4. ASSUME NEW w \in WatchBooks, Booked(w) PROVE Booked(w)'
    BY <1>1, <1>2, <1>3, <1>4 DEF Booked, WatchInv, WatchTypes, WatchBooks
  <1>5. Booked(books)' /\ Booked(saved)'
    <2>1. Booked(books) /\ Booked(saved) /\ books \in WatchBooks /\ saved \in WatchBooks
      BY DEF WatchInv, WatchTypes
    <2>2. \A w \in WatchBooks : Booked(w) =>
             /\ w.last <= Confirmed'
             /\ w.last = 0 => w.pending + w.distributed = 0
             /\ w.last # 0 =>
                   /\ 1 <= origin' /\ origin' <= w.last
                   /\ w.pending + w.distributed = SumTo(chain', w.last) - SumTo(chain', origin')
      BY <1>1, <1>2, <1>3 DEF Booked, WatchInv, WatchTypes, WatchBooks
    <2>. QED
      BY <1>1, <2>1, <2>2 DEF Booked
  <1>6. at' = "logs" => books'.last # 0 /\ books'.last < safe' /\ safe' <= Confirmed'
    BY <1>1, <1>2 DEF WatchInv, WatchTypes
  <1>. QED
    BY <1>1, <1>2, <1>5, <1>6 DEF WatchInv, WatchTypes, payments

LEMMA ReadHeightKeeps ==
    ASSUME WatchInv, ReadHeight
    PROVE  WatchInv'
  <1>1. Confirmed \in Nat /\ Confirmed > 0 /\ Confirmed <= Len(chain) /\ Len(chain) \in Nat
    BY TreasuryAssumption DEF WatchInv, WatchTypes, Confirmed
  <1>2. UNCHANGED <<chain, saved, paid, unpaid>> /\ Confirmed' = Confirmed
    BY DEF ReadHeight, Confirmed, payments
  <1>3. CASE books.last = 0
    <2>1. /\ origin = 0 /\ origin' = Confirmed /\ saved.last = 0
          /\ books' = [books EXCEPT !.last = Confirmed]
          /\ at' = "pay" /\ value' = books.pending /\ safe' = safe
      BY <1>3 DEF ReadHeight, WatchInv
    <2>2. /\ books' \in WatchBooks /\ books'.last = Confirmed
          /\ books'.pending = books.pending /\ books'.distributed = books.distributed
      BY <1>1, <2>1 DEF WatchInv, WatchTypes, WatchBooks
    <2>3. books.pending + books.distributed = 0 /\ saved.pending + saved.distributed = 0
      BY <1>3, <2>1 DEF WatchInv, Booked
    <2>4. SumTo(chain, Confirmed) \in Nat
      BY <1>1, SumToType DEF WatchInv, WatchTypes
    <2>5. WatchTypes'
      BY <1>1, <1>2, <2>1, <2>2 DEF WatchInv, WatchTypes, WatchBooks
    <2>6. Booked(books)'
      BY <1>1, <1>2, <2>1, <2>2, <2>3, <2>4 DEF Booked
    <2>7. Booked(saved)'
      BY <1>1, <1>2, <2>1, <2>3 DEF Booked
    <2>8. value' <= books'.pending
      BY <2>1, <2>2 DEF WatchBooks
    <2>. QED
      BY <1>1, <2>1, <2>2, <2>5, <2>6, <2>7, <2>8 DEF WatchInv
  <1>4. CASE books.last # 0
    <2>1. /\ safe' = Confirmed /\ at' = (IF books.last < Confirmed THEN "logs" ELSE "pay")
          /\ value' = books.pending /\ UNCHANGED <<books, origin>>
      BY <1>4 DEF ReadHeight
    <2>2. books.pending \in Nat
      BY DEF WatchInv, WatchTypes, WatchBooks
    <2>. QED
      BY <1>1, <1>2, <1>4, <2>1, <2>2 DEF WatchInv, WatchTypes, Booked
  <1>. QED
    BY <1>3, <1>4

LEMMA ReadLogsKeeps ==
    ASSUME WatchInv, ReadLogs
    PROVE  WatchInv'
  <1>1. Confirmed \in Nat /\ Confirmed <= Len(chain) /\ Len(chain) \in Nat
    BY TreasuryAssumption DEF WatchInv, WatchTypes, Confirmed
  <1>2. /\ books.last # 0 /\ books.last < safe /\ safe <= Confirmed
        /\ books \in WatchBooks /\ chain \in Seq(Nat) /\ safe \in Nat /\ origin \in Nat
        /\ 1 <= origin /\ origin <= books.last
        /\ books.pending + books.distributed = SumTo(chain, books.last) - SumTo(chain, origin)
    BY DEF ReadLogs, WatchInv, WatchTypes, Booked
  <1>. DEFINE end == WindowEnd
              more == TransfersIn(books.last + 1, end)
  <1>3. books.last \in Nat /\ books.pending \in Nat /\ books.distributed \in Nat
    BY <1>2 DEF WatchBooks
  <1>4. end \in Nat /\ books.last < end /\ end <= safe
    BY <1>2, <1>3, TreasuryAssumption DEF WindowEnd
  <1>5. /\ books' = [books EXCEPT !.pending = books.pending + more, !.last = end]
        /\ value' = books'.pending /\ at' = "pay"
        /\ UNCHANGED <<chain, saved, safe, origin, paid, unpaid>>
    BY DEF ReadLogs, payments
  <1>. HIDE DEF end
  <1>6. more = SumTo(chain, end) - SumTo(chain, books.last) /\ more \in Nat
    <2>1. books.last <= end /\ end <= Len(chain)
      BY <1>1, <1>2, <1>3, <1>4
    <2>2. more = Window(chain, books.last + 1, end)
      BY WindowsOfChain
    <2>. QED
      BY <1>2, <1>3, <1>4, <2>1, <2>2, WindowSum
  <1>. HIDE DEF more
  <1>7. /\ SumTo(chain, end) \in Nat /\ SumTo(chain, books.last) \in Nat
        /\ SumTo(chain, origin) \in Nat
    <2>1. end \in 0..Len(chain) /\ books.last \in 0..Len(chain) /\ origin \in 0..Len(chain)
      BY <1>1, <1>2, <1>3, <1>4
    <2>. QED
      BY <1>2, <2>1, SumToType
  <1>8. /\ books' \in WatchBooks /\ books'.last = end /\ books'.pending = books.pending + more
        /\ books'.distributed = books.distributed
    <2>1. books.pending + more \in Nat
      BY <1>3, <1>6
    <2>. QED
      BY <1>2, <1>3, <1>4, <1>5, <2>1 DEF WatchBooks
  <1>9. Confirmed' = Confirmed
    BY <1>5 DEF Confirmed
  <1>10. Booked(books)'
    <2>1. end # 0 /\ end <= Confirmed /\ origin <= end
      BY <1>1, <1>2, <1>3, <1>4
    <2>2. (books.pending + more) + books.distributed = SumTo(chain, end) - SumTo(chain, origin)
      BY <1>2, <1>3, <1>6, <1>7
    <2>. QED
      BY <1>2, <1>5, <1>8, <1>9, <2>1, <2>2 DEF Booked
  <1>11. Booked(saved)'
    BY <1>5, <1>9 DEF Booked, WatchInv
  <1>12. value' \in Nat /\ value' <= books'.pending
    BY <1>3, <1>5, <1>6, <1>8
  <1>13. WatchTypes'
    BY <1>5, <1>8, <1>12 DEF WatchInv, WatchTypes
  <1>. QED
    BY <1>2, <1>3, <1>4, <1>5, <1>8, <1>10, <1>11, <1>12, <1>13 DEF WatchInv

LEMMA OtherStepsKeep ==
    ASSUME WatchInv, ReadFails \/ Attribute \/ Hold \/ Reduce \/ SaveBooks
    PROVE  WatchInv'
  <1>1. UNCHANGED <<chain, safe, origin>> /\ Confirmed' = Confirmed
    BY DEF ReadFails, Attribute, Hold, Reduce, SaveBooks, Confirmed
  <1>2. /\ books.last \in Nat /\ books.pending \in Nat /\ books.distributed \in Nat
        /\ value \in Nat /\ books \in WatchBooks
    BY DEF WatchInv, WatchTypes, WatchBooks
  <1>6. paid' \in Nat /\ unpaid' \in Nat
    <2>1. paid \in Nat /\ unpaid \in Nat
      BY DEF WatchInv, WatchTypes
    <2>2. CASE Attribute
      BY <1>2, <2>1, <2>2 DEF Attribute
    <2>3. CASE ~Attribute
      BY <2>1, <2>3 DEF ReadFails, Hold, Reduce, SaveBooks, payments
    <2>. QED
      BY <2>2, <2>3
  <1>3. CASE ReadFails \/ Attribute \/ Hold
    <2>1. /\ UNCHANGED <<books, saved>> /\ at' \in {"pay", "reduce", "save"}
          /\ value' \in {value, books.pending}
          /\ at' \in {"pay", "reduce"} => value' <= books.pending
      BY <1>2, <1>3 DEF ReadFails, Attribute, Hold, WatchInv
    <2>. QED
      BY <1>1, <1>2, <1>6, <2>1 DEF WatchInv, WatchTypes, Booked
  <1>4. CASE Reduce
    <2>1. /\ books' = [books EXCEPT !.pending = books.pending - value,
                                    !.distributed = books.distributed + value]
          /\ at' = "save" /\ saved' = saved /\ value' = value /\ value <= books.pending
      BY <1>4 DEF Reduce, Reduced, WatchInv
    <2>2. /\ books' \in WatchBooks /\ books'.last = books.last
          /\ books'.pending + books'.distributed = books.pending + books.distributed
      <3>1. books.pending - value \in Nat /\ books.distributed + value \in Nat
            /\ (books.pending - value) + (books.distributed + value) =
                   books.pending + books.distributed
        BY <1>2, <2>1
      <3>2. /\ books'.last = books.last /\ books'.pending = books.pending - value
            /\ books'.distributed = books.distributed + value
        BY <1>2, <2>1 DEF WatchBooks
      <3>3. books' \in WatchBooks
        BY <1>2, <2>1, <3>1 DEF WatchBooks
      <3>. QED
        BY <3>1, <3>2, <3>3
    <2>. QED
      BY <1>1, <1>6, <2>1, <2>2 DEF WatchInv, WatchTypes, Booked
  <1>5. CASE SaveBooks
    BY <1>1, <1>5, <1>6 DEF SaveBooks, WatchInv, WatchTypes, Booked
  <1>. QED
    BY <1>3, <1>4, <1>5

LEMMA RestartWatchKeeps ==
    ASSUME WatchInv, RestartWatch
    PROVE  WatchInv'
  <1>1. /\ UNCHANGED <<chain, safe, paid, unpaid>>
        /\ Confirmed' = Confirmed /\ at' = "height" /\ value' = 0
        /\ books' = saved' /\ saved' \in {saved, Fresh}
        /\ origin' = IF saved'.last = 0 THEN 0 ELSE origin
    BY DEF RestartWatch, Confirmed, payments
  <1>2. /\ Fresh \in WatchBooks /\ Fresh.last = 0 /\ Fresh.pending + Fresh.distributed = 0
        /\ 0 <= Confirmed
    BY TreasuryAssumption DEF Fresh, WatchBooks, WatchInv, WatchTypes, Confirmed
  <1>3. saved' \in WatchBooks
    BY <1>1, <1>2 DEF WatchInv, WatchTypes
  <1>4. Booked(saved)'
    <2>1. CASE saved' = Fresh
      BY <1>1, <1>2, <2>1 DEF Booked
    <2>2. CASE saved' = saved
      BY <1>1, <2>2 DEF WatchInv, Booked
    <2>. QED
      BY <1>1, <2>1, <2>2
  <1>. QED
    BY <1>1, <1>3, <1>4 DEF WatchInv, WatchTypes, Booked

LEMMA WatchInvariant == WatchSpec => []WatchInv
  <1>1. WatchInv /\ [WatchNext]_watchVars => WatchInv'
    <2>. SUFFICES ASSUME WatchInv, [WatchNext]_watchVars PROVE WatchInv'
      OBVIOUS
    <2>1. CASE UNCHANGED watchVars
      BY <2>1 DEF watchVars, payments, WatchInv, WatchTypes, Booked, Confirmed
    <2>. QED
      BY <2>1, ChainKeeps, ReadHeightKeeps, ReadLogsKeeps, OtherStepsKeep, RestartWatchKeeps
      DEF WatchNext, WatchStep
  <1>. QED
    BY <1>1, WatchStarts, PTL DEF WatchSpec

\* The books, in memory and in state.json, are of blocks the chain has, and
\* neither the pot nor what was distributed is ever negative.
THEOREM WatchTypeCorrect == WatchSpec => []WatchTypeOK
  <1>1. WatchInv => WatchTypeOK
    BY TreasuryAssumption
    DEF WatchInv, WatchTypes, WatchTypeOK, WatchBooks, Booked, Confirmed
  <1>. QED
    BY <1>1, WatchInvariant, PTL

\* Every transfer of the blocks left behind is in the pot or was distributed,
\* once, through failures, reorganisations and restarts (bsc_scan_inflows).
THEOREM TransfersBookedOnce == WatchSpec => []BookedOnce
  <1>1. WatchInv => BookedOnce
    <2>. SUFFICES ASSUME WatchInv, books.last # 0
                  PROVE  books.pending + books.distributed = TransfersIn(origin + 1, books.last)
      BY DEF BookedOnce, WatchInv, Booked
    <2>1. /\ origin \in Nat /\ books.last \in Nat /\ origin <= books.last
          /\ books.last <= Len(chain) /\ chain \in Seq(Nat)
      BY TreasuryAssumption DEF WatchInv, WatchTypes, WatchBooks, Booked, Confirmed
    <2>2. TransfersIn(origin + 1, books.last) = SumTo(chain, books.last) - SumTo(chain, origin)
      BY <2>1, WindowSum, WindowsOfChain
    <2>. QED
      BY <2>2 DEF WatchInv, Booked
  <1>. QED
    BY <1>1, WatchInvariant, PTL
-----------------------------------------------------------------------------
(* What is counted as distributed was given to pay_provider.                *)

\* A restart sets the count back, never forward, and is counted itself.
GivenInv ==
    /\ WatchInv /\ GivenOnce
    /\ saved.distributed <= paid + unpaid
    /\ crashes \in Nat

LEMMA GivenStep ==
    ASSUME GivenInv, WatchInv', [WatchNext]_watchVars
    PROVE  GivenInv'
  <1>1. /\ books \in WatchBooks /\ saved \in WatchBooks
        /\ value \in Nat /\ paid \in Nat /\ unpaid \in Nat /\ crashes \in Nat
    BY DEF GivenInv, WatchInv, WatchTypes
  <1>2. books.distributed \in Nat /\ saved.distributed \in Nat
    BY <1>1 DEF WatchBooks
  <1>3. Given <= paid + unpaid /\ (crashes = 0 => Given = paid + unpaid) /\ Given \in Nat
    BY <1>1, <1>2 DEF GivenInv, GivenOnce, Given
  <1>4. ASSUME UNCHANGED <<paid, unpaid, saved, crashes>>, Given' = Given
        PROVE  GivenInv'
    BY <1>3, <1>4 DEF GivenInv, GivenOnce
  <1>5. CASE Mine \/ Reorganise \/ UNCHANGED watchVars
    BY <1>4, <1>5 DEF Mine, Reorganise, Given, payments, watchBounds, watchVars
  <1>6. CASE ReadHeight \/ ReadLogs
    <2>1. books'.distributed = books.distributed /\ at # "reduce" /\ at' # "reduce"
      BY <1>1, <1>6 DEF ReadHeight, ReadLogs, WatchBooks
    <2>. QED
      BY <1>4, <1>6, <2>1 DEF ReadHeight, ReadLogs, Given, payments, watchBounds
  <1>7. CASE ReadFails \/ Hold
    BY <1>4, <1>7 DEF ReadFails, Hold, Given, payments, watchBounds
  <1>8. CASE Attribute
    <2>1. PICK failed \in 0..value :
             paid' = paid + (value - failed) /\ unpaid' = unpaid + failed
      BY <1>8 DEF Attribute
    <2>2. /\ at = "pay" /\ at' = "reduce" /\ UNCHANGED <<books, saved, value, crashes>>
      BY <1>8 DEF Attribute
    <2>3. Given' = Given + value
      BY <1>1, <1>2, <2>2 DEF Given
    <2>4. paid' + unpaid' = (paid + unpaid) + value
      BY <1>1, <2>1
    <2>. HIDE DEF Given
    <2>5. Given' <= paid' + unpaid' /\ (crashes' = 0 => Given' = paid' + unpaid')
      BY <1>1, <1>3, <2>2, <2>3, <2>4
    <2>6. saved'.distributed <= paid' + unpaid'
      BY <1>1, <1>2, <2>2, <2>4 DEF GivenInv
    <2>. QED
      BY <1>1, <2>2, <2>5, <2>6 DEF GivenInv, GivenOnce
  <1>9. CASE Reduce
    <2>1. /\ at = "reduce" /\ at' = "save" /\ UNCHANGED <<value, paid, unpaid, saved, crashes>>
          /\ books' = [books EXCEPT !.pending = books.pending - value,
                                    !.distributed = books.distributed + value]
      BY <1>9 DEF Reduce, Reduced, payments, watchBounds
    <2>2. books'.distributed = books.distributed + value
      BY <1>1, <2>1 DEF WatchBooks
    <2>3. Given' = Given
      BY <1>1, <1>2, <2>1, <2>2 DEF Given
    <2>. QED
      BY <1>4, <2>1, <2>3
  <1>10. CASE SaveBooks
    <2>1. /\ at = "save" /\ at' = "height" /\ saved' = books
          /\ UNCHANGED <<books, paid, unpaid, crashes>>
      BY <1>10 DEF SaveBooks, payments, watchBounds
    <2>2. Given' = Given /\ Given = books.distributed
      BY <1>2, <2>1 DEF Given
    <2>. QED
      BY <1>3, <2>1, <2>2 DEF GivenInv, GivenOnce
  <1>11. CASE RestartWatch
    <2>1. /\ crashes' = crashes + 1 /\ at' = "height" /\ books' = saved'
          /\ saved' \in {saved, Fresh} /\ UNCHANGED <<paid, unpaid>>
      BY <1>11 DEF RestartWatch, payments
    <2>2. saved'.distributed \in {saved.distributed, 0}
      BY <2>1 DEF Fresh
    <2>3. saved'.distributed <= paid' + unpaid' /\ saved'.distributed \in Nat
      BY <1>1, <1>2, <2>1, <2>2 DEF GivenInv
    <2>4. Given' = saved'.distributed
      BY <2>1, <2>3 DEF Given
    <2>5. crashes' \in Nat /\ crashes' # 0
      BY <1>1, <2>1
    <2>. QED
      BY <2>3, <2>4, <2>5 DEF GivenInv, GivenOnce
  <1>. QED
    BY <1>5, <1>6, <1>7, <1>8, <1>9, <1>10, <1>11 DEF WatchNext, WatchStep, GivenInv

\* What is counted as distributed was given to pay_provider, and once only
\* while the process never started again: for any chain, failures and
\* restarts (step).
THEOREM DistributedWasGiven == WatchSpec => []GivenOnce
  <1>1. WatchInit => GivenInv
    <2>1. ASSUME WatchInit PROVE Given = 0 /\ paid = 0 /\ unpaid = 0
                                 /\ saved.distributed = 0 /\ crashes = 0
      BY <2>1 DEF WatchInit, Given, Fresh
    <2>. QED
      BY <2>1, WatchStarts DEF GivenInv, GivenOnce
  <1>2. GivenInv /\ WatchInv' /\ [WatchNext]_watchVars => GivenInv'
    BY GivenStep
  <1>3. GivenInv => GivenOnce
    BY DEF GivenInv
  <1>. QED
    BY <1>1, <1>2, <1>3, WatchInvariant, PTL DEF WatchSpec
=============================================================================
