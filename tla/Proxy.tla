------------------------------- MODULE Proxy -------------------------------
(***************************************************************************)
(* The pool proxy: a miner's connection relayed to an upstream pool under  *)
(* our account, counting the shares the pool accepts for the miner's own   *)
(* address.  One connection of either dialect (handle_miner, with a login  *)
(* that opens the upstream, and handle_gpu_miner, which opens it at once), *)
(* the requests in flight, and the totals saved to shares.json.            *)
(*                                                                         *)
(* Requests go upstream under ids of the proxy's own (UpstreamIds); the    *)
(* pool answers in any order, and the miner picks its ids as it likes.     *)
(* Difficulties, of which a share takes the one its job was issued with,   *)
(* are left out: a request is a share if its job is known.                 *)
(***************************************************************************)
EXTENDS Integers, FiniteSetsExt, SequencesExt

CONSTANTS
    Dialect,       \* "cpu" or "gpu"
    Addresses,     \* addresses of the users
    NoAddress,     \* before the miner has given one
    Torn,          \* a file that cannot be parsed
    MinerIds,      \* ids a miner gives its requests
    Jobs,          \* job ids
    MaxUnanswered, \* UpstreamIds.MAX
    MaxJobs,       \* jobs remembered, 256 of a cpu and 64 of a gpu connection
    MaxRequests,   \* bound: requests of a connection
    MaxNotices,    \* bound: jobs announced
    MaxBreaks      \* bound: connections that break and crashes of the process

ASSUME ProxyAssumption ==
    /\ Dialect \in {"cpu", "gpu"}
    /\ NoAddress \notin Addresses /\ Torn \notin [Addresses -> Nat]
    /\ Jobs \intersect {"login", "other"} = {}
    /\ MinerIds \subseteq Nat
    /\ MaxUnanswered \in Nat \ {0} /\ MaxJobs \in Nat \ {0}
    /\ MaxRequests \in Nat /\ MaxNotices \in Nat /\ MaxBreaks \in Nat

VARIABLES
    addr,       \* aba["addr"]
    connected,  \* up_writer is set
    asked,      \* the requests under the proxy's ids 1, 2, ...
    unanswered, \* the ids in UpstreamIds._map
    evicted,    \* the ids it dropped unanswered
    issued,     \* job_diff or issued: job ids by their first announcement
    pending,    \* ids of the requests the pool has not judged
    answers,    \* answers of the pool on their way: id and verdict
    accepted,   \* ids of the shares the pool accepted
    totals,     \* _state["totals"]: shares of an address
    file,       \* shares.json, Torn while it is written
    credits,    \* credits given: the id answered and the address
    replies,    \* answers passed on: the id of the pool's and of the miner's
    notices, breaks

session == <<addr, connected, asked, unanswered, evicted, issued, pending, answers, accepted>>
vars == <<session, totals, file, credits, replies, notices, breaks>>

Init ==
    /\ addr = NoAddress /\ connected = (Dialect = "gpu")
    /\ asked = <<>> /\ unanswered = {} /\ evicted = {} /\ issued = <<>>
    /\ pending = {} /\ answers = {} /\ accepted = {}
    /\ totals = [a \in Addresses |-> 0] /\ file = totals
    /\ credits = <<>> /\ replies = {}
    /\ notices = 0 /\ breaks = 0

\* record_share runs to its end on the event loop.
Running == file # Torn

-----------------------------------------------------------------------------
(* UpstreamIds *)

\* issue: a fresh id for a request of the miner; beyond MAX the oldest entry
\* is dropped.
Issue(request) ==
    LET id == Len(asked) + 1
        all == unanswered \union {id}
        oldest == IF Cardinality(all) > MaxUnanswered THEN {Min(all)} ELSE {}
    IN  /\ Len(asked) < MaxRequests
        /\ asked' = Append(asked, request)
        /\ unanswered' = all \ oldest
        /\ evicted' = evicted \union oldest
        /\ pending' = IF connected' THEN pending \union {id} ELSE pending

\* Variant: the map is keyed by the id of the miner, of its last request.
EntryByMinerId(id) ==
    {Max(same) : same \in {{u \in unanswered : asked[u].mid = asked[id].mid}} \ {{}}}

\* Variant: answers are taken to come in the order of the requests.
EntryInOrder(id) == IF unanswered = {} THEN {} ELSE {Min(unanswered)}

\* resolve: the entry under an id, if it is still there.
Entry(id) == {id} \intersect unanswered

-----------------------------------------------------------------------------
(* The miner *)

Request(kind, m, share) == [kind |-> kind, mid |-> m, by |-> addr', share |-> share]

\* Variant: a second login rebinds the address.
LoginAgain(a, m) ==
    /\ Running
    /\ addr' = a /\ connected' = TRUE
    /\ Issue(Request("login", m, FALSE))
    /\ UNCHANGED <<issued, answers, accepted, totals, file, credits, replies, notices, breaks>>

\* login opens the upstream and binds the address once; mining.authorize may
\* be repeated, for another address.
Login(a, m) ==
    /\ Running
    /\ Dialect = "cpu" => ~connected
    /\ addr' = a /\ connected' = TRUE
    /\ Issue(Request("login", m, FALSE))
    /\ UNCHANGED <<issued, answers, accepted, totals, file, credits, replies, notices, breaks>>

Known(job) == job \in ToSet(issued)

\* A submit of an unknown job is passed on without credit by the cpu handler
\* and refused by the gpu handler.
Submit(job, m) ==
    /\ Running
    /\ Dialect = "gpu" => Known(job)
    /\ UNCHANGED <<addr, connected>>
    /\ Issue(Request(job, m, Known(job)))
    /\ UNCHANGED <<issued, answers, accepted, totals, file, credits, replies, notices, breaks>>

\* Any other request: subscribe, getjob, keepalived, a second login.
Ask(m) ==
    /\ Running
    /\ UNCHANGED <<addr, connected>>
    /\ Issue(Request("other", m, FALSE))
    /\ UNCHANGED <<issued, answers, accepted, totals, file, credits, replies, notices, breaks>>

-----------------------------------------------------------------------------
(* The pool *)

\* The pool judges a request.  It may accept what the proxy no longer knows
\* for a share.
Judge(id, ok) ==
    /\ id \in pending
    /\ pending' = pending \ {id}
    /\ answers' = answers \union {[id |-> id, ok |-> ok]}
    /\ accepted' = IF ok /\ asked[id].kind \in Jobs THEN accepted \union {id} ELSE accepted
    /\ UNCHANGED <<addr, connected, asked, unanswered, evicted, issued, totals, file, credits, replies,
                   notices, breaks>>

\* A job announced again keeps its place; beyond the limit the first is
\* dropped.
Remembered(job) ==
    IF Known(job) THEN issued
    ELSE IF Len(issued) = MaxJobs THEN Append(Tail(issued), job) ELSE Append(issued, job)

Notify(job) ==
    /\ Running /\ connected
    /\ notices < MaxNotices /\ notices' = notices + 1
    /\ issued' = Remembered(job)
    /\ UNCHANGED <<addr, connected, asked, unanswered, evicted, pending, answers, accepted, totals, file,
                   credits, replies, breaks>>

-----------------------------------------------------------------------------
(* pump_up_to_down *)

\* record_share adds to the totals and rewrites the file; without an entry
\* the answer is passed on under the id it came with.
Pump(answer) ==
    /\ Running /\ answer \in answers
    /\ answers' = answers \ {answer}
    /\ unanswered' = unanswered \ Entry(answer.id)
    /\ replies' = replies \union
           (IF Entry(answer.id) = {} THEN {<<answer.id, answer.id>>}
            ELSE {<<answer.id, asked[id].mid>> : id \in Entry(answer.id)})
    /\ IF answer.ok /\ (\E id \in Entry(answer.id) : asked[id].share) /\ addr # NoAddress
       THEN /\ totals' = [totals EXCEPT ![addr] = @ + 1]
            /\ credits' = Append(credits, <<answer.id, addr>>)
            /\ file' = Torn
       ELSE UNCHANGED <<totals, credits, file>>
    /\ UNCHANGED <<addr, connected, asked, evicted, issued, pending, accepted, notices, breaks>>

\* save_state has opened the file for writing, and now has written it.
Saved ==
    /\ ~Running
    /\ file' = totals
    /\ UNCHANGED <<session, totals, credits, replies, notices, breaks>>

-----------------------------------------------------------------------------
(* Faults *)

Reopened ==
    /\ addr' = NoAddress /\ connected' = (Dialect = "gpu")
    /\ asked' = <<>> /\ unanswered' = {} /\ evicted' = {} /\ issued' = <<>>
    /\ pending' = {} /\ answers' = {} /\ accepted' = {}
    /\ credits' = <<>> /\ replies' = {}

\* The miner comes back on a new connection, with new ids on both sides.
Reconnect ==
    /\ Running
    /\ breaks < MaxBreaks /\ breaks' = breaks + 1
    /\ Reopened
    /\ UNCHANGED <<totals, file, notices>>

\* load_state: a file that cannot be read is no file.
Loaded == IF file = Torn THEN [a \in Addresses |-> 0] ELSE file

Crash ==
    /\ breaks < MaxBreaks /\ breaks' = breaks + 1
    /\ Reopened
    /\ totals' = Loaded
    /\ file' = Loaded
    /\ UNCHANGED notices

Serve == Saved \/ \E answer \in answers : Pump(answer)
Pool == \E id \in pending, ok \in BOOLEAN : Judge(id, ok)
Miner ==
    \E m \in MinerIds :
        \/ \E a \in Addresses : Login(a, m)
        \/ \E job \in Jobs : Submit(job, m)
        \/ Ask(m)

Next ==
    \/ Serve \/ Pool \/ Miner
    \/ \E job \in Jobs : Notify(job)
    \/ Reconnect \/ Crash

Spec == Init /\ [][Next]_vars

\* The proxy reads what the pool sends.
FairSpec == Spec /\ WF_vars(Serve)

-----------------------------------------------------------------------------
(* Properties *)

Ids == 1..Len(asked)

TypeOK ==
    /\ addr \in Addresses \union {NoAddress} /\ connected \in BOOLEAN
    /\ asked \in Seq([kind : Jobs \union {"login", "other"}, mid : MinerIds,
                      by : Addresses \union {NoAddress}, share : BOOLEAN])
    /\ unanswered \subseteq Ids /\ Cardinality(unanswered) <= MaxUnanswered
    /\ evicted \subseteq Ids
    /\ pending \subseteq Ids /\ answers \subseteq [id : Ids, ok : BOOLEAN]
    /\ accepted \subseteq Ids
    /\ issued \in Seq(Jobs) /\ Len(issued) <= MaxJobs
    /\ totals \in [Addresses -> Nat] /\ (file = Torn \/ file \in [Addresses -> Nat])

\* "Share credit must be bound to the pool's answer to THAT submit": a credit
\* belongs to a share the pool accepted, and every share has at most one
\* (UpstreamIds).
CreditIsEarned ==
    /\ \A i \in DOMAIN credits : credits[i][1] \in accepted
    /\ \A i, j \in DOMAIN credits : credits[i][1] = credits[j][1] => i = j

\* The credit is the address's under which the share was submitted.
CreditedToSubmitter == \A i \in DOMAIN credits : credits[i][2] = asked[credits[i][1]].by

\* The miner reads an answer under the id of the request it answers, unless
\* so many requests followed unanswered that the entry was dropped.
RepliesMatch == \A r \in replies : r[1] \notin evicted => r[2] = asked[r[1]].mid

\* Both: an answer is taken for the request it answers and no other, in the
\* address it is credited to and in the id the miner reads.
AnswersMatched == CreditedToSubmitter /\ RepliesMatch

\* A share, whose job the proxy knew when it was submitted, is credited if
\* the pool accepts it, unless the connection breaks or so many requests
\* follow unanswered that the entry is dropped.
AcceptedIsCredited ==
    \A id \in 1..MaxRequests :
        id \in accepted /\ asked[id].share /\ addr # NoAddress
            ~> \/ accepted = {} \/ id \in evicted
               \/ \E i \in DOMAIN credits : credits[i][1] = id
=============================================================================
