------------------------------ MODULE PubSub ------------------------------
(***************************************************************************)
(* chain/pubsub: a bus is a goroutine with unbuffered channels.  A         *)
(* subscriber is a bus again, with a buffer of the events its consumer has *)
(* not received, and may be subscribed to (cloned) in turn, so buses form  *)
(* a tree.  Events are numbered in the order they are published.           *)
(***************************************************************************)
EXTENDS Naturals, Sequences

CONSTANTS
    Root,         \* the bus NewBus returns
    Subscribers,  \* identities of the subscribers that may be created
    NoBus,        \* the absence of a bus
    MaxEvents     \* bound: how many events are published

ASSUME PubSubAssumption ==
    Root \notin Subscribers /\ NoBus \notin Subscribers \cup {Root} /\ MaxEvents \in Nat

Buses == Subscribers \cup {Root}

VARIABLES
    mode,      \* where the goroutine of each bus is
    parent,    \* the bus that a subscriber's parentch leads to
    subs,      \* b.subscriptions
    evbuf,     \* b.evbuf
    cur,       \* the event b is passing to its children
    todo,      \* children the current loop over b.subscriptions has left
    target,    \* the child that loop is blocked on
    closing,   \* buses a client has called Close on
    sent,      \* number of events the root has accepted
    read       \* number of the last event each consumer received

vars == <<mode, parent, subs, evbuf, cur, todo, target, closing, sent, read>>
loopVars == <<cur, todo, target>>

Modes == {"none", "running", "publishing", "asking", "waiting", "reporting", "done"}

\* lc.ShuttingDown() is closed.
ShuttingDown(b) == mode[b] \in {"asking", "waiting", "reporting", "done"}

TypeOK ==
    /\ mode \in [Buses -> Modes]
    /\ parent \in [Subscribers -> Buses \cup {NoBus}]
    /\ subs \in [Buses -> SUBSET Subscribers]
    /\ evbuf \in [Subscribers -> Seq(Nat)]
    /\ cur \in [Buses -> Nat]
    /\ todo \in [Buses -> SUBSET Subscribers]
    /\ target \in [Buses -> Subscribers \cup {NoBus}]
    /\ closing \subseteq Buses
    /\ sent \in Nat
    /\ read \in [Subscribers -> Nat]

Init ==
    /\ mode = [b \in Buses |-> IF b = Root THEN "running" ELSE "none"]
    /\ parent = [s \in Subscribers |-> NoBus]
    /\ subs = [b \in Buses |-> {}]
    /\ evbuf = [s \in Subscribers |-> <<>>]
    /\ cur = [b \in Buses |-> 0]
    /\ todo = [b \in Buses |-> {}]
    /\ target = [b \in Buses |-> NoBus]
    /\ closing = {}
    /\ sent = 0
    /\ read = [s \in Subscribers |-> 0]

\* The next child of a loop over a map, in the order the runtime chooses; the
\* loop then blocks on that child.
Pick(S) == IF S = {} THEN {NoBus} ELSE S

AfterPublishing(S) == IF S = {} THEN "running" ELSE "publishing"

AfterWaiting(b, S) == IF S # {} THEN "waiting" ELSE IF b = Root THEN "done" ELSE "reporting"

AfterAsking(b, S) == IF S # {} THEN "asking" ELSE AfterWaiting(b, subs[b])

-----------------------------------------------------------------------------
(* Clients *)

\* A client's event is taken by the root's select loop.
Publish ==
    /\ mode[Root] = "running"
    /\ sent < MaxEvents
    /\ sent' = sent + 1
    /\ cur' = [cur EXCEPT ![Root] = sent + 1]
    /\ todo' = [todo EXCEPT ![Root] = subs[Root]]
    /\ \E c \in Pick(subs[Root]) : target' = [target EXCEPT ![Root] = c]
    /\ mode' = [mode EXCEPT ![Root] = AfterPublishing(subs[Root])]
    /\ UNCHANGED <<parent, subs, evbuf, closing, read>>

\* Variant: a clone starts with an empty buffer.
BufferForNone(b) == <<>>

BufferFor(b) == IF b = Root THEN <<>> ELSE evbuf[b]

\* Subscribe and Clone: the child copies the events its parent has not emitted.
Subscribe(b, c) ==
    /\ mode[b] = "running"
    /\ mode[c] = "none"
    /\ mode' = [mode EXCEPT ![c] = "running"]
    /\ parent' = [parent EXCEPT ![c] = b]
    /\ subs' = [subs EXCEPT ![b] = @ \cup {c}]
    /\ evbuf' = [evbuf EXCEPT ![c] = BufferFor(b)]
    /\ read' = [read EXCEPT ![c] = IF b = Root THEN sent ELSE read[b]]
    /\ UNCHANGED <<loopVars, closing, sent>>

\* The consumer receives from Events().
Emit(s) ==
    /\ mode[s] = "running"
    /\ evbuf[s] # <<>>
    /\ read' = [read EXCEPT ![s] = Head(evbuf[s])]
    /\ evbuf' = [evbuf EXCEPT ![s] = Tail(@)]
    /\ UNCHANGED <<mode, parent, subs, loopVars, closing, sent>>

Close(b) ==
    /\ mode[b] # "none"
    /\ b \notin closing
    /\ closing' = closing \cup {b}
    /\ UNCHANGED <<mode, parent, subs, evbuf, loopVars, sent, read>>

-----------------------------------------------------------------------------
(* Goroutines *)

\* Variant: a bus waits for its consumer before it takes the next event.
ReceptiveWhenRead(c) == mode[c] = "running" /\ evbuf[c] = <<>>

\* The select loop of c is ready to receive.
Receptive(c) == mode[c] = "running"

\* A child takes the event from pubch, buffers it and passes it on in turn.
Forward(b, c) ==
    /\ mode[b] = "publishing"
    /\ target[b] = c
    /\ Receptive(c)
    /\ evbuf' = [evbuf EXCEPT ![c] = Append(@, cur[b])]
    /\ cur' = [cur EXCEPT ![c] = cur[b]]
    /\ todo' = [todo EXCEPT ![b] = @ \ {c}, ![c] = subs[c]]
    /\ \E n \in Pick(todo[b] \ {c}), m \in Pick(subs[c]) :
          target' = [target EXCEPT ![b] = n, ![c] = m]
    /\ mode' = [mode EXCEPT ![b] = AfterPublishing(todo[b] \ {c}),
                            ![c] = AfterPublishing(subs[c])]
    /\ UNCHANGED <<parent, subs, closing, sent, read>>

\* Publish returns ErrNotRunning, ShutdownAsync returns at once.
Unreachable(c) == ShuttingDown(c)

Skip(b, c) ==
    /\ mode[b] \in {"publishing", "asking"}
    /\ target[b] = c
    /\ Unreachable(c)
    /\ todo' = [todo EXCEPT ![b] = @ \ {c}]
    /\ \E n \in Pick(todo[b] \ {c}) : target' = [target EXCEPT ![b] = n]
    /\ mode' = [mode EXCEPT ![b] = IF mode[b] = "publishing"
                                   THEN AfterPublishing(todo[b] \ {c})
                                   ELSE AfterAsking(b, todo[b] \ {c})]
    /\ UNCHANGED <<parent, subs, evbuf, cur, closing, sent, read>>

\* A bus takes the shutdown request of a client and starts to ask its children.
Shutdown(b) ==
    /\ mode[b] = "running"
    /\ b \in closing
    /\ todo' = [todo EXCEPT ![b] = subs[b]]
    /\ \E n \in Pick(subs[b]) : target' = [target EXCEPT ![b] = n]
    /\ mode' = [mode EXCEPT ![b] = AfterAsking(b, subs[b])]
    /\ UNCHANGED <<parent, subs, evbuf, cur, closing, sent, read>>

\* A child takes the shutdown request of its parent.
Ask(b, c) ==
    /\ mode[b] = "asking"
    /\ target[b] = c
    /\ mode[c] = "running"
    /\ todo' = [todo EXCEPT ![b] = @ \ {c}, ![c] = subs[c]]
    /\ \E n \in Pick(todo[b] \ {c}), m \in Pick(subs[c]) :
          target' = [target EXCEPT ![b] = n, ![c] = m]
    /\ mode' = [mode EXCEPT ![b] = AfterAsking(b, todo[b] \ {c}),
                            ![c] = AfterAsking(c, subs[c])]
    /\ UNCHANGED <<parent, subs, evbuf, cur, closing, sent, read>>

\* A child that is done sends itself on the channel its parent listens on, in
\* the select loop or while it shuts down.
Unsubscribe(b, c) ==
    /\ mode[c] = "reporting"
    /\ parent[c] = b
    /\ mode[b] \in {"running", "waiting"}
    /\ subs' = [subs EXCEPT ![b] = @ \ {c}]
    /\ mode' = [mode EXCEPT ![c] = "done",
                            ![b] = IF mode[b] = "running" THEN "running"
                                   ELSE AfterWaiting(b, subs[b] \ {c})]
    /\ UNCHANGED <<parent, evbuf, loopVars, closing, sent, read>>

\* Every goroutine has returned; clients are told ErrNotRunning from here on.
Stopped ==
    /\ mode[Root] = "done"
    /\ UNCHANGED vars

Next ==
    \/ Publish
    \/ Stopped
    \/ \E b \in Buses : Close(b) \/ Shutdown(b)
    \/ \E s \in Subscribers : Emit(s)
    \/ \E b \in Buses, c \in Subscribers :
          Subscribe(b, c) \/ Forward(b, c) \/ Skip(b, c) \/ Ask(b, c) \/ Unsubscribe(b, c)

Spec == Init /\ [][Next]_vars

-----------------------------------------------------------------------------
(* Fairness.  Goroutines are scheduled, and a select picks among its ready   *)
(* cases at random, so a bus that is able to go on again and again goes on   *)
(* (strong fairness).  Consumers and clients owe nothing.                    *)

\* The steps in which the goroutine of b goes on.
Goroutine(b) ==
    \/ Shutdown(b)
    \/ \E c \in Subscribers : Forward(b, c) \/ Skip(b, c) \/ Ask(b, c) \/ Unsubscribe(b, c)

FairSpec == Spec /\ \A b \in Buses : SF_vars(Goroutine(b))

-----------------------------------------------------------------------------
(* Properties *)

Live(s) == mode[s] \in {"running", "publishing"}

\* The last event b has taken.
Known(b) == IF b = Root THEN sent ELSE read[b] + Len(evbuf[b])

\* The buffer of a subscriber is exactly the run of events between the last one
\* its consumer received and the last one it has taken: none is lost, repeated
\* or out of order, whichever way forwarding, cloning and receiving interleave.
BufferIsUnread ==
    \A s \in Subscribers :
        mode[s] # "none" => \A i \in 1..Len(evbuf[s]) : evbuf[s][i] = read[s] + i

\* A subscriber has taken what its parent has taken, up to the one event that
\* the parent is still handing to it.
UpToDate ==
    \A s \in Subscribers :
        Live(s) => Known(s) = IF mode[parent[s]] = "publishing" /\ s \in todo[parent[s]]
                              THEN Known(parent[s]) - 1 ELSE Known(parent[s])

\* No goroutine outlives its parent: a bus ends after all it has handed out.
NoOrphan ==
    \A s \in Subscribers :
        mode[s] \notin {"none", "done"} =>
            s \in subs[parent[s]] /\ mode[parent[s]] \notin {"none", "reporting", "done"}

\* The bus keeps the promise of module Broadcast.
Promise == INSTANCE Broadcast WITH live <- {s \in Subscribers : Live(s)}

ImplementsBroadcast == Promise!BroadcastSpec

\* "A subscriber cannot block other subscribers" (bus.go:20-21): handing an event
\* to the children ends, though no consumer ever receives anything.
PublishReturns == \A b \in Buses : mode[b] = "publishing" ~> mode[b] # "publishing"

\* A bus that is closed ends, with the goroutines below it, whatever its
\* parent and its children are doing at the time.
CloseEnds == \A b \in Buses : b \in closing ~> mode[b] = "done"

\* Both: no bus waits for ever on another one that waits on it.
BusesProgress == PublishReturns /\ CloseEnds
=============================================================================
