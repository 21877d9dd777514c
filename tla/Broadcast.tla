---------------------------- MODULE Broadcast ----------------------------
(***************************************************************************)
(* What the event bus promises its subscribers: every event published      *)
(* after a subscription began is read by that subscriber exactly once and  *)
(* in order, and a clone begins where the subscriber it was cloned from    *)
(* has stopped reading.  Nothing is said of goroutines or buffers.         *)
(***************************************************************************)
EXTENDS Naturals

CONSTANTS Root, Subscribers

VARIABLES
    sent,   \* number of events published so far
    read,   \* [Subscribers -> number of the last event its consumer received]
    live    \* subscribers that have not been shut down

broadcastVars == <<sent, read, live>>

BroadcastInit == sent = 0 /\ read = [s \in Subscribers |-> 0] /\ live = {}

Publish == sent' = sent + 1 /\ UNCHANGED <<read, live>>

Subscribe(p, s) ==
    /\ p \in live \cup {Root}
    /\ s \notin live
    /\ live' = live \cup {s}
    /\ read' = [read EXCEPT ![s] = IF p = Root THEN sent ELSE read[p]]
    /\ UNCHANGED sent

Receive(s) ==
    /\ s \in live
    /\ read[s] < sent
    /\ read' = [read EXCEPT ![s] = @ + 1]
    /\ UNCHANGED <<sent, live>>

Stop(s) ==
    /\ s \in live
    /\ live' = live \ {s}
    /\ UNCHANGED <<sent, read>>

BroadcastNext ==
    \/ Publish
    \/ \E s \in Subscribers :
          \/ Receive(s)
          \/ Stop(s)
          \/ \E p \in Subscribers \cup {Root} : Subscribe(p, s)

BroadcastSpec == BroadcastInit /\ [][BroadcastNext]_broadcastVars
=============================================================================
