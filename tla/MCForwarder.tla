---------------------------- MODULE MCForwarder ----------------------------
(***************************************************************************)
(* Instances of Forwarder: one transaction on the Hub, two on Polygon.     *)
(***************************************************************************)
EXTENDS Forwarder

MCTxs == [l \in Lanes |-> IF l = "pol" THEN 2 ELSE 1]
=============================================================================
