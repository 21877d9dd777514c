-------------------------- MODULE MCTxBroadcaster --------------------------
(***************************************************************************)
(* Instances of TxBroadcaster: r1 is signed by the client, r2 by its       *)
(* caller.                                                                 *)
(***************************************************************************)
EXTENDS TxBroadcaster

CONSTANTS r1, r2
=============================================================================
