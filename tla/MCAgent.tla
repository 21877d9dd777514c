------------------------------ MODULE MCAgent ------------------------------
(***************************************************************************)
(* Instances of Agent: an inflow of 10 leaves the hosts below the floor    *)
(* of a swap, one of 50 lifts them above it.                               *)
(***************************************************************************)
EXTENDS Agent

CONSTANTS p1, p2
=============================================================================
