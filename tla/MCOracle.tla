------------------------------ MODULE MCOracle ------------------------------
(***************************************************************************)
(* Instances of Oracle.  Timestamps are those of the block or a little     *)
(* before it; retention and epoch are short, so that pruning meets         *)
(* records of every age.                                                   *)
(***************************************************************************)
EXTENDS Oracle

MCOffsets == {-1, 0}
=============================================================================
