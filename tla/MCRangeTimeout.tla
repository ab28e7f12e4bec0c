-------------------------- MODULE MCRangeTimeout ---------------------------
(* RangeTimeout for TLC. *)
EXTENDS RangeTimeout, TLC
=============================================================================
