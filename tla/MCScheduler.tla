---------------------------- MODULE MCScheduler ----------------------------
(* Scheduler for TLC: any client, all interleavings of a small table. *)
EXTENDS Scheduler, TLC
=============================================================================
