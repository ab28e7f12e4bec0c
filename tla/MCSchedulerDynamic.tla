------------------------ MODULE MCSchedulerDynamic -------------------------
(* SchedulerDynamic for TLC. *)
EXTENDS SchedulerDynamic, TLC

FunctionSymmetry == Permutations(Functions)
=============================================================================
