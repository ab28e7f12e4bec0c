------------------------- MODULE MCSchedulerStatic -------------------------
(* SchedulerStatic for TLC. *)
EXTENDS SchedulerStatic, TLC

FunctionSymmetry == Permutations(Functions)
=============================================================================
