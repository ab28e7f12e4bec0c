------------------------------- MODULE MCBonds ------------------------------
(* Bonds for TLC. *)
EXTENDS Bonds
=============================================================================
