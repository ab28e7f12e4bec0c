----------------------------- MODULE MCAciQueue ----------------------------
(* AciQueue for TLC. *)
EXTENDS AciQueue, TLC
=============================================================================
