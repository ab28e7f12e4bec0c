---------------------------- MODULE MCAciSetup -----------------------------
(* AciSetup for TLC. *)
EXTENDS AciSetup, TLC
=============================================================================
