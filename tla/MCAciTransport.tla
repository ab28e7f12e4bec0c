-------------------------- MODULE MCAciTransport ---------------------------
(* The transport with either interface, for TLC. *)
EXTENDS AciPolling, TLC
=============================================================================
