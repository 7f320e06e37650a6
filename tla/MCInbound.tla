----------------------------- MODULE MCInbound -----------------------------
(* Small instances of Inbound for TLC. *)
EXTENDS Inbound, TLC
=============================================================================
