----------------------------- MODULE MCPairing -----------------------------
(* Small instances of Pairing for TLC. *)
EXTENDS Pairing
=============================================================================
