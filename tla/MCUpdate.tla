------------------------------ MODULE MCUpdate ------------------------------
(* A small instance of Update for TLC. *)
EXTENDS Update

CONSTANTS v1, v2, v3, v4, v5
=============================================================================
