----------------------------- MODULE MCRotation -----------------------------
(* Small instances of Rotation for TLC. *)
EXTENDS Rotation
=============================================================================
