-------------------------- MODULE MCSessionControl --------------------------
(* Instances of SessionControl for TLC. *)
EXTENDS SessionControl
=============================================================================
