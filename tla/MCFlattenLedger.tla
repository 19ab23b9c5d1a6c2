-------------------------- MODULE MCFlattenLedger --------------------------
(* Instances of FlattenLedger for TLC. *)
EXTENDS FlattenLedger
=============================================================================
