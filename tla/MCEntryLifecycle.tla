-------------------------- MODULE MCEntryLifecycle --------------------------
(* Instances of EntryLifecycle for TLC. *)
EXTENDS EntrySettlement, TLC

PlanSymmetry == Permutations(Plans)
=============================================================================
