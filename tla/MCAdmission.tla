----------------------------- MODULE MCAdmission ----------------------------
(* Instances of Admission for TLC. *)
EXTENDS Admission, TLC

\* The slots and the streak bind; the exposure and the daily loss do, with room
\* for a rest; the exposure leaves room for one whole entry only.
MCRuleSets ==
    {[open |-> 1, exposure |-> 4, streak |-> 1, loss |-> 9],
     [open |-> 2, exposure |-> 3, streak |-> 9, loss |-> 1],
     [open |-> 2, exposure |-> 2, streak |-> 9, loss |-> 9]}

\* Nothing yet, or one gain.
MCEarlier == {<<>>, <<[pnl |-> 1, known |-> TRUE]>>}

PlanSymmetry == Permutations(Plans)
=============================================================================
