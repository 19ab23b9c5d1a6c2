-------------------------- MODULE EntrySettlement ---------------------------
(***************************************************************************)
(* EntryLifecycle implements Settlement: the refinement mapping reads the  *)
(* money off the exchange's order and off the three tables.                *)
(***************************************************************************)
EXTENDS EntryLifecycle, Integers

\* An order is working from the request until the exchange has ended it; a
\* request that was refused or lost on the way ends with nothing bought.
StageOf(p) ==
    IF placed[p] = 0 THEN "unsent"
    ELSE IF ex[p].st \in {"transit", "live"} THEN "working"
    ELSE "ended"

\* order_lifecycle.state in a state the entry side does not leave any more.
VerdictOf(p) ==
    IF order[p].st \in Settled \cup {"POSITION_UNPROTECTED"} THEN order[p].filled ELSE -1

Abstract ==
    INSTANCE Settlement WITH
        stage <- [p \in Plans |-> StageOf(p)],
        bought <- [p \in Plans |-> ex[p].filled],
        verdict <- [p \in Plans |-> VerdictOf(p)],
        owned <- [p \in Plans |-> pos[p].qty]

\* Every step of the entry side, crashes, timeouts, late fills and racing
\* cancels included, is a step of Settlement or none: nothing is sent after it
\* was dropped, a conclusion is true, final and never revised, and managed
\* quantities grow towards what was bought (one process on the database).
EntriesSettle == Abstract!SettlementSpec
=============================================================================
