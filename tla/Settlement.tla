----------------------------- MODULE Settlement -----------------------------
(***************************************************************************)
(* What the entry side promises about the money of a plan, without any of  *)
(* its tables, lookups, fast lanes or retries.  A plan is sent once or     *)
(* dropped before it is sent; what was sent buys until it ends; the agent  *)
(* may conclude only what is true and final, once; and it may own only     *)
(* what was bought, never less than it owned before.                       *)
(***************************************************************************)
EXTENDS Integers

CONSTANTS
    Plans,      \* trade plans
    Q           \* size of an entry, in lots

VARIABLES
    stage,      \* "unsent", "working" or "ended", as the exchange sees it
    bought,     \* lots bought so far
    verdict,    \* the agent's conclusion: Open, or the quantity it settled for
    owned       \* lots the agent manages for the plan

settlement == <<stage, bought, verdict, owned>>

Open == -1

Start ==
    /\ stage = [p \in Plans |-> "unsent"]
    /\ bought = [p \in Plans |-> 0]
    /\ verdict = [p \in Plans |-> Open]
    /\ owned = [p \in Plans |-> 0]

\* The plan is given up before anything was sent.
Drop(p) ==
    /\ stage[p] = "unsent" /\ verdict[p] = Open
    /\ verdict' = [verdict EXCEPT ![p] = 0]
    /\ UNCHANGED <<stage, bought, owned>>

\* The order is sent, and accepted or refused at once.
Send(p) ==
    /\ stage[p] = "unsent" /\ verdict[p] = Open
    /\ \E s \in {"working", "ended"} : stage' = [stage EXCEPT ![p] = s]
    /\ UNCHANGED <<bought, verdict, owned>>

\* A lot is bought; the last one ends the order.
Buy(p) ==
    /\ stage[p] = "working" /\ bought[p] < Q
    /\ bought' = [bought EXCEPT ![p] = @ + 1]
    /\ stage' = [stage EXCEPT ![p] = IF bought[p] + 1 = Q THEN "ended" ELSE @]
    /\ UNCHANGED <<verdict, owned>>

\* Cancelled, rejected by the exchange, or lost on the way there.
End(p) ==
    /\ stage[p] = "working"
    /\ stage' = [stage EXCEPT ![p] = "ended"]
    /\ UNCHANGED <<bought, verdict, owned>>

\* The agent's one conclusion about an order that can buy nothing more.
Conclude(p) ==
    /\ stage[p] = "ended" /\ verdict[p] = Open
    /\ verdict' = [verdict EXCEPT ![p] = bought[p]]
    /\ UNCHANGED <<stage, bought, owned>>

\* The agent takes charge of more of what was bought.
Own(p) ==
    /\ \E q \in (owned[p] + 1)..bought[p] : owned' = [owned EXCEPT ![p] = q]
    /\ UNCHANGED <<stage, bought, verdict>>

Settle(p) == Drop(p) \/ Send(p) \/ Buy(p) \/ End(p) \/ Conclude(p) \/ Own(p)

SettlementSpec == Start /\ [][\E p \in Plans : Settle(p)]_settlement
=============================================================================
