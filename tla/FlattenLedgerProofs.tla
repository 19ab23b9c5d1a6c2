------------------------ MODULE FlattenLedgerProofs ------------------------
(***************************************************************************)
(* Proofs about FlattenLedger, for every size of the position, number of   *)
(* exit attempts, lookups, triggers of the protective order and faults:    *)
(* exits are sent one at a time, the ledger books only what was sold,      *)
(* without a fault the attempts never sell more than the entry bought, and *)
(* an undisturbed flatten that reports FLAT leaves nothing behind.         *)
(***************************************************************************)
EXTENDS FlattenLedger, FiniteSetTheorems, TLAPS

(***************************************************************************)
(* Sums as counted lots.                                                   *)
(***************************************************************************)
\* The functions that are summed: lots per attempt, 0 for the protective order.
Counts(D) == [D -> 0..Q]

\* A lot is an attempt and a number up to what the attempt counts.
IsLot(f, D, x) == \E k \in D : \E i \in 1..f[k] : x = <<k, i>>

\* Lots(f) is the set of those.
LEMMA LotsAre ==
    ASSUME NEW D, NEW f \in Counts(D)
    PROVE  \A x : x \in Lots(f) <=> IsLot(f, D, x)
<1>1. DOMAIN f = D
  BY DEF Counts
<1>2. \A x : x \in Lots(f) <=> \E k \in D : x \in {k} \X (1..f[k])
  BY <1>1 DEF Lots
<1>3. ASSUME NEW x PROVE x \in Lots(f) <=> IsLot(f, D, x)
  <2>1. \A k \in D : x \in {k} \X (1..f[k]) <=> \E i \in 1..f[k] : x = <<k, i>>
    OBVIOUS
  <2> QED
    BY <1>2, <2>1 DEF IsLot
<1> QED
  BY <1>3

\* A sum is a natural number.
LEMMA SumType ==
    ASSUME NEW D \in SUBSET (0..MaxAttempts), NEW f \in Counts(D)
    PROVE  IsFiniteSet(Lots(f)) /\ Sum(f) \in Nat
<1>1. Q \in Nat /\ MaxAttempts \in Nat
  BY SizesAssumption
<1>2. IsFiniteSet((0..MaxAttempts) \X (1..Q))
  <2>1. IsFiniteSet(0..MaxAttempts) /\ IsFiniteSet(1..Q)
    BY <1>1, FS_Interval
  <2> QED
    BY <2>1, FS_Product
<1>3. ASSUME NEW x \in Lots(f) PROVE x \in (0..MaxAttempts) \X (1..Q)
  <2>1. PICK k \in D : \E i \in 1..f[k] : x = <<k, i>>
    <3>1. IsLot(f, D, x)
      BY LotsAre
    <3> QED
      BY <3>1 DEF IsLot
  <2>1a. PICK i \in 1..f[k] : x = <<k, i>>
    BY <2>1
  <2>2. f[k] \in 0..Q /\ k \in 0..MaxAttempts
    BY DEF Counts
  <2>3. i \in 1..Q
    BY <1>1, <2>2
  <2> QED
    BY <2>1a, <2>2, <2>3
<1>4. Lots(f) \in SUBSET ((0..MaxAttempts) \X (1..Q))
  BY <1>3
<1>5. IsFiniteSet(Lots(f))
  BY <1>2, <1>4, FS_Subset
<1> QED
  BY <1>5, FS_CardinalityType DEF Sum

\* Counting less, or fewer attempts, gives a smaller sum; an equal sum only
\* when nothing is counted less.
LEMMA SumGrows ==
    ASSUME NEW E \in SUBSET (0..MaxAttempts), NEW D \in SUBSET E,
           NEW f \in Counts(D), NEW g \in Counts(E),
           \A k \in D : f[k] <= g[k]
    PROVE  /\ Sum(f) <= Sum(g)
           /\ Sum(g) <= Sum(f) => \A k \in D : f[k] = g[k]
<1>1. /\ \A k \in D : f[k] \in 0..Q
      /\ \A k \in E : g[k] \in 0..Q
      /\ Q \in Nat
  BY SizesAssumption DEF Counts
<1>2. ASSUME NEW x \in Lots(f) PROVE x \in Lots(g)
  <2>1. PICK k \in D : \E i \in 1..f[k] : x = <<k, i>>
    <3>1. IsLot(f, D, x)
      BY LotsAre
    <3> QED
      BY <3>1 DEF IsLot
  <2>1a. PICK i \in 1..f[k] : x = <<k, i>>
    BY <2>1
  <2>2. k \in E /\ i \in 1..g[k]
    BY <1>1
  <2> QED
    BY <2>1a, <2>2, LotsAre DEF IsLot
<1>3. Lots(f) \in SUBSET Lots(g)
  BY <1>2
<1>4. IsFiniteSet(Lots(g)) /\ Sum(g) \in Nat /\ Sum(f) \in Nat
  BY SumType
<1>5. Sum(f) <= Sum(g) /\ (Sum(f) = Sum(g) => Lots(f) = Lots(g))
  BY <1>3, <1>4, FS_Subset DEF Sum
<1>6. ASSUME Sum(g) <= Sum(f), NEW k \in D PROVE f[k] = g[k]
  <2>1. Lots(f) = Lots(g)
    BY <1>4, <1>5, <1>6
  <2>2. SUFFICES ASSUME f[k] < g[k] PROVE FALSE
    BY <1>1
  <2>3. g[k] \in 1..g[k] /\ k \in E
    BY <1>1, <2>2
  <2>4. <<k, g[k]>> \in Lots(f)
    BY <2>1, <2>3, LotsAre DEF IsLot
  <2>5. PICK h \in D : \E i \in 1..f[h] : <<k, g[k]>> = <<h, i>>
    BY <2>4, LotsAre DEF IsLot
  <2>5a. PICK i \in 1..f[h] : <<k, g[k]>> = <<h, i>>
    BY <2>5
  <2>6. k = h /\ g[k] = i
    BY <2>5a
  <2> QED
    BY <1>1, <2>2, <2>5, <2>6
<1> QED
  BY <1>5, <1>6

\* Counting v lots on an attempt that counted none adds v.
LEMMA SumAdds ==
    ASSUME NEW D \in SUBSET (0..MaxAttempts), NEW f \in Counts(D), NEW g \in Counts(D),
           NEW k \in D, f[k] = 0, \A h \in D \ {k} : g[h] = f[h]
    PROVE  Sum(g) = Sum(f) + g[k]
<1>1. g[k] \in Nat
  BY SizesAssumption DEF Counts
<1> DEFINE L == {k} \X (1..g[k])
<1>2. IsFiniteSet(L) /\ Cardinality(L) = g[k]
  <2>0. PICK v \in Nat : v = g[k]
    BY <1>1
  <2>1. IsFiniteSet(1..v) /\ Cardinality(1..v) = v
    <3>1. /\ IsFiniteSet(1..v)
          /\ Cardinality(1..v) = IF 1 > v THEN 0 ELSE v - 1 + 1
      BY FS_Interval
    <3> QED
      BY <3>1
  <2>2. IsFiniteSet({k}) /\ Cardinality({k}) = 1
    BY FS_Singleton
  <2>3. IsFiniteSet(L) /\ Cardinality(L) = Cardinality({k}) * Cardinality(1..v)
    BY <2>0, <2>1, <2>2, FS_Product
  <2> QED
    BY <2>0, <2>1, <2>2, <2>3
<1>3a. ASSUME NEW x \in Lots(g) PROVE x \in Lots(f) \cup L
  <2>1. PICK h \in D : \E i \in 1..g[h] : x = <<h, i>>
    <3>1. IsLot(g, D, x)
      BY LotsAre
    <3> QED
      BY <3>1 DEF IsLot
  <2>2. CASE h = k
    BY <2>1, <2>2
  <2>3. CASE h # k
    <3>1. g[h] = f[h]
      BY <2>3
    <3> QED
      BY <2>1, <3>1, LotsAre DEF IsLot
  <2> QED
    BY <2>2, <2>3
<1>3b. ASSUME NEW x \in Lots(f) PROVE x \in Lots(g)
  <2>1. PICK h \in D : \E i \in 1..f[h] : x = <<h, i>>
    <3>1. IsLot(f, D, x)
      BY LotsAre
    <3> QED
      BY <3>1 DEF IsLot
  <2>2. h # k
    BY <2>1
  <2>3. g[h] = f[h]
    BY <2>2
  <2> QED
    BY <2>1, <2>3, LotsAre DEF IsLot
<1>3c. L \subseteq Lots(g)
  BY LotsAre DEF IsLot
<1>4. Lots(g) = Lots(f) \cup L
  BY <1>3a, <1>3b, <1>3c
<1>5. Lots(f) \cap L = {}
  <2>1. SUFFICES ASSUME NEW x, x \in Lots(f), x \in L PROVE FALSE
    OBVIOUS
  <2>2. PICK h \in D : \E i \in 1..f[h] : x = <<h, i>>
    BY <2>1, LotsAre DEF IsLot
  <2>2a. PICK i \in 1..f[h] : x = <<h, i>>
    BY <2>2
  <2>3. h = k
    BY <2>1, <2>2a
  <2> QED
    BY <2>2a, <2>3
<1>6. IsFiniteSet(Lots(f)) /\ Sum(f) \in Nat
  BY SumType
<1>7. Cardinality(Lots(f) \cap L) = 0
  BY <1>5, FS_EmptySet
<1>8. Cardinality(Lots(f) \cup L) = Cardinality(Lots(f)) + Cardinality(L) - Cardinality(Lots(f) \cap L)
  BY <1>2, <1>6, FS_Union
<1> QED
  BY <1>1, <1>2, <1>4, <1>6, <1>7, <1>8 DEF Sum

\* Changing one attempt changes the sum by the difference.
LEMMA SumChanges ==
    ASSUME NEW D \in SUBSET (0..MaxAttempts), NEW f \in Counts(D), NEW g \in Counts(D),
           NEW k \in D, \A h \in D \ {k} : g[h] = f[h]
    PROVE  Sum(g) = Sum(f) + (g[k] - f[k])
<1>1. PICK z : z = [f EXCEPT ![k] = 0]
  OBVIOUS
<1>2. z \in Counts(D) /\ z[k] = 0 /\ \A h \in D \ {k} : z[h] = f[h] /\ z[h] = g[h]
  BY <1>1, SizesAssumption DEF Counts
<1>3. Sum(f) = Sum(z) + f[k] /\ Sum(g) = Sum(z) + g[k]
  <2>1. Sum(f) = Sum(z) + f[k]
    BY <1>2, SumAdds
  <2>2. Sum(g) = Sum(z) + g[k]
    BY <1>2, SumAdds
  <2> QED
    BY <2>1, <2>2
<1>4. Sum(z) \in Nat /\ f[k] \in Nat /\ g[k] \in Nat
  BY <1>2, SumType, SizesAssumption DEF Counts
<1> QED
  BY <1>3, <1>4

\* Nothing counted adds up to nothing.
LEMMA SumZero ==
    ASSUME NEW D, NEW f \in Counts(D), \A k \in D : f[k] = 0
    PROVE  Sum(f) = 0
<1>1. \A k \in D : ~\E i \in 1..f[k] : TRUE
  OBVIOUS
<1>2. \A x : x \notin Lots(f)
  BY <1>1, LotsAre DEF IsLot
<1>3. Lots(f) = {}
  BY <1>2
<1> QED
  BY <1>3, FS_EmptySet DEF Sum

(***************************************************************************)
(* The inductive invariant.                                                *)
(***************************************************************************)
EntryType == [st : {"PARTIALLY_FILLED", "CANCEL_REQUESTED", "FILLED", "CANCELLED", "CLOSED"},
              live : BOOLEAN, creq : BOOLEAN, bought : 0..Q]
PosType == [st : {"OPEN", "EXIT_PARTIALLY_FILLED", "CLOSED"}, qty : 0..Q, ids : BOOLEAN]
AttType == [st : AttemptState, req : 0..Q, filled : 0..Q, id : BOOLEAN, term : BOOLEAN]
OrderType == [st : {"none", "transit", "live", "canceled", "rejected", "filled"}, filled : 0..Q]
OcoType == [st : {"none", "live", "done", "cancelled"}, filled : 0..Q]
WkType == [pc : PCs, k : 0..MaxAttempts, j : 0..MaxAttempts, n : 0..Lookups,
           mode : Modes, ok : BOOLEAN, unres : BOOLEAN]

\* The worker is at no attempt, sends one, or looks at one.
Quiet == {"idle", "recover", "protective", "cancelEntry", "entryLane", "cleanups",
          "positions", "decide", "send", "unknown", "failed", "rejected", "acked", "finish"}
Sending == {"send", "unknown", "failed", "rejected", "acked"}
Looking == {"lookup", "fill", "settle", "cancelAtt", "cancelAcked"}

\* Position, entry and protective order: what is managed was bought, and what
\* is closed, cleaned up or reported FLAT was confirmed sold.
PosOK ==
    /\ pos.st = "CLOSED" <=> entry.st = "CLOSED"
    /\ pos.qty >= 1 /\ pos.qty <= entry.bought
    /\ oco.st = "live" => oco.filled < entry.bought
    /\ entry.live => entry.bought < Q
    /\ session = "FLAT" => ~Active
    /\ oco.st = "cancelled" => ~Active
    /\ \A k \in Attempts : att[k].st = "PROTECTION_CLEANUP_INCOMPLETE" => ~Active
    /\ ~Active => Confirmed >= pos.qty

\* An attempt and its exchange order: earlier attempts have ended, later ones do
\* not exist, and the booked, the recorded and the real fills follow each other
\* up to the quantity asked for (a row that could not be read records none).
OrderOK(k) ==
    /\ k < last => xo[k].st \notin {"transit", "live"}
    /\ k < last /\ faults = 0 => att[k].filled = xo[k].filled
    /\ k > last => att[k] = NoAttempt /\ xo[k].st = "none"
    /\ k <= last => att[k].req >= 1 /\ att[k].st # "NONE"
    /\ fills[k] <= xo[k].filled /\ att[k].filled <= xo[k].filled /\ xo[k].filled <= att[k].req
    /\ fills[k] <= att[k].filled \/ (att[k].filled = 0 /\ faults > 0)
    /\ xo[k].st \in {"none", "transit"} => xo[k].filled = 0
    /\ xo[k].st = "live" => xo[k].filled < att[k].req
    /\ att[k].st = "CANCELLED" => xo[k].st = "canceled" /\ att[k].filled = xo[k].filled
    /\ att[k].st = "REJECTED" =>
          xo[k].st \in {"none", "rejected"} /\ att[k].filled = xo[k].filled
    /\ att[k].st \in {"PREPARED", "FAILED"} => ~att[k].term
    /\ att[k].st = "FAILED" => faults > 0

OrdersOK == fills[0] <= oco.filled /\ \A k \in Attempts : OrderOK(k)

\* What the attempts can sell together: the latest all it asks for, the others
\* what they sold.  Without a fault that is never more than the position.
Plan == [k \in Attempts |-> IF k = last THEN att[k].req ELSE xo[k].filled]
PlanOK == faults = 0 => Sum(Plan) <= pos.qty

\* Where the worker w may be.
WorkerOK(w) ==
    /\ w.pc \in Sending => w.k = last /\ last >= 1 /\ att[last].st = "PREPARED" /\ Active
    /\ w.pc \in {"send", "rejected"} => xo[last].st = "none"
    /\ w.pc = "failed" => faults > 0
    /\ w.pc \in Looking => w.mode \in {"each", "lane", "risk", "other"}
    /\ w.pc \in Looking \cup {"close"} => w.j \in 1..last
    /\ w.pc \in {"cancelAtt", "cancelAcked"} => w.mode \in {"risk", "other"}
    /\ w.pc \in Quiet => w.mode = "none"
    /\ w.pc = "close" => w.mode \in {"none", "each", "lane"}
    /\ w.pc \in {"close", "cleanup", "cleaned"} \/ w.mode # "none" => w.k \in 1..last
    /\ w.mode \in {"none", "sweep"} => w.n = 0
    /\ w.pc = "close" \/ w.mode = "other" => Active /\ Confirmed >= pos.qty
    /\ w.pc = "entryLane" => entry.st = "CANCEL_REQUESTED"
    /\ w.pc \in {"cleanup", "cleaned"} => ~Active
    /\ w.pc = "cleaned" /\ w.ok /\ Undisturbed => oco.st # "live"

\* Without a fault every recorded fill is booked, except between the two
\* commits of a reconcile.
BookedOK(w) ==
    faults = 0 => \A k \in Attempts : fills[k] = att[k].filled \/ (w.pc = "fill" /\ w.j = k)

\* Undisturbed, the protective order of a sold position still has somebody to
\* cancel it: the worker on its way to the clean-up, or an attempt that has
\* not ended.
Closing(w) == w.pc \in {"fill", "settle", "close", "cleanup", "cleaned"} \/ w.mode = "other"
CleanupAhead(w) ==
    Undisturbed /\ oco.st = "live" =>
        /\ Confirmed >= pos.qty => Closing(w) \/ \E k \in Attempts : att[k].st \notin EndedAttempt
        /\ ~Active /\ w.pc \in Looking =>
              \E k \in Attempts : att[k].st = "PROTECTION_CLEANUP_INCOMPLETE"
\* Undisturbed, no attempt is cancelled for an oversell risk, and FLAT leaves no
\* protective order.
NoRisk(w) == Undisturbed => w.mode # "risk"
FlatProtection == Undisturbed /\ session = "FLAT" => oco.st # "live"

\* The inductive invariant.
IInv ==
    /\ TypeOK /\ PosOK /\ OrdersOK /\ PlanOK
    /\ WorkerOK(wk) /\ BookedOK(wk) /\ CleanupAhead(wk) /\ NoRisk(wk) /\ FlatProtection

(***************************************************************************)
(* Consequences of the invariant in one state.                             *)
(***************************************************************************)
XoCounts == [k \in Attempts |-> xo[k].filled]

\* The constants.
LEMMA Sizes ==
    /\ Q \in Nat /\ Q >= 1 /\ MaxAttempts \in Nat /\ MaxAttempts >= 1
    /\ Lookups \in Nat /\ Lookups >= 1 /\ MaxFaults \in Nat
    /\ Attempts \in SUBSET (0..MaxAttempts)
    /\ (0..MaxAttempts) \in SUBSET (0..MaxAttempts)
  BY SizesAssumption DEF Attempts

\* The functions that are summed have their types.
LEMMA CountTypes ==
    ASSUME TypeOK
    PROVE  /\ fills \in Counts(0..MaxAttempts)
           /\ Plan \in Counts(Attempts)
           /\ XoCounts \in Counts(Attempts)
           /\ Confirmed \in Nat /\ Sum(Plan) \in Nat /\ Sum(XoCounts) \in Nat
<1>1. /\ fills \in Counts(0..MaxAttempts)
      /\ Plan \in Counts(Attempts)
      /\ XoCounts \in Counts(Attempts)
  BY DEF TypeOK, Counts, Plan, XoCounts
<1> QED
  BY <1>1, Sizes, SumType DEF Confirmed

\* What the attempts sold is at most what they can sell.
LEMMA SoldWithinPlan ==
    ASSUME TypeOK, OrdersOK
    PROVE  Sum(XoCounts) <= Sum(Plan)
<1>1. \A k \in Attempts : XoCounts[k] <= Plan[k]
  <2>1. \A k \in Attempts : xo[k].filled <= att[k].req /\ xo[k].filled \in 0..Q
    BY DEF OrdersOK, OrderOK, TypeOK
  <2> QED
    BY <2>1, Sizes DEF XoCounts, Plan
<1> QED
  BY <1>1, CountTypes, Sizes, SumGrows

\* The plan over the ledger's keys: nothing from the protective order.
WidePlan == [k \in 0..MaxAttempts |-> IF k = 0 THEN 0 ELSE Plan[k]]

\* It adds up to what the attempts can sell.
LEMMA WidePlanSum ==
    ASSUME TypeOK
    PROVE  /\ WidePlan \in Counts(0..MaxAttempts) /\ WidePlan[0] = 0
           /\ \A k \in Attempts : WidePlan[k] = Plan[k]
           /\ Sum(WidePlan) = Sum(Plan)
<1>1. \A k \in Attempts : Plan[k] \in 0..Q
  BY CountTypes DEF Counts
<1>2. /\ WidePlan \in Counts(0..MaxAttempts) /\ WidePlan[0] = 0
      /\ \A k \in Attempts : WidePlan[k] = Plan[k]
  BY <1>1, Sizes DEF Counts, Attempts, WidePlan
<1>3. ASSUME NEW x PROVE IsLot(WidePlan, 0..MaxAttempts, x) <=> IsLot(Plan, Attempts, x)
  <2>1. \A k \in 0..MaxAttempts : k = 0 \/ k \in Attempts
    BY Sizes DEF Attempts
  <2>2. ~\E i \in 1..WidePlan[0] : TRUE
    BY <1>2
  <2>3. \A k \in Attempts : k \in 0..MaxAttempts
    BY Sizes
  <2> QED
    BY <1>2, <2>1, <2>2, <2>3 DEF IsLot
<1>4. \A x : x \in Lots(WidePlan) <=> IsLot(WidePlan, 0..MaxAttempts, x)
  BY <1>2, LotsAre
<1>5. \A x : x \in Lots(Plan) <=> IsLot(Plan, Attempts, x)
  BY CountTypes, LotsAre
<1>6. Lots(WidePlan) = Lots(Plan)
  BY <1>3, <1>4, <1>5
<1> QED
  BY <1>2, <1>6 DEF Sum

\* What is booked is at most what the attempts can sell, by key.
LEMMA BookedWithinPlan ==
    ASSUME TypeOK, OrdersOK, Undisturbed
    PROVE  \A k \in 0..MaxAttempts : fills[k] <= WidePlan[k]
<1>1. /\ last \in 0..MaxAttempts
      /\ \A k \in 0..MaxAttempts : fills[k] \in 0..Q
      /\ \A k \in Attempts : /\ att[k].req \in 0..Q /\ att[k].filled \in 0..Q
                             /\ xo[k].filled \in 0..Q
                             /\ Plan[k] = IF k = last THEN att[k].req ELSE xo[k].filled
      /\ oco.filled = 0 /\ fills[0] <= oco.filled
  BY Sizes DEF TypeOK, Undisturbed, OrdersOK, Plan
<1>2. \A k \in Attempts : /\ fills[k] <= att[k].filled /\ att[k].filled <= xo[k].filled
                          /\ xo[k].filled <= att[k].req
  BY Sizes DEF OrdersOK, OrderOK, Undisturbed
<1>3. ASSUME NEW k \in Attempts PROVE fills[k] <= Plan[k]
  <2>1. PICK a, b, c, d : a = fills[k] /\ b = att[k].filled /\ c = xo[k].filled /\ d = att[k].req
    OBVIOUS
  <2>2. /\ a \in 0..Q /\ b \in 0..Q /\ c \in 0..Q /\ d \in 0..Q
        /\ a <= b /\ b <= c /\ c <= d
    BY <1>1, <1>2, <2>1, Sizes
  <2>3. a <= c /\ a <= d
    BY <2>2, Sizes
  <2>4. Plan[k] \in {c, d}
    BY <1>1, <2>1
  <2> QED
    BY <2>1, <2>3, <2>4
<1>4. ASSUME NEW k \in 0..MaxAttempts PROVE fills[k] <= WidePlan[k]
  <2>1. CASE k = 0
    BY <1>1, <2>1, WidePlanSum
  <2>2. CASE k # 0
    BY <1>3, <2>2, WidePlanSum, Sizes DEF Attempts
  <2> QED
    BY <2>1, <2>2
<1> QED
  BY <1>4

\* Undisturbed, a position that is confirmed sold has its latest attempt
\* completely filled and booked.
LEMMA SoldOut ==
    ASSUME TypeOK, PosOK, OrdersOK, PlanOK, Undisturbed, Confirmed >= pos.qty
    PROVE  /\ last >= 1 /\ last \in Attempts
           /\ fills[last] = att[last].req /\ att[last].filled = att[last].req
           /\ xo[last].filled = att[last].req
<1>1. /\ last \in 0..MaxAttempts
      /\ \A k \in Attempts : /\ att[k].req \in 0..Q /\ att[k].filled \in 0..Q
                             /\ xo[k].filled \in 0..Q
                             /\ Plan[k] = IF k = last THEN att[k].req ELSE xo[k].filled
      /\ pos.qty \in 0..Q /\ pos.qty >= 1 /\ faults = 0
  BY Sizes DEF TypeOK, Undisturbed, PosOK, Plan
<1>2. Sum(WidePlan) <= Confirmed
  <2>1. Sum(Plan) \in Nat /\ Confirmed \in Nat /\ Sum(Plan) <= pos.qty
    BY <1>1, CountTypes DEF PlanOK
  <2> QED
    BY <1>1, <2>1, WidePlanSum
<1>3. \A k \in 0..MaxAttempts : fills[k] = WidePlan[k]
  BY <1>2, BookedWithinPlan, WidePlanSum, CountTypes, Sizes, SumGrows DEF Confirmed
<1>4. last >= 1 /\ last \in Attempts
  <2>1. SUFFICES ASSUME last = 0 PROVE FALSE
    BY <1>1, Sizes DEF Attempts
  <2>2. \A k \in Attempts : k > last
    BY <2>1, Sizes DEF Attempts
  <2>3. \A k \in Attempts : xo[k].filled = 0 /\ k # last
    BY <2>1, <2>2, Sizes DEF OrdersOK, OrderOK, Attempts
  <2>4. \A k \in 0..MaxAttempts : fills[k] = 0
    BY <1>1, <1>3, <2>3, WidePlanSum, Sizes DEF Attempts
  <2>5. Confirmed = 0
    BY <2>4, CountTypes, SumZero DEF Confirmed
  <2> QED
    BY <1>1, <2>5
<1>5. fills[last] = att[last].req
  BY <1>1, <1>3, <1>4, WidePlanSum, Sizes
<1>6. /\ fills[last] <= att[last].filled /\ att[last].filled <= xo[last].filled
      /\ xo[last].filled <= att[last].req
  BY <1>1, <1>4 DEF OrdersOK, OrderOK
<1> QED
  BY <1>1, <1>4, <1>5, <1>6, Sizes

\* Undisturbed and booked, the latest attempt cannot sell too much.
LEMMA RiskFree ==
    ASSUME TypeOK, PosOK, OrdersOK, PlanOK, BookedOK(wk), At("decide"), Undisturbed
    PROVE  ~OversellRisk
<1>1. CASE last = 0
  BY <1>1 DEF OversellRisk, Latest, NoAttempt, NotWorking, EndedAttempt
<1>2. CASE last # 0
  <2>1. last \in Attempts /\ last \in 0..MaxAttempts /\ Latest = att[last] /\ faults = 0
    BY <1>2, Sizes DEF TypeOK, Attempts, Latest, Undisturbed
  <2>2. fills[last] = att[last].filled /\ att[last].req \in 0..Q /\ att[last].filled \in 0..Q
    BY <2>1 DEF BookedOK, At, TypeOK
  <2>3. PICK h : h = [fills EXCEPT ![last] = att[last].req]
    OBVIOUS
  <2>4. /\ h \in Counts(0..MaxAttempts) /\ h[last] = att[last].req
        /\ \A k \in (0..MaxAttempts) \ {last} : h[k] = fills[k]
    BY <2>1, <2>2, <2>3, CountTypes DEF Counts
  <2>5. Sum(h) = Confirmed + (att[last].req - att[last].filled)
    <3>1. fills \in Counts(0..MaxAttempts)
      BY CountTypes
    <3>2. Sum(h) = Sum(fills) + (h[last] - fills[last])
      BY <2>1, <2>4, <3>1, SumChanges
    <3> QED
      BY <2>2, <2>4, <3>2 DEF Confirmed
  <2>6. \A k \in 0..MaxAttempts : h[k] <= WidePlan[k]
    <3>1. h[last] <= WidePlan[last]
      <4>1. WidePlan[last] = att[last].req
        BY <2>1, WidePlanSum DEF Plan
      <4> QED
        BY <2>2, <2>4, <4>1, Sizes
    <3> QED
      BY <2>4, <3>1, BookedWithinPlan
  <2>7. Sum(h) <= Sum(Plan)
    BY <2>4, <2>6, WidePlanSum, Sizes, SumGrows
  <2>8. Sum(Plan) <= pos.qty /\ Sum(Plan) \in Nat /\ Confirmed \in Nat /\ pos.qty \in 0..Q
    BY <2>1, CountTypes DEF PlanOK, TypeOK
  <2> QED
    BY <2>1, <2>2, <2>5, <2>7, <2>8, Sizes DEF OversellRisk
<1> QED
  BY <1>1, <1>2

(***************************************************************************)
(* The initial states.                                                     *)
(***************************************************************************)
LEMMA InitHolds == Init => IInv
<1> SUFFICES ASSUME Init PROVE IInv
  OBVIOUS
<1>1. PICK b \in (Q - MaxWorking)..Q :
          /\ entry = [st |-> IF b = Q THEN "FILLED" ELSE "PARTIALLY_FILLED",
                      live |-> b < Q, creq |-> FALSE, bought |-> b]
          /\ pos = [st |-> "OPEN", qty |-> b, ids |-> oco.st = "live"]
  BY DEF Init
<1>2. b \in 1..Q
  BY SizesAssumption
<1>3. /\ Q \in Nat /\ MaxAttempts \in Nat /\ MaxFaults \in Nat /\ Lookups \in Nat
      /\ 0 \in 0..Q /\ 0 \in 0..MaxAttempts /\ 0 \in 0..Lookups /\ 0 \in 0..MaxFaults /\ b \in 0..Q
  BY <1>2, Sizes
<1>4. TypeOK
  <2>1. entry \in EntryType /\ pos \in PosType
    BY <1>1, <1>3 DEF EntryType, PosType
  <2>2. NoAttempt \in AttType /\ Idle \in WkType
    BY <1>3 DEF NoAttempt, AttType, AttemptState, Idle, WkType, PCs, Modes
  <2>3. oco \in OcoType
    BY <1>3 DEF Init, OcoType
  <2>4. /\ att \in [Attempts -> AttType]
        /\ xo \in [Attempts -> OrderType]
        /\ fills \in [0..MaxAttempts -> 0..Q]
    BY <1>3, <2>2 DEF Init, OrderType
  <2> QED
    BY <1>3, <2>1, <2>2, <2>3, <2>4
    DEF TypeOK, Init, EntryType, PosType, AttType, OcoType, OrderType, WkType
<1>5. PosOK
  <2>1. \A k \in Attempts : att[k].st # "PROTECTION_CLEANUP_INCOMPLETE"
    BY DEF Init, NoAttempt
  <2>2. oco.st # "cancelled" /\ oco.filled = 0
    BY DEF Init
  <2>3. /\ entry.st # "CLOSED" /\ pos.st # "CLOSED" /\ entry.bought = b /\ pos.qty = b
        /\ session = "FLATTENING"
    BY <1>1 DEF Init
  <2>4. entry.live => b < Q
    BY <1>1
  <2>5. b >= 1 /\ b <= b /\ 0 < b
    BY <1>2
  <2> QED
    BY <2>1, <2>2, <2>3, <2>4, <2>5 DEF PosOK, Active
<1>6. OrdersOK
  <2>1. ASSUME NEW k \in Attempts PROVE OrderOK(k)
    <3>1. att[k] = NoAttempt /\ xo[k] = [st |-> "none", filled |-> 0] /\ k > last /\ fills[k] = 0
      BY Sizes DEF Init, Attempts
    <3> QED
      BY <3>1, Sizes DEF OrderOK, NoAttempt, Attempts, Init
  <2>2. fills[0] = 0 /\ oco.filled = 0
    BY <1>3 DEF Init
  <2> QED
    BY <2>1, <2>2 DEF OrdersOK
<1>7. PlanOK
  <2>1. \A k \in Attempts : Plan[k] = 0
    BY DEF Init, Plan, NoAttempt
  <2>2. Sum(Plan) = 0
    BY <1>4, <2>1, CountTypes, SumZero
  <2> QED
    BY <1>1, <1>2, <1>3, <2>2 DEF PlanOK
<1>8. WorkerOK(wk) /\ NoRisk(wk) /\ FlatProtection
  BY DEF Init, Idle, WorkerOK, NoRisk, FlatProtection, Sending, Looking, Quiet
<1>9. BookedOK(wk)
  <2>1. \A k \in Attempts : fills[k] = 0 /\ att[k].filled = 0
    BY Sizes DEF Init, NoAttempt
  <2> QED
    BY <2>1 DEF BookedOK
<1>10. CleanupAhead(wk)
  <2>1. Confirmed = 0
    <3>1. \A k \in 0..MaxAttempts : fills[k] = 0
      BY DEF Init
    <3> QED
      BY <1>4, <3>1, CountTypes, SumZero DEF Confirmed
  <2> QED
    BY <1>1, <1>2, <2>1 DEF CleanupAhead, Init, Idle, Looking
<1> QED
  BY <1>4, <1>5, <1>6, <1>7, <1>8, <1>9, <1>10 DEF IInv

(***************************************************************************)
(* Where the worker goes.                                                  *)
(***************************************************************************)
\* A worker between attempts.
Rests(r) == r \in WkType /\ r.mode = "none" /\ r.n = 0

\* From attempt k on, every attempt is looked at, then the decision is made.
LEMMA EachFromFacts ==
    ASSUME wk \in WkType, last \in 0..MaxAttempts, NEW k \in 1..(last + 1)
    PROVE  \/ Rests(EachFrom(k)) /\ EachFrom(k).pc = "decide"
           \/ /\ EachFrom(k) \in WkType /\ EachFrom(k).pc = "lookup" /\ EachFrom(k).mode = "each"
              /\ EachFrom(k).j = k /\ EachFrom(k).k = k /\ k \in 1..last
<1>1. 0 \in 0..MaxAttempts /\ 0 \in 0..Lookups
  BY Sizes
<1>2. CASE k > last
  BY <1>1, <1>2 DEF EachFrom, Rests, WkType, PCs, Modes
<1>3. CASE ~(k > last)
  <2>1. k \in 1..last /\ k \in 0..MaxAttempts
    BY <1>3, Sizes
  <2> QED
    BY <1>1, <1>3, <2>1 DEF EachFrom, WkType, PCs, Modes
<1> QED
  BY <1>2, <1>3

\* A flatten that goes to its end.
LEMMA FinishedFacts ==
    ASSUME wk \in WkType
    PROVE  Rests(Finished) /\ Finished.pc = "finish" /\ Finished.unres = wk.unres
<1>1. 0 \in 0..MaxAttempts /\ 0 \in 0..Lookups
  BY Sizes
<1> QED
  BY <1>1 DEF Finished, Rests, WkType, PCs, Modes

\* A lookup loop that starts.
LEMMA LaneOnFacts ==
    ASSUME wk \in WkType, NEW k \in 0..MaxAttempts, NEW mode \in Modes
    PROVE  /\ LaneOn(k, mode) \in WkType /\ LaneOn(k, mode).pc = "lookup"
           /\ LaneOn(k, mode).mode = mode /\ LaneOn(k, mode).j = k
           /\ LaneOn(k, mode).k = IF mode = "other" THEN wk.k ELSE k
<1>1. Lookups \in 0..Lookups
  BY Sizes
<1> QED
  BY <1>1 DEF LaneOn, WkType, PCs, Modes

\* Where a reconcile that returned st leaves the worker.
Back(r, st) ==
    /\ r \in WkType
    /\ \/ /\ Rests(r) /\ r.pc \in {"decide", "positions", "finish"}
          /\ wk.mode = "other" => st \notin Terminal
       \/ /\ r.pc = "lookup" /\ r.mode = "each" /\ r.j \in 1..last /\ r.k \in 1..last
          /\ wk.mode = "other" => st \notin Terminal
       \/ /\ r.pc = "lookup" /\ r.mode = wk.mode /\ r.mode \in {"lane", "risk", "other"}
          /\ r.j = wk.j /\ r.k = wk.k
          /\ st \notin Terminal \cup {"PROTECTION_CLEANUP_INCOMPLETE"}
       \/ /\ r.pc = "close" /\ wk.mode = "other" /\ r.mode = "each"
          /\ r.k = wk.k /\ r.j = wk.k

\* Where Returned puts the worker.
LEMMA ReturnedFacts ==
    ASSUME wk \in WkType, last \in 0..MaxAttempts, NEW st,
           wk.mode # "none" => wk.k \in 1..last,
           wk.mode \in {"none", "sweep"} => wk.n = 0
    PROVE  Back(Returned(st), st)
<1>0. 0 \in 0..MaxAttempts /\ 0 \in 0..Lookups /\ MaxAttempts \in Nat /\ Lookups \in Nat
  BY Sizes
<1>t. /\ wk.mode \in Modes /\ wk.n \in 0..Lookups /\ wk.k \in 0..MaxAttempts
      /\ wk.j \in 0..MaxAttempts
  BY DEF WkType
<1>n. ASSUME wk.mode \in {"each", "other"}
      PROVE  \/ Rests(EachFrom(wk.k + 1)) /\ EachFrom(wk.k + 1).pc = "decide"
             \/ /\ EachFrom(wk.k + 1) \in WkType /\ EachFrom(wk.k + 1).pc = "lookup"
                /\ EachFrom(wk.k + 1).mode = "each"
                /\ EachFrom(wk.k + 1).j \in 1..last /\ EachFrom(wk.k + 1).k \in 1..last
  <2>1. PICK k \in 1..(last + 1) : k = wk.k + 1
    BY <1>n, <1>0
  <2> QED
    BY <2>1, EachFromFacts
<1>1. CASE wk.mode = "each"
  <2>1. Returned(st) = EachFrom(wk.k + 1)
    BY <1>1 DEF Returned
  <2>2. PICK r : r = Returned(st)
    OBVIOUS
  <2>3. \/ Rests(r) /\ r.pc = "decide"
        \/ /\ r \in WkType /\ r.pc = "lookup" /\ r.mode = "each"
           /\ r.j \in 1..last /\ r.k \in 1..last
    BY <1>1, <1>n, <2>1, <2>2
  <2> QED
    BY <1>1, <2>2, <2>3 DEF Back, Rests
<1>2. CASE wk.mode = "sweep"
  BY <1>0, <1>2 DEF Returned, Back, Rests, WkType, PCs, Modes
<1>3. CASE wk.mode \notin {"each", "sweep"} /\ st \notin Terminal \cup {"PROTECTION_CLEANUP_INCOMPLETE"} /\ wk.n > 1
  <2>1. PICK m \in 0..Lookups : m = wk.n - 1
    BY <1>0, <1>t, <1>3
  <2>2. Returned(st) = [wk EXCEPT !.pc = "lookup", !.n = m]
    BY <1>3, <2>1 DEF Returned
  <2>3. wk.mode \in {"lane", "risk", "other"}
    BY <1>t, <1>3 DEF Modes
  <2> QED
    BY <1>3, <2>2, <2>3 DEF Back, WkType, PCs
<1>4. CASE /\ wk.mode = "other"
           /\ ~(st \notin Terminal \cup {"PROTECTION_CLEANUP_INCOMPLETE"} /\ wk.n > 1)
  <2>1. CASE st \in Terminal
    <3>1. Returned(st) = [wk EXCEPT !.pc = "close", !.mode = "each", !.j = wk.k, !.n = 0]
      BY <1>4, <2>1 DEF Returned
    <3> QED
      BY <1>0, <1>t, <1>4, <3>1 DEF Back, WkType, PCs, Modes
  <2>2. CASE st \notin Terminal
    <3>1. PICK r : r = Returned(st)
      OBVIOUS
    <3>2. r = EachFrom(wk.k + 1)
      BY <1>4, <2>2, <3>1 DEF Returned
    <3>3. \/ Rests(r) /\ r.pc = "decide"
          \/ /\ r \in WkType /\ r.pc = "lookup" /\ r.mode = "each"
             /\ r.j \in 1..last /\ r.k \in 1..last
      BY <1>4, <1>n, <3>2
    <3> QED
      BY <2>2, <3>1, <3>3 DEF Back, Rests
  <2> QED
    BY <2>1, <2>2
<1>5. CASE /\ wk.mode \notin {"each", "sweep", "other"}
           /\ ~(st \notin Terminal \cup {"PROTECTION_CLEANUP_INCOMPLETE"} /\ wk.n > 1)
  <2>1. Returned(st) = Finished
    BY <1>5 DEF Returned
  <2> QED
    BY <1>5, <2>1, FinishedFacts DEF Back, Rests
<1> QED
  BY <1>1, <1>2, <1>3, <1>4, <1>5

(***************************************************************************)
(* Steps that move only the worker.                                        *)
(***************************************************************************)
LEMMA TypesAre ==
    TypeOK <=>
      /\ session \in {"FLATTENING", "FLAT", "DEGRADED"}
      /\ entry \in EntryType /\ pos \in PosType /\ att \in [Attempts -> AttType]
      /\ last \in 0..MaxAttempts /\ fills \in [0..MaxAttempts -> 0..Q]
      /\ xo \in [Attempts -> OrderType] /\ oco \in OcoType
      /\ wk \in WkType /\ faults \in 0..MaxFaults
  BY DEF TypeOK, EntryType, PosType, AttType, OrderType, OcoType, WkType

\* TypeOK of the next state, by variable.
LEMMA TypesNext ==
    TypeOK' <=>
      /\ session' \in {"FLATTENING", "FLAT", "DEGRADED"}
      /\ entry' \in EntryType /\ pos' \in PosType /\ att' \in [Attempts -> AttType]
      /\ last' \in 0..MaxAttempts /\ fills' \in [0..MaxAttempts -> 0..Q]
      /\ xo' \in [Attempts -> OrderType] /\ oco' \in OcoType
      /\ wk' \in WkType /\ faults' \in 0..MaxFaults
  BY DEF TypeOK, EntryType, PosType, AttType, OrderType, OcoType, WkType

\* All but the session and the worker.
Ledger == <<entry, pos, att, last, fills, xo, oco, faults>>

\* The session may be reported FLAT.
MayBeFlat == ~Active /\ (Undisturbed => oco.st # "live")

\* Nothing but the worker moves, except that the position may be marked as
\* partly exited.
Kept ==
    /\ UNCHANGED <<entry, att, last, fills, xo, oco, faults>>
    /\ pos' \in PosType /\ pos'.qty = pos.qty /\ (Active' <=> Active)

\* A step of the worker alone.
LEMMA LedgerKept == ASSUME IInv, UNCHANGED Ledger PROVE Kept
  BY TypesAre DEF IInv, Ledger, Kept, Active

\* The worker moves to where it may be.
LEMMA WorkerMoves ==
    ASSUME IInv, Kept \/ UNCHANGED Ledger,
           wk' \in WkType, WorkerOK(wk'), BookedOK(wk'), CleanupAhead(wk'), NoRisk(wk'),
           session' \in {"FLATTENING", "FLAT", "DEGRADED"},
           session' = "FLAT" => session = "FLAT" \/ MayBeFlat
    PROVE  IInv'
<1>0. Kept
  BY LedgerKept
<1>0a. /\ entry' = entry /\ att' = att /\ last' = last /\ fills' = fills /\ xo' = xo
       /\ oco' = oco /\ faults' = faults
       /\ pos'.qty = pos.qty /\ (Active' <=> Active) /\ Confirmed' = Confirmed
       /\ (Undisturbed' <=> Undisturbed)
  BY <1>0 DEF Kept, Confirmed, Undisturbed
<1>1. TypeOK'
  BY <1>0, TypesAre, TypesNext DEF IInv, Kept
<1>2. PosOK' /\ FlatProtection'
  <2>1. Active' <=> pos'.st # "CLOSED"
    BY DEF Active
  <2>2. Active <=> pos.st # "CLOSED"
    BY DEF Active
  <2>3. PosOK'
    <3>1. /\ pos'.st = "CLOSED" <=> entry'.st = "CLOSED"
          /\ pos'.qty >= 1 /\ pos'.qty <= entry'.bought
          /\ oco'.st = "live" => oco'.filled < entry'.bought
          /\ entry'.live => entry'.bought < Q
      BY <1>0a, <2>1, <2>2 DEF IInv, PosOK
    <3>2. /\ session' = "FLAT" => ~Active'
          /\ oco'.st = "cancelled" => ~Active'
          /\ \A k \in Attempts : att'[k].st = "PROTECTION_CLEANUP_INCOMPLETE" => ~Active'
          /\ ~Active' => Confirmed' >= pos'.qty
      BY <1>0a DEF IInv, PosOK, MayBeFlat
    <3> QED
      BY <3>1, <3>2 DEF PosOK
  <2>4. FlatProtection'
    BY <1>0a DEF IInv, FlatProtection, MayBeFlat
  <2> QED
    BY <2>3, <2>4
<1>3. OrdersOK'
  BY <1>0a DEF IInv, OrdersOK, OrderOK
<1>4. PlanOK'
  BY <1>0a DEF IInv, PlanOK, Plan
<1>5. WorkerOK(wk)'
  BY <1>0a DEF WorkerOK
<1>6. BookedOK(wk)' /\ NoRisk(wk)'
  BY <1>0a DEF BookedOK, NoRisk
<1>7. CleanupAhead(wk)'
  BY <1>0a DEF CleanupAhead, Closing
<1> QED
  BY <1>1, <1>2, <1>3, <1>4, <1>5, <1>6, <1>7 DEF IInv

\* A worker that rests owes nothing: only one that was not closing, or one
\* that leaves an attempt that has not ended, may rest.
Resting == {"idle", "recover", "protective", "cancelEntry", "cleanups", "positions",
            "decide", "finish"}
\* The worker moves on without an attempt in hand.
LEMMA RestMoves ==
    ASSUME IInv, UNCHANGED Ledger, Rests(wk'), wk'.pc \in Resting, wk.pc # "fill",
           Closing(wk) => Confirmed < pos.qty \/ \E k \in Attempts : att[k].st \notin EndedAttempt,
           session' \in {"FLATTENING", "FLAT", "DEGRADED"},
           session' = "FLAT" => session = "FLAT" \/ MayBeFlat
    PROVE  IInv'
<1>1. WorkerOK(wk') /\ NoRisk(wk')
  BY DEF Rests, Resting, WorkerOK, NoRisk, Sending, Looking, Quiet
<1>2. BookedOK(wk')
  BY DEF IInv, BookedOK
<1>3. CleanupAhead(wk')
  <2>1. Confirmed \in Nat /\ pos.qty \in Nat
    BY CountTypes, Sizes DEF IInv, TypeOK
  <2> QED
    BY <2>1 DEF IInv, CleanupAhead, Resting, Looking
<1> QED
  BY <1>1, <1>2, <1>3, WorkerMoves DEF Rests

\* A worker that goes back from a reconcile is where it may be.
LEMMA BackWorker ==
    ASSUME IInv, NEW st, Back(wk', st), last' = last,
           wk.mode = "other" => Active' /\ (Confirmed >= pos.qty)',
           wk.mode # "none" => wk.k \in 1..last,
           wk'.pc = "lookup" /\ wk'.mode # "each" => wk.j \in 1..last
    PROVE  WorkerOK(wk)'
<1>1. wk' \in WkType /\ wk'.mode \in Modes
  BY DEF Back, WkType
<1>2. CASE Rests(wk') /\ wk'.pc \in {"decide", "positions", "finish"}
  BY <1>2 DEF Rests, WorkerOK, Sending, Looking, Quiet
<1>3. CASE wk'.pc = "lookup" /\ wk'.mode = "each" /\ wk'.j \in 1..last /\ wk'.k \in 1..last
  BY <1>3 DEF WorkerOK, Sending, Looking, Quiet
<1>4. CASE /\ wk'.pc = "lookup" /\ wk'.mode = wk.mode /\ wk'.mode \in {"lane", "risk", "other"}
           /\ wk'.j = wk.j /\ wk'.k = wk.k
  BY <1>4 DEF WorkerOK, Sending, Looking, Quiet
<1>5. CASE /\ wk'.pc = "close" /\ wk.mode = "other" /\ wk'.mode = "each"
           /\ wk'.k = wk.k /\ wk'.j = wk.k
  BY <1>5 DEF WorkerOK, Sending, Looking, Quiet
<1> QED
  BY <1>2, <1>3, <1>4, <1>5 DEF Back

\* An attempt that exists and has not reached a terminal state has not ended,
\* unless a fault made it fail.
LEMMA NotTerminal ==
    ASSUME IInv, Undisturbed, NEW k \in 1..last, att[k].st \notin Terminal
    PROVE  k \in Attempts /\ att[k].st \notin EndedAttempt
<1>1. k \in Attempts /\ k <= last
  BY Sizes DEF IInv, TypeOK, Attempts
<1>2. att[k].st # "NONE" /\ att[k].st # "FAILED"
  <2>1. OrderOK(k) /\ faults = 0
    BY <1>1 DEF IInv, OrdersOK, Undisturbed
  <2> QED
    BY <1>1, <2>1 DEF OrderOK
<1> QED
  BY <1>1, <1>2 DEF EndedAttempt, Terminal

\* A step back from a reconcile of attempt wk.j that changed nothing.
LEMMA BackMoves ==
    ASSUME IInv, Kept \/ UNCHANGED Ledger, session' = session, wk.pc # "fill",
           wk.pc \in Looking, NEW st, Back(wk', st), wk.mode = "other" => st = att[wk.j].st,
           wk.pc = "settle" /\ wk.mode # "other" => ~Active \/ Confirmed < pos.qty
                                                   \/ wk.mode = "risk"
    PROVE  IInv'
<1>0. /\ WorkerOK(wk) /\ wk.j \in 1..last /\ wk.mode \in {"each", "lane", "risk", "other"}
      /\ wk.k \in 1..last
  BY DEF IInv, WorkerOK, Looking
<1>0a. /\ wk.mode = "other" => Active /\ Confirmed >= pos.qty
       /\ wk.mode # "none" => wk.k \in 1..last
  BY <1>0 DEF WorkerOK
<1>0b. /\ last' = last /\ pos'.qty = pos.qty /\ (Active' <=> Active) /\ Confirmed' = Confirmed
       /\ att' = att /\ xo' = xo /\ oco' = oco /\ faults' = faults /\ entry' = entry
  BY LedgerKept DEF Kept, Confirmed
<1>1. WorkerOK(wk)'
  <2>1. last' = last /\ (wk.mode = "other" => Active' /\ (Confirmed >= pos.qty)')
    BY <1>0a, <1>0b
  <2> QED
    BY <1>0, <2>1, BackWorker
<1>2. WorkerOK(wk')
  <2>1. Undisturbed' <=> Undisturbed
    BY <1>0b DEF Undisturbed
  <2> QED
    BY <1>0b, <1>1, <2>1 DEF WorkerOK
<1>3. NoRisk(wk') /\ wk' \in WkType
  BY DEF IInv, NoRisk, Back, Rests
<1>4. BookedOK(wk')
  BY DEF IInv, BookedOK
<1>5. CleanupAhead(wk')
  <2> SUFFICES ASSUME Undisturbed, oco.st = "live" PROVE CleanupAhead(wk')
    BY DEF CleanupAhead
  <2>0. Confirmed \in Nat /\ pos.qty \in Nat
    BY CountTypes, Sizes DEF IInv, TypeOK
  <2>1. ASSUME Confirmed >= pos.qty
        PROVE  Closing(wk') \/ \E k \in Attempts : att[k].st \notin EndedAttempt
    <3>1. CASE wk.mode = "other"
      <4>1. CASE att[wk.j].st \notin Terminal
        BY <1>0, <4>1, NotTerminal
      <4>2. CASE att[wk.j].st \in Terminal
        BY <3>1, <4>2 DEF Back, Closing
      <4> QED
        BY <4>1, <4>2
    <3>2. CASE wk.mode # "other"
      <4>1. CASE wk.pc = "settle"
        <5>1. ~Active
          BY <2>0, <2>1, <3>2, <4>1 DEF IInv, NoRisk
        <5>2. \E k \in Attempts : att[k].st = "PROTECTION_CLEANUP_INCOMPLETE"
          BY <4>1, <5>1 DEF IInv, CleanupAhead, Looking
        <5> QED
          BY <5>2 DEF EndedAttempt
      <4>2. CASE wk.pc # "settle"
        BY <2>1, <3>2, <4>2 DEF IInv, CleanupAhead, Closing, Looking
      <4> QED
        BY <4>1, <4>2
    <3> QED
      BY <3>1, <3>2
  <2>2. ASSUME ~Active
        PROVE  \E k \in Attempts : att[k].st = "PROTECTION_CLEANUP_INCOMPLETE"
    BY <2>2 DEF IInv, CleanupAhead
  <2> QED
    BY <2>1, <2>2 DEF CleanupAhead
<1> QED
  BY <1>2, <1>3, <1>4, <1>5, WorkerMoves, TypesAre DEF IInv

\* A new round, or a new FLATTEN.
LEMMA TickHolds == ASSUME IInv, Tick \/ FlattenAgain PROVE IInv'
<1>1. UNCHANGED Ledger /\ wk.pc = "idle" /\ wk' = [Idle EXCEPT !.pc = "recover"]
  BY DEF Tick, FlattenAgain, Ledger, At, Go
<1>2. session' \in {session, "FLATTENING"}
  BY DEF Tick, FlattenAgain
<1>3. Rests(wk') /\ wk'.pc = "recover"
  <2>1. 0 \in 0..MaxAttempts /\ 0 \in 0..Lookups
    BY Sizes
  <2> QED
    BY <1>1, <2>1 DEF Idle, Rests, WkType, PCs, Modes
<1>4. ~Closing(wk)
  BY <1>1 DEF IInv, WorkerOK, Quiet, Closing
<1> QED
  BY <1>1, <1>2, <1>3, <1>4, RestMoves, TypesAre DEF IInv, Resting

\* The idle worker has no attempt in hand.
LEMMA IdleRests == Rests(Idle) /\ Idle.pc = "idle"
<1>1. 0 \in 0..MaxAttempts /\ 0 \in 0..Lookups
  BY Sizes
<1> QED
  BY <1>1 DEF Idle, Rests, WkType, PCs, Modes

\* At a place between attempts the worker rests and was not closing.
LEMMA QuietFacts ==
    ASSUME IInv, wk.pc \in Quiet
    PROVE  /\ wk \in WkType /\ wk.mode = "none" /\ wk.n = 0 /\ Rests(wk) /\ ~Closing(wk)
           /\ wk.pc # "fill"
  BY TypesAre DEF IInv, WorkerOK, Quiet, Closing, Rests

\* A worker without an attempt that goes on.
LEMMA MovedFacts ==
    ASSUME Rests(wk), NEW pc \in PCs, wk' = [wk EXCEPT !.pc = pc]
    PROVE  Rests(wk') /\ wk'.pc = pc /\ wk'.unres = wk.unres
  BY DEF Rests, WkType

\* reconcile_managed_positions is skipped.
LEMMA ProtectiveSkippedHolds == ASSUME IInv, ProtectiveSkipped PROVE IInv'
<1>1. UNCHANGED Ledger /\ session' = session /\ wk.pc = "protective"
  BY DEF ProtectiveSkipped, Ledger, At
<1>2. PICK pc \in {"cancelEntry", "idle"} : wk' = [wk EXCEPT !.pc = pc]
  BY DEF ProtectiveSkipped, Step, Go
<1>3. Rests(wk') /\ wk'.pc = pc
  BY <1>1, <1>2, QuietFacts, MovedFacts DEF Quiet, PCs
<1> QED
  BY <1>1, <1>3, QuietFacts, RestMoves, TypesAre DEF IInv, Resting, Quiet

\* The pass over clean-ups still to be done.
LEMMA CleanupsHolds == ASSUME IInv, Cleanups PROVE IInv'
<1>1. UNCHANGED Ledger /\ session' = session /\ wk.pc = "cleanups"
  BY DEF Cleanups, Ledger, At
<1>2. CASE \E k \in Attempts :
            /\ att[k].st = "PROTECTION_CLEANUP_INCOMPLETE"
            /\ Go([wk EXCEPT !.pc = "cleanup", !.mode = "sweep", !.k = k, !.j = k])
  <2>1. PICK k \in Attempts :
            /\ att[k].st = "PROTECTION_CLEANUP_INCOMPLETE"
            /\ wk' = [wk EXCEPT !.pc = "cleanup", !.mode = "sweep", !.k = k, !.j = k]
    BY <1>2 DEF Go
  <2>2. /\ wk \in WkType /\ wk.n = 0 /\ k \in 0..MaxAttempts
    BY <1>1, QuietFacts, Sizes DEF Quiet
  <2>3. /\ wk' \in WkType /\ wk'.pc = "cleanup" /\ wk'.mode = "sweep" /\ wk'.k = k /\ wk'.n = 0
    BY <2>1, <2>2 DEF WkType, PCs, Modes
  <2>4. ~Active /\ k \in 1..last
    <3>1. ~(k > last)
      BY <2>1 DEF IInv, OrdersOK, OrderOK, NoAttempt
    <3>2. ~Active
      BY <2>1, Zenon DEF IInv, PosOK
    <3>3. last \in 0..MaxAttempts /\ MaxAttempts \in Nat /\ k \in 1..MaxAttempts
      BY Sizes DEF IInv, TypeOK, Attempts
    <3> QED
      BY <3>1, <3>2, <3>3
  <2>5. WorkerOK(wk') /\ NoRisk(wk')
    BY <2>3, <2>4 DEF WorkerOK, NoRisk, Sending, Looking, Quiet
  <2>6. BookedOK(wk') /\ CleanupAhead(wk')
    BY <1>1, <2>3 DEF IInv, BookedOK, CleanupAhead, Closing, Looking
  <2> QED
    BY <1>1, <2>3, <2>5, <2>6, WorkerMoves, TypesAre DEF IInv
<1>3. CASE Step("positions")
  <2>1. wk' = [wk EXCEPT !.pc = "positions"]
    BY <1>3 DEF Step, Go
  <2>2. Rests(wk') /\ wk'.pc = "positions"
    BY <1>1, <2>1, QuietFacts, MovedFacts DEF Quiet, PCs
  <2> QED
    BY <1>1, <2>2, QuietFacts, RestMoves, TypesAre DEF IInv, Resting, Quiet
<1> QED
  BY <1>2, <1>3 DEF Cleanups

\* The pass over positions.
LEMMA PositionsHolds == ASSUME IInv, Positions PROVE IInv'
<1>1. /\ UNCHANGED Ledger /\ session' = session /\ wk.pc = "positions"
      /\ wk' = IF Active THEN EachFrom(1) ELSE Finished
  BY DEF Positions, Ledger, At, Go
<1>2. wk \in WkType /\ wk.mode = "none" /\ ~Closing(wk) /\ last \in 0..MaxAttempts
  BY <1>1, QuietFacts DEF Quiet, IInv, TypeOK
<1>3. CASE Rests(wk') /\ wk'.pc \in {"decide", "finish"}
  BY <1>1, <1>2, <1>3, RestMoves, TypesAre DEF IInv, Resting
<1>4. CASE /\ wk' \in WkType /\ wk'.pc = "lookup" /\ wk'.mode = "each" /\ Active
           /\ wk'.j \in 1..last /\ wk'.k \in 1..last
  <2>1. WorkerOK(wk') /\ NoRisk(wk')
    BY <1>4 DEF WorkerOK, NoRisk, Sending, Looking, Quiet
  <2>2. BookedOK(wk') /\ CleanupAhead(wk')
    BY <1>1, <1>2, <1>4 DEF IInv, BookedOK, CleanupAhead
  <2> QED
    BY <1>1, <1>4, <2>1, <2>2, WorkerMoves, TypesAre DEF IInv
<1>5. CASE Active
  <2>1. wk' = EachFrom(1) /\ 1 \in 1..(last + 1)
    BY <1>1, <1>2, <1>5, Sizes
  <2>2. PICK r : r = EachFrom(1)
    OBVIOUS
  <2>3. \/ Rests(r) /\ r.pc = "decide"
        \/ r \in WkType /\ r.pc = "lookup" /\ r.mode = "each" /\ r.j = 1 /\ r.k = 1 /\ 1 \in 1..last
    BY <1>2, <2>1, <2>2, EachFromFacts
  <2> QED
    BY <1>3, <1>4, <1>5, <2>1, <2>2, <2>3
<1>6. CASE ~Active
  BY <1>1, <1>2, <1>3, <1>6, FinishedFacts
<1> QED
  BY <1>5, <1>6

\* The verdict at the end of a round.
LEMMA FinishFlattenHolds == ASSUME IInv, FinishFlatten PROVE IInv'
<1>1. UNCHANGED Ledger /\ wk.pc = "finish" /\ wk' = Idle
  BY DEF FinishFlatten, Ledger, At, Go
<1>2. ~Closing(wk) /\ wk.pc # "fill"
  BY <1>1, QuietFacts DEF Quiet
<1>3. \/ session' = session
      \/ session' = "FLAT" /\ ~Active /\ \A k \in Attempts : att[k].st \in EndedAttempt
  BY DEF FinishFlatten
<1>4. session' = "FLAT" => session = "FLAT" \/ MayBeFlat
  <2> SUFFICES ASSUME ~Active, \A k \in Attempts : att[k].st \in EndedAttempt, Undisturbed,
                      oco.st = "live"
               PROVE  FALSE
    BY <1>3 DEF MayBeFlat
  <2>1. Confirmed >= pos.qty
    BY DEF IInv, PosOK
  <2> QED
    BY <1>2, <2>1 DEF IInv, CleanupAhead
<1>5. session' \in {"FLATTENING", "FLAT", "DEGRADED"}
  BY <1>3, TypesAre DEF IInv
<1> QED
  BY <1>1, <1>2, <1>4, <1>5, IdleRests, RestMoves DEF Resting

\* A worker that looks at an attempt.
LEMMA LookingFacts ==
    ASSUME IInv, wk.pc \in Looking
    PROVE  /\ wk \in WkType /\ last \in 0..MaxAttempts
           /\ wk.j \in 1..last /\ wk.j \in Attempts /\ wk.k \in 1..last
           /\ wk.mode \in {"each", "lane", "risk", "other"}
           /\ wk.mode = "other" => Active /\ Confirmed >= pos.qty
<1>1. wk \in WkType /\ last \in 0..MaxAttempts
  BY TypesAre DEF IInv
<1>2. /\ wk.j \in 1..last /\ wk.k \in 1..last
      /\ wk.mode \in {"each", "lane", "risk", "other"}
      /\ wk.mode = "other" => Active /\ Confirmed >= pos.qty
  BY DEF IInv, WorkerOK, Looking
<1>3. wk.j \in Attempts
  BY <1>1, <1>2, Sizes DEF Attempts
<1> QED
  BY <1>1, <1>2, <1>3

\* A lookup that does not find the order.
LEMMA ReconcileUnseenHolds == ASSUME IInv, ReconcileUnseen PROVE IInv'
<1>1. /\ UNCHANGED Ledger /\ session' = session /\ wk.pc = "lookup"
      /\ wk' = IF att[wk.j].st = "PROTECTION_CLEANUP_INCOMPLETE" THEN [wk EXCEPT !.pc = "cleanup"]
               ELSE Returned(att[wk.j].st)
  BY DEF ReconcileUnseen, Ledger, At, Go
<1>2. /\ wk \in WkType /\ wk.j \in Attempts /\ wk.k \in 1..last /\ wk.mode # "none"
      /\ wk.mode \notin {"none", "sweep"} /\ last \in 0..MaxAttempts
  BY <1>1, LookingFacts DEF Looking
<1>3. CASE att[wk.j].st = "PROTECTION_CLEANUP_INCOMPLETE"
  <2>1. /\ wk' \in WkType /\ wk'.pc = "cleanup" /\ wk'.mode = wk.mode /\ wk'.k = wk.k
    BY <1>1, <1>2, <1>3 DEF WkType, PCs
  <2>2. ~Active
    BY <1>2, <1>3 DEF IInv, PosOK
  <2>3. wk.mode # "other"
    BY <1>1, <2>2, LookingFacts DEF Looking
  <2>4. WorkerOK(wk') /\ NoRisk(wk')
    BY <1>2, <2>1, <2>2, <2>3 DEF IInv, WorkerOK, NoRisk, Sending, Looking, Quiet
  <2>5. BookedOK(wk') /\ CleanupAhead(wk')
    BY <1>1, <2>1 DEF IInv, BookedOK, CleanupAhead, Closing, Looking
  <2> QED
    BY <1>1, <2>1, <2>4, <2>5, WorkerMoves, TypesAre DEF IInv
<1>4. CASE att[wk.j].st # "PROTECTION_CLEANUP_INCOMPLETE"
  <2>1. Back(wk', att[wk.j].st)
    BY <1>1, <1>2, <1>4, ReturnedFacts
  <2> QED
    BY <1>1, <2>1, BackMoves DEF Looking
<1> QED
  BY <1>3, <1>4

\* The cancel of an attempt is sent.
LEMMA CancelAttemptHolds == ASSUME IInv, CancelAttempt PROVE IInv'
<1>1. UNCHANGED Ledger /\ session' = session /\ wk.pc = "cancelAtt"
  BY DEF CancelAttempt, Ledger, At
<1>2. /\ wk \in WkType /\ wk.j \in Attempts /\ wk.j \in 1..last /\ wk.k \in 1..last
      /\ wk.mode \in {"risk", "other"} /\ last \in 0..MaxAttempts
      /\ wk.mode = "other" => Active /\ Confirmed >= pos.qty
  BY <1>1, LookingFacts DEF Looking, IInv, WorkerOK
<1>3. CASE wk' = LaneOn(wk.j, wk.mode) \/ wk' = [wk EXCEPT !.pc = "cancelAcked"]
  <2>1. /\ wk' \in WkType /\ wk'.pc \in {"lookup", "cancelAcked"} /\ wk'.mode = wk.mode
        /\ wk'.j = wk.j /\ wk'.k \in 1..last
    <3>1. CASE wk' = LaneOn(wk.j, wk.mode)
      <4>1. wk.mode \in Modes /\ wk.j \in 0..MaxAttempts
        BY <1>2 DEF WkType
      <4> QED
        BY <1>2, <3>1, <4>1, LaneOnFacts
    <3>2. CASE wk' = [wk EXCEPT !.pc = "cancelAcked"]
      BY <1>2, <3>2 DEF WkType, PCs
    <3> QED
      BY <1>3, <3>1, <3>2
  <2>2. WorkerOK(wk') /\ NoRisk(wk')
    BY <1>2, <2>1 DEF IInv, WorkerOK, NoRisk, Sending, Looking, Quiet
  <2>3. BookedOK(wk') /\ CleanupAhead(wk')
    BY <1>1, <2>1 DEF IInv, BookedOK, CleanupAhead, Closing, Looking
  <2> QED
    BY <1>1, <2>1, <2>2, <2>3, WorkerMoves, TypesAre DEF IInv
<1>4. CASE wk' = Returned(att[wk.j].st)
  <2>1. Back(wk', att[wk.j].st)
    BY <1>2, <1>4, ReturnedFacts
  <2> QED
    BY <1>1, <2>1, BackMoves DEF Looking
<1> QED
  BY <1>3, <1>4 DEF CancelAttempt, Go, Step

\* A worker about to close the position.
LEMMA CloseFacts ==
    ASSUME IInv, wk.pc = "close"
    PROVE  /\ wk \in WkType /\ last \in 0..MaxAttempts
           /\ wk.k \in 1..last /\ wk.k \in Attempts /\ wk.j \in 1..last
           /\ wk.mode \in {"none", "each", "lane"} /\ Active /\ Confirmed >= pos.qty
           /\ wk.mode = "none" => wk.n = 0
<1>1. wk \in WkType /\ last \in 0..MaxAttempts
  BY TypesAre DEF IInv
<1>2. /\ wk.k \in 1..last /\ wk.j \in 1..last /\ Active /\ Confirmed >= pos.qty
      /\ wk.mode \in {"none", "each", "lane"} /\ (wk.mode = "none" => wk.n = 0)
  BY DEF IInv, WorkerOK
<1> QED
  BY <1>1, <1>2, Sizes DEF Attempts

\* The close cancels an earlier attempt first.
LEMMA CloseCancelsOthersHolds == ASSUME IInv, CloseCancelsOthers PROVE IInv'
<1>1. UNCHANGED Ledger /\ session' = session /\ wk.pc = "close"
  BY DEF CloseCancelsOthers, Ledger, At
<1>2. PICK i \in 1..last : wk' = [wk EXCEPT !.pc = "cancelAtt", !.mode = "other", !.j = i]
  BY DEF CloseCancelsOthers, OtherWorking, Go
<1>3. /\ wk' \in WkType /\ wk'.pc = "cancelAtt" /\ wk'.mode = "other" /\ wk'.j = i /\ wk'.k = wk.k
  <2>1. i \in 0..MaxAttempts
    BY <1>1, CloseFacts, Sizes
  <2> QED
    BY <1>1, <1>2, <2>1, CloseFacts DEF WkType, PCs, Modes
<1>4. WorkerOK(wk') /\ NoRisk(wk')
  BY <1>1, <1>3, CloseFacts DEF WorkerOK, NoRisk, Sending, Looking, Quiet
<1>5. BookedOK(wk') /\ CleanupAhead(wk')
  BY <1>1, <1>3, CloseFacts DEF IInv, BookedOK, CleanupAhead, Closing
<1> QED
  BY <1>1, <1>3, <1>4, <1>5, WorkerMoves, TypesAre DEF IInv

\* The decision on the next attempt that sends nothing.
LEMMA DecideHolds == ASSUME IInv, DecideWait \/ DecideCancel \/ DecideClose PROVE IInv'
<1>1. UNCHANGED Ledger /\ wk.pc = "decide"
  BY DEF DecideWait, DecideCancel, DecideClose, Ledger, At
<1>2. wk \in WkType /\ wk.mode = "none" /\ wk.n = 0 /\ ~Closing(wk) /\ last \in 0..MaxAttempts
  BY <1>1, QuietFacts, TypesAre DEF Quiet, IInv
<1>3. CASE DecideWait \/ (DecideClose /\ last = 0)
  <2>1. Rests(wk') /\ wk'.pc \in {"finish", "idle"}
    BY <1>2, <1>3, FinishedFacts, IdleRests DEF DecideWait, DecideClose, Abort, Go
  <2>2. session' \in {session, "DEGRADED"}
    BY <1>3 DEF DecideWait, DecideClose, Abort
  <2> QED
    BY <1>1, <1>2, <2>1, <2>2, RestMoves, TypesAre DEF IInv, Resting
<1>4. CASE DecideCancel
  <2>1. ~Undisturbed /\ session' = session
    BY <1>1, <1>4, RiskFree DEF DecideCancel, IInv
  <2>2. last \in 1..last
    <3>1. last # 0
      BY <1>4 DEF DecideCancel, OversellRisk, Latest, NoAttempt, NotWorking, EndedAttempt
    <3> QED
      BY <1>2, <3>1
  <2>3. wk' = [wk EXCEPT !.pc = "cancelAtt", !.mode = "risk", !.k = last, !.j = last]
    BY <1>4 DEF DecideCancel, Go
  <2>4. /\ wk' \in WkType /\ wk'.pc = "cancelAtt" /\ wk'.mode = "risk" /\ wk'.j = last
        /\ wk'.k = last
    BY <1>2, <2>3 DEF WkType, PCs, Modes
  <2>5. WorkerOK(wk') /\ NoRisk(wk')
    BY <2>1, <2>2, <2>4 DEF WorkerOK, NoRisk, Sending, Looking, Quiet
  <2>6. BookedOK(wk') /\ CleanupAhead(wk')
    BY <1>1, <2>1, <2>4 DEF IInv, BookedOK, CleanupAhead
  <2> QED
    BY <1>1, <2>1, <2>4, <2>5, <2>6, WorkerMoves, TypesAre DEF IInv
<1>5. CASE DecideClose /\ last # 0
  <2>1. /\ wk' = [wk EXCEPT !.pc = "close", !.k = last, !.j = last] /\ session' = session
        /\ Active /\ Confirmed >= pos.qty
    BY <1>5 DEF DecideClose, Go
  <2>2. /\ wk' \in WkType /\ wk'.pc = "close" /\ wk'.mode = "none" /\ wk'.n = 0 /\ wk'.j = last
        /\ wk'.k = last
    BY <1>2, <2>1 DEF WkType, PCs
  <2>3. last \in 1..last
    BY <1>2, <1>5
  <2>4. WorkerOK(wk') /\ NoRisk(wk')
    BY <2>1, <2>2, <2>3 DEF WorkerOK, NoRisk, Sending, Looking, Quiet
  <2>5. BookedOK(wk') /\ CleanupAhead(wk')
    BY <1>1, <2>1, <2>2 DEF IInv, BookedOK, CleanupAhead, Closing, Looking
  <2> QED
    BY <1>1, <2>1, <2>2, <2>4, <2>5, WorkerMoves, TypesAre DEF IInv
<1> QED
  BY <1>3, <1>4, <1>5

\* The end of a reconcile.
LEMMA SettleHolds == ASSUME IInv, Settle PROVE IInv'
<1>1. /\ wk.pc = "settle" /\ session' = session
      /\ UNCHANGED <<entry, att, last, fills, xo, oco, faults>>
  BY DEF Settle, At
<1>2. /\ wk \in WkType /\ wk.j \in Attempts /\ wk.k \in 1..last /\ wk.j \in 1..last
      /\ wk.mode \in {"each", "lane", "risk", "other"} /\ last \in 0..MaxAttempts
      /\ wk.mode = "other" => Active /\ Confirmed >= pos.qty
  BY <1>1, LookingFacts DEF Looking
<1>3. PICK st : st = IF att[wk.j].st = "FILLED" /\ att[wk.j].term
                     THEN "RECONCILIATION_REQUIRED" ELSE att[wk.j].st
  OBVIOUS
<1>4. CASE Active /\ Confirmed >= pos.qty
  <2>1. /\ UNCHANGED Ledger
        /\ wk' = IF wk.mode \in {"each", "lane"} THEN [wk EXCEPT !.pc = "close"]
                 ELSE Returned(att[wk.j].st)
    BY <1>1, <1>4 DEF Settle, Ledger, Go
  <2>2. CASE wk.mode \in {"each", "lane"}
    <3>1. /\ wk' \in WkType /\ wk'.pc = "close" /\ wk'.mode = wk.mode /\ wk'.k = wk.k
          /\ wk'.j = wk.j
      BY <1>2, <2>1, <2>2 DEF WkType, PCs
    <3>2. WorkerOK(wk') /\ NoRisk(wk')
      BY <1>2, <1>4, <2>2, <3>1 DEF WorkerOK, NoRisk, Sending, Looking, Quiet
    <3>3. BookedOK(wk') /\ CleanupAhead(wk')
      BY <1>1, <1>4, <3>1 DEF IInv, BookedOK, CleanupAhead, Closing, Looking
    <3> QED
      BY <1>1, <2>1, <3>1, <3>2, <3>3, WorkerMoves, TypesAre DEF IInv
  <2>3. CASE wk.mode \notin {"each", "lane"}
    <3>1. Back(wk', att[wk.j].st)
      BY <1>2, <2>1, <2>3, ReturnedFacts
    <3>2. wk.mode # "other" => wk.mode = "risk"
      BY <1>2, <2>3
    <3> QED
      BY <1>1, <2>1, <3>1, <3>2, BackMoves DEF Looking
  <2> QED
    BY <2>2, <2>3
<1>5. CASE ~(Active /\ Confirmed >= pos.qty)
  <2>1. /\ pos' = [pos EXCEPT !.st = IF Active /\ Confirmed > 0 THEN "EXIT_PARTIALLY_FILLED" ELSE @]
        /\ wk' = Returned(st)
    BY <1>3, <1>5 DEF Settle, Go
  <2>2. pos \in PosType /\ pos.qty \in 0..Q /\ Confirmed \in Nat
    BY TypesAre, CountTypes DEF IInv, PosType
  <2>3. pos' \in PosType /\ pos'.qty = pos.qty /\ (Active' <=> Active)
    BY <2>1, <2>2 DEF PosType, Active
  <2>4. Back(wk', st)
    BY <1>2, <2>1, ReturnedFacts
  <2>5. wk.mode # "other" /\ (~Active \/ Confirmed < pos.qty)
    BY <1>2, <1>5, <2>2, Sizes
  <2>6. Kept
    BY <1>1, <2>3 DEF Kept
  <2> QED
    BY <1>1, <2>4, <2>5, <2>6, BackMoves DEF Looking
<1> QED
  BY <1>4, <1>5

(***************************************************************************)
(* Steps that write an attempt's row.                                      *)
(***************************************************************************)
\* Attempt k's row becomes r, which asks for the same quantity; everything
\* else but the worker stays.
Rewrites(k, r) ==
    /\ k \in 1..last /\ r \in AttType /\ r.req = att[k].req
    /\ att' = [att EXCEPT ![k] = r]
    /\ UNCHANGED <<session, entry, pos, last, fills, xo, oco, faults>>

\* The ledger after one row was rewritten.
LEMMA RewriteFacts ==
    ASSUME IInv, NEW k, NEW r, Rewrites(k, r)
    PROVE  /\ k \in Attempts /\ k <= last /\ att'[k] = r /\ att' \in [Attempts -> AttType]
           /\ \A i \in Attempts \ {k} : att'[i] = att[i]
           /\ Confirmed' = Confirmed /\ (Active' <=> Active) /\ (Undisturbed' <=> Undisturbed)
<1>1. k \in Attempts /\ k <= last /\ att \in [Attempts -> AttType]
  <2>1. last \in 0..MaxAttempts /\ k \in 1..last /\ att \in [Attempts -> AttType]
    BY TypesAre DEF IInv, Rewrites
  <2> QED
    BY <2>1, Sizes DEF Attempts
<1> QED
  BY <1>1 DEF Rewrites, Confirmed, Active, Undisturbed

\* The row r keeps what the invariant says of attempt k.
RowOK(k, r) ==
    /\ r.st # "NONE" /\ r.filled <= xo[k].filled
    /\ fills[k] <= r.filled \/ (r.filled = 0 /\ faults > 0)
    /\ k < last /\ faults = 0 => r.filled = xo[k].filled
    /\ r.st = "CANCELLED" => xo[k].st = "canceled" /\ r.filled = xo[k].filled
    /\ r.st = "REJECTED" => xo[k].st \in {"none", "rejected"} /\ r.filled = xo[k].filled
    /\ r.st \in {"PREPARED", "FAILED"} => ~r.term
    /\ r.st = "FAILED" => faults > 0
    /\ r.st = "PROTECTION_CLEANUP_INCOMPLETE" => ~Active

\* A rewritten row and where the worker goes.
LEMMA RewriteHolds ==
    ASSUME IInv, NEW k, NEW r, Rewrites(k, r), RowOK(k, r),
           wk' \in WkType, WorkerOK(wk)', BookedOK(wk)', CleanupAhead(wk)', NoRisk(wk')
    PROVE  IInv'
<1>0. /\ k \in Attempts /\ k <= last /\ att'[k] = r /\ att' \in [Attempts -> AttType]
      /\ \A i \in Attempts \ {k} : att'[i] = att[i]
      /\ Confirmed' = Confirmed /\ (Active' <=> Active) /\ (Undisturbed' <=> Undisturbed)
      /\ UNCHANGED <<session, entry, pos, last, fills, xo, oco, faults>> /\ r.req = att[k].req
  BY RewriteFacts DEF Rewrites
<1>1. TypeOK'
  BY <1>0, TypesAre, TypesNext DEF IInv
<1>2. PosOK'
  BY <1>0 DEF IInv, PosOK, RowOK
<1>3. OrdersOK'
  <2>1. ASSUME NEW i \in Attempts \ {k} PROVE OrderOK(i)'
    BY <1>0 DEF IInv, OrdersOK, OrderOK
  <2>2. OrderOK(k)'
    <3>1. OrderOK(k) /\ ~(k > last)
      BY <1>0, Sizes DEF IInv, OrdersOK, TypeOK, Attempts
    <3> QED
      BY <1>0, <3>1 DEF OrderOK, RowOK
  <2> QED
    BY <1>0, <2>1, <2>2 DEF IInv, OrdersOK
<1>4. PlanOK'
  <2>1. Plan' = Plan
    <3>1. \A i \in Attempts : att'[i].req = att[i].req
      BY <1>0
    <3> QED
      BY <1>0, <3>1 DEF Plan
  <2> QED
    BY <1>0, <2>1 DEF IInv, PlanOK
<1>5. FlatProtection' /\ NoRisk(wk)'
  BY <1>0 DEF IInv, FlatProtection, NoRisk
<1> QED
  BY <1>1, <1>2, <1>3, <1>4, <1>5 DEF IInv

\* The state an attempt takes from its order's row.
LEMMA RemoteFacts ==
    ASSUME NEW j
    PROVE  /\ RemoteState(j) \in {"CANCELLED", "REJECTED", "FILLED", "CANCEL_REQUESTED",
                                  "PARTIALLY_FILLED", "OPEN"}
           /\ RemoteState(j) = "CANCELLED" => xo[j].st = "canceled"
           /\ RemoteState(j) = "REJECTED" => xo[j].st = "rejected"
  BY DEF RemoteState

\* A lookup that finds the order.
LEMMA ReconcileSeenHolds == ASSUME IInv, ReconcileSeen PROVE IInv'
<1>1. wk.pc = "lookup" /\ wk' = [wk EXCEPT !.pc = "fill"]
  BY DEF ReconcileSeen, Seen, At, Step, Go
<1>2. PICK j : j = wk.j
  OBVIOUS
<1>3. /\ wk \in WkType /\ j \in Attempts /\ wk.k \in 1..last /\ j \in 1..last
      /\ wk.mode \in {"each", "lane", "risk", "other"} /\ last \in 0..MaxAttempts
      /\ wk.mode = "other" => Active /\ Confirmed >= pos.qty
  BY <1>1, <1>2, LookingFacts DEF Looking
<1>4. PICK remote : remote = RemoteState(j)
  OBVIOUS
<1>5. PICK r : r = [att[j] EXCEPT !.st = remote, !.filled = xo[j].filled,
                                  !.id = TRUE, !.term = remote \in Terminal]
  OBVIOUS
<1>6. att[j] \in AttType /\ xo[j] \in OrderType /\ att \in [Attempts -> AttType]
  BY <1>3, TypesAre DEF IInv
<1>7. /\ r \in AttType /\ r.req = att[j].req /\ r.st = remote /\ r.filled = xo[j].filled
  <2>1. (remote \in Terminal) \in BOOLEAN
    OBVIOUS
  <2>2. remote \in AttemptState /\ xo[j].filled \in 0..Q
    BY <1>4, <1>6, RemoteFacts DEF AttemptState, OrderType
  <2> QED
    BY <1>5, <1>6, <2>1, <2>2 DEF AttType
<1>8. /\ att[j].st \notin {"FILLED", "PROTECTION_CLEANUP_INCOMPLETE"}
      /\ Rewrites(j, r)
  <2>1. /\ att[j].st \notin {"FILLED", "PROTECTION_CLEANUP_INCOMPLETE"}
        /\ UNCHANGED <<session, entry, pos, last, fills, xo, oco, faults>>
    BY <1>2 DEF ReconcileSeen, Seen
  <2>2. att' = [att EXCEPT ![j] = [att[j] EXCEPT !.st = remote, !.filled = xo[j].filled,
                                  !.id = TRUE, !.term = remote \in Terminal]]
    BY <1>2, <1>4, Zenon DEF ReconcileSeen, Seen
  <2>3. att' = [att EXCEPT ![j] = r]
    BY <1>5, <2>2, Zenon
  <2> QED
    BY <1>3, <1>7, <2>1, <2>3 DEF Rewrites
<1>9. RowOK(j, r)
  <2>1. OrderOK(j)
    BY <1>3 DEF IInv, OrdersOK
  <2>2. /\ remote \in {"CANCELLED", "REJECTED", "FILLED", "CANCEL_REQUESTED",
                       "PARTIALLY_FILLED", "OPEN"}
        /\ remote = "CANCELLED" => xo[j].st = "canceled"
        /\ remote = "REJECTED" => xo[j].st = "rejected"
    BY <1>4, RemoteFacts
  <2>3. fills[j] <= xo[j].filled /\ xo[j].filled <= xo[j].filled
    <3>1. xo[j].filled \in 0..Q
      BY <1>6 DEF OrderType
    <3> QED
      BY <2>1, <3>1, Sizes DEF OrderOK
  <2> QED
    BY <1>7, <2>1, <2>2, <2>3 DEF RowOK, OrderOK
<1>10. /\ wk' \in WkType /\ wk'.pc = "fill" /\ wk'.mode = wk.mode /\ wk'.j = j /\ wk'.k = wk.k
       /\ wk'.n = wk.n
  BY <1>1, <1>2, <1>3 DEF WkType, PCs
<1>11. /\ att'[j] = r /\ (\A i \in Attempts \ {j} : att'[i] = att[i])
       /\ Confirmed' = Confirmed /\ (Active' <=> Active) /\ (Undisturbed' <=> Undisturbed)
       /\ UNCHANGED <<pos, last, fills, xo, oco, entry, faults>>
  BY <1>8, RewriteFacts DEF Rewrites
<1>12. WorkerOK(wk)'
  BY <1>3, <1>10, <1>11 DEF WorkerOK, Sending, Looking, Quiet
<1>13. BookedOK(wk)' /\ NoRisk(wk')
  BY <1>1, <1>10, <1>11 DEF IInv, BookedOK, NoRisk
<1>14. CleanupAhead(wk)'
  <2>1. ASSUME Undisturbed, oco.st = "live", ~Active
        PROVE  \E k \in Attempts : att'[k].st = "PROTECTION_CLEANUP_INCOMPLETE"
    <3>1. PICK k \in Attempts : att[k].st = "PROTECTION_CLEANUP_INCOMPLETE"
      BY <1>1, <2>1 DEF IInv, CleanupAhead, Looking
    <3>2. k # j
      BY <1>8, <3>1
    <3> QED
      BY <1>11, <3>1, <3>2
  <2> QED
    BY <1>10, <1>11, <2>1 DEF CleanupAhead, Closing
<1> QED
  BY <1>8, <1>9, <1>10, <1>12, <1>13, <1>14, RewriteHolds

\* A row whose state changes and whose quantities do not.
LEMMA SameQuantities ==
    ASSUME IInv, NEW k \in 1..last, NEW r, r \in AttType,
           r.req = att[k].req, r.filled = att[k].filled,
           r.st \notin {"NONE", "CANCELLED", "PREPARED"},
           r.st = "REJECTED" => xo[k].st = "none",
           r.st = "FAILED" => faults > 0 /\ ~r.term,
           r.st = "PROTECTION_CLEANUP_INCOMPLETE" => ~Active
    PROVE  RowOK(k, r)
<1>1. k \in Attempts
  BY Sizes DEF IInv, TypeOK, Attempts
<1>2. OrderOK(k) /\ att[k].filled \in 0..Q /\ xo[k].filled \in 0..Q
  BY <1>1, TypesAre DEF IInv, OrdersOK, AttType, OrderType
<1>3. xo[k].st = "none" => att[k].filled = xo[k].filled
  BY <1>2, Sizes DEF OrderOK
<1> QED
  BY <1>2, <1>3 DEF OrderOK, RowOK

\* Booked fills stay booked when only the worker and an attempt's state change.
LEMMA StaysBooked ==
    ASSUME IInv, wk.pc # "fill", UNCHANGED <<fills, faults>>,
           \A k \in Attempts : att'[k].filled = att[k].filled
    PROVE  BookedOK(wk)'
  BY DEF IInv, BookedOK

\* More was sold than managed, or close_trade refused.
LEMMA CloseFailedHolds == ASSUME IInv, CloseFailed PROVE IInv'
<1>1. PICK k : k = wk.k
  OBVIOUS
<1>2. PICK r : r = [att[k] EXCEPT !.st = "RECONCILIATION_FAILED"]
  OBVIOUS
<1>3. /\ wk.pc = "close" /\ wk' = Returned("RECONCILIATION_FAILED")
      /\ UNCHANGED <<session, entry, pos, last, fills, xo, oco, faults>>
      /\ att' = [att EXCEPT ![k] = r]
  BY <1>1, <1>2 DEF CloseFailed, At, Go
<1>4. /\ wk \in WkType /\ last \in 0..MaxAttempts
      /\ k \in 1..last /\ k \in Attempts /\ wk.j \in 1..last
      /\ wk.mode \in {"none", "each", "lane"} /\ Active /\ Confirmed >= pos.qty
      /\ wk.mode = "none" => wk.n = 0
  BY <1>1, <1>3, CloseFacts
<1>5. r \in AttType /\ r.st = "RECONCILIATION_FAILED" /\ r.req = att[k].req /\ r.filled = att[k].filled
  <2>1. att[k] \in AttType
    BY <1>4, TypesAre DEF IInv
  <2> QED
    BY <1>2, <2>1 DEF AttType, AttemptState
<1>6. Rewrites(k, r) /\ RowOK(k, r)
  BY <1>3, <1>4, <1>5, SameQuantities DEF Rewrites
<1>7. Back(wk', "RECONCILIATION_FAILED")
  BY <1>1, <1>3, <1>4, ReturnedFacts
<1>8. /\ att'[k] = r /\ (\A i \in Attempts \ {k} : att'[i] = att[i])
      /\ Confirmed' = Confirmed /\ (Active' <=> Active) /\ (Undisturbed' <=> Undisturbed)
  BY <1>6, RewriteFacts
<1>9. WorkerOK(wk)'
  BY <1>1, <1>3, <1>4, <1>7, BackWorker
<1>10. BookedOK(wk)'
  BY <1>3, <1>5, <1>8, StaysBooked
<1>11. CleanupAhead(wk)'
  BY <1>4, <1>5, <1>8 DEF CleanupAhead, EndedAttempt
<1>12. wk' \in WkType /\ NoRisk(wk')
  BY <1>4, <1>7 DEF Back, NoRisk, Rests
<1> QED
  BY <1>6, <1>9, <1>10, <1>11, <1>12, RewriteHolds

\* The acknowledged cancel is recorded.
LEMMA RecordAttemptCancelHolds == ASSUME IInv, RecordAttemptCancel PROVE IInv'
<1>1. PICK k : k = wk.j
  OBVIOUS
<1>2. PICK r : r = [att[k] EXCEPT !.st = "CANCEL_REQUESTED"]
  OBVIOUS
<1>3. /\ wk.pc = "cancelAcked" /\ wk' = LaneOn(k, wk.mode)
      /\ UNCHANGED <<session, entry, pos, last, fills, xo, oco, faults>>
      /\ att' = [att EXCEPT ![k] = r]
  BY <1>1, <1>2 DEF RecordAttemptCancel, At, Go
<1>4. /\ wk \in WkType /\ k \in Attempts /\ wk.k \in 1..last /\ k \in 1..last
      /\ wk.mode \in {"risk", "other"}
      /\ wk.mode = "other" => Active /\ Confirmed >= pos.qty
  BY <1>1, <1>3, LookingFacts DEF Looking, IInv, WorkerOK
<1>5. r \in AttType /\ r.st = "CANCEL_REQUESTED" /\ r.req = att[k].req /\ r.filled = att[k].filled
  <2>1. att[k] \in AttType
    BY <1>4, TypesAre DEF IInv
  <2> QED
    BY <1>2, <2>1 DEF AttType, AttemptState
<1>6. Rewrites(k, r) /\ RowOK(k, r)
  BY <1>3, <1>4, <1>5, SameQuantities DEF Rewrites
<1>7. /\ wk' \in WkType /\ wk'.pc = "lookup" /\ wk'.mode = wk.mode
      /\ wk'.j = k /\ wk'.k \in 1..last
  <2>1. wk.mode \in Modes /\ k \in 0..MaxAttempts
    BY <1>1, <1>4 DEF WkType
  <2> QED
    BY <1>3, <1>4, <2>1, LaneOnFacts
<1>8. /\ att'[k] = r /\ (\A i \in Attempts \ {k} : att'[i] = att[i]) /\ last' = last
      /\ Confirmed' = Confirmed /\ (Active' <=> Active) /\ (Undisturbed' <=> Undisturbed)
      /\ pos' = pos
  BY <1>6, RewriteFacts DEF Rewrites
<1>9. WorkerOK(wk)'
  BY <1>4, <1>7, <1>8 DEF WorkerOK, Sending, Looking, Quiet
<1>10. BookedOK(wk)' /\ NoRisk(wk')
  <2>1. BookedOK(wk)'
    BY <1>3, <1>5, <1>8, StaysBooked
  <2> QED
    BY <1>7, <2>1 DEF IInv, NoRisk
<1>11. CleanupAhead(wk)'
  <2>1. Undisturbed => Active
    BY <1>4 DEF IInv, NoRisk
  <2> QED
    BY <1>4, <1>5, <1>8, <2>1 DEF CleanupAhead, EndedAttempt
<1> QED
  BY <1>6, <1>7, <1>9, <1>10, <1>11, RewriteHolds

\* The clean-up is recorded.
LEMMA CleanupRecordHolds == ASSUME IInv, CleanupRecord PROVE IInv'
<1>1. PICK k, st : k = wk.k /\ st = IF wk.ok THEN "FILLED" ELSE "PROTECTION_CLEANUP_INCOMPLETE"
  OBVIOUS
<1>2. PICK r : r = [att[k] EXCEPT !.st = st, !.term = wk.ok]
  OBVIOUS
<1>3. /\ wk.pc = "cleaned" /\ wk' = [Returned(st) EXCEPT !.ok = FALSE]
      /\ UNCHANGED <<session, entry, pos, last, fills, xo, oco, faults>>
      /\ att' = [att EXCEPT ![k].st = st, ![k].term = wk.ok]
  BY <1>1 DEF CleanupRecord, At, Go
<1>4. /\ wk \in WkType /\ last \in 0..MaxAttempts /\ att \in [Attempts -> AttType]
      /\ wk.ok \in BOOLEAN
  BY TypesAre DEF IInv, WkType
<1>5. /\ k \in 1..last /\ ~Active /\ wk.mode # "other"
      /\ wk.ok /\ Undisturbed => oco.st # "live"
      /\ wk.mode \in {"none", "sweep"} => wk.n = 0
  BY <1>1, <1>3 DEF IInv, WorkerOK
<1>6. k \in Attempts
  BY <1>4, <1>5, Sizes DEF Attempts
<1>7. /\ r \in AttType /\ r.st = st /\ r.req = att[k].req /\ r.filled = att[k].filled
      /\ att' = [att EXCEPT ![k] = r]
  <2>1. att[k] \in AttType
    BY <1>4, <1>6
  <2> QED
    BY <1>1, <1>2, <1>3, <1>4, <1>6, <2>1 DEF AttType, AttemptState
<1>8. Rewrites(k, r) /\ RowOK(k, r)
  BY <1>1, <1>3, <1>5, <1>7, SameQuantities DEF Rewrites
<1>9. Back(wk', st)
  <2>1. PICK b : b = Returned(st)
    OBVIOUS
  <2>2. Back(b, st)
    BY <1>1, <1>4, <1>5, <2>1, ReturnedFacts
  <2>3. wk' = [b EXCEPT !.ok = FALSE]
    BY <1>3, <2>1
  <2>4. b \in WkType
    BY <2>2 DEF Back
  <2>5. /\ wk' \in WkType /\ wk'.pc = b.pc /\ wk'.mode = b.mode /\ wk'.n = b.n /\ wk'.j = b.j
        /\ wk'.k = b.k
    BY <2>3, <2>4 DEF WkType
  <2> QED
    BY <2>2, <2>5 DEF Back, Rests
<1>10. /\ att'[k] = r /\ (\A i \in Attempts \ {k} : att'[i] = att[i])
       /\ Confirmed' = Confirmed /\ (Active' <=> Active) /\ (Undisturbed' <=> Undisturbed)
  BY <1>8, RewriteFacts
<1>11. st \in Terminal \cup {"PROTECTION_CLEANUP_INCOMPLETE"}
  BY <1>1 DEF Terminal
<1>12. ~(wk'.pc = "lookup" /\ wk'.mode # "each")
  BY <1>9, <1>11 DEF Back, Rests
<1>13. WorkerOK(wk)'
  <2>1. wk.mode # "none" => wk.k \in 1..last
    BY <1>1, <1>5
  <2> QED
    BY <1>3, <1>5, <1>9, <1>12, <2>1, BackWorker
<1>14. BookedOK(wk)'
  BY <1>3, <1>7, <1>10, StaysBooked
<1>15. CleanupAhead(wk)'
  <2>1. Undisturbed /\ oco.st = "live" => att'[k].st = "PROTECTION_CLEANUP_INCOMPLETE"
    BY <1>1, <1>5, <1>7, <1>10
  <2> QED
    BY <1>3, <1>6, <1>10, <2>1 DEF CleanupAhead, EndedAttempt
<1>16. wk' \in WkType /\ NoRisk(wk')
  BY <1>9, <1>12 DEF Back, NoRisk, Rests
<1> QED
  BY <1>8, <1>13, <1>14, <1>15, <1>16, RewriteHolds

\* A worker that sends an attempt.
LEMMA SendingFacts ==
    ASSUME IInv, wk.pc \in Sending
    PROVE  /\ wk \in WkType /\ wk.mode = "none" /\ wk.n = 0 /\ wk.k = last
           /\ last \in 1..last /\ last \in Attempts /\ att[last].st = "PREPARED" /\ Active
           /\ wk.pc \in {"send", "rejected"} => xo[last].st = "none"
           /\ ~Closing(wk) /\ wk.pc # "fill"
<1>1. wk \in WkType /\ last \in 0..MaxAttempts
  BY TypesAre DEF IInv
<1>2. /\ wk.k = last /\ last >= 1 /\ att[last].st = "PREPARED" /\ Active
      /\ wk.pc \in {"send", "rejected"} => xo[last].st = "none"
  BY DEF IInv, WorkerOK
<1>3. wk.mode = "none" /\ wk.n = 0 /\ ~Closing(wk) /\ wk.pc # "fill"
  BY QuietFacts DEF Quiet, Sending
<1> QED
  BY <1>1, <1>2, <1>3, Sizes DEF Attempts

\* Undisturbed, an attempt that no order was placed for leaves the position
\* unsold.
LEMMA NotSold ==
    ASSUME IInv, Undisturbed, last \in Attempts, xo[last].st = "none"
    PROVE  ~(Confirmed >= pos.qty)
<1>1. SUFFICES ASSUME Confirmed >= pos.qty PROVE FALSE
  OBVIOUS
<1>2. xo[last].filled = att[last].req
  BY <1>1, SoldOut DEF IInv
<1>3. OrderOK(last) /\ last <= last
  BY Sizes DEF IInv, OrdersOK, TypeOK
<1> QED
  BY <1>2, <1>3 DEF OrderOK

\* The outcome of the submission is recorded.
LEMMA RecordExitOutcomeHolds == ASSUME IInv, RecordExitOutcome PROVE IInv'
<1>1. PICK k : k = last
  OBVIOUS
<1>2. wk.pc \in {"rejected", "failed", "unknown", "acked"}
  BY DEF RecordExitOutcome, At
<1>3. /\ wk \in WkType /\ wk.mode = "none" /\ wk.n = 0 /\ wk.k = k
      /\ k \in 1..last /\ k \in Attempts /\ att[k].st = "PREPARED" /\ Active
      /\ wk.pc = "rejected" => xo[k].st = "none"
      /\ wk.pc # "fill"
  BY <1>1, <1>2, SendingFacts DEF Sending
<1>4. PICK r : r = CASE wk.pc = "rejected" -> [att[k] EXCEPT !.st = "REJECTED", !.term = TRUE]
                     [] wk.pc = "failed"   -> [att[k] EXCEPT !.st = "FAILED"]
                     [] wk.pc = "unknown"  -> [att[k] EXCEPT !.st = "SUBMISSION_UNKNOWN"]
                     [] wk.pc = "acked"    -> [att[k] EXCEPT !.st = "SUBMITTED", !.id = wk.ok]
  OBVIOUS
<1>5. att[k] \in AttType /\ wk.ok \in BOOLEAN /\ att \in [Attempts -> AttType]
  BY <1>3, TypesAre DEF IInv, WkType
<1>6. /\ r \in AttType /\ r.req = att[k].req /\ r.filled = att[k].filled
      /\ r.st = CASE wk.pc = "rejected" -> "REJECTED" [] wk.pc = "failed" -> "FAILED"
                  [] wk.pc = "unknown" -> "SUBMISSION_UNKNOWN" [] wk.pc = "acked" -> "SUBMITTED"
  BY <1>2, <1>4, <1>5 DEF AttType, AttemptState
<1>7. /\ att' = [att EXCEPT ![k] = r]
      /\ UNCHANGED <<session, entry, pos, last, fills, xo, oco, faults>>
  BY <1>2, <1>3, <1>4, <1>5 DEF RecordExitOutcome, At
<1>8. wk.pc = "failed" => faults > 0 /\ ~r.term
  <2>1. wk.pc = "failed" => faults > 0
    BY DEF IInv, WorkerOK
  <2>2. ~att[k].term
    BY <1>3 DEF IInv, OrdersOK, OrderOK
  <2>3. wk.pc = "failed" => r.term = att[k].term
    BY <1>4, <1>5 DEF AttType
  <2> QED
    BY <2>1, <2>2, <2>3
<1>9. Rewrites(k, r) /\ RowOK(k, r)
  BY <1>2, <1>3, <1>6, <1>7, <1>8, SameQuantities DEF Rewrites
<1>10. /\ att'[k] = r /\ (\A i \in Attempts \ {k} : att'[i] = att[i])
       /\ Confirmed' = Confirmed /\ (Active' <=> Active) /\ (Undisturbed' <=> Undisturbed)
  BY <1>9, RewriteFacts
<1>11. BookedOK(wk)'
  BY <1>3, <1>6, <1>7, <1>10, StaysBooked
<1>12. CASE wk.pc \in {"rejected", "failed"}
  <2>1. Rests(wk') /\ wk'.pc = "finish"
    BY <1>3, <1>12, FinishedFacts DEF RecordExitOutcome, At, Go
  <2>2. WorkerOK(wk)' /\ NoRisk(wk') /\ wk' \in WkType
    BY <2>1 DEF Rests, WorkerOK, NoRisk, Sending, Looking, Quiet
  <2>3. CleanupAhead(wk)'
    <3>1. Undisturbed => ~(Confirmed >= pos.qty)
      <4>1. Undisturbed => wk.pc = "rejected"
        BY <1>8, <1>12 DEF Undisturbed
      <4> QED
        BY <1>1, <1>3, <4>1, NotSold
    <3> QED
      BY <1>3, <1>7, <1>10, <3>1 DEF CleanupAhead
  <2> QED
    BY <1>9, <1>11, <2>2, <2>3, RewriteHolds
<1>13. CASE wk.pc \in {"unknown", "acked"}
  <2>1. PICK l : l = LaneOn(k, "lane")
    OBVIOUS
  <2>2. wk' = l \/ wk' = [l EXCEPT !.ok = FALSE]
    BY <1>3, <1>13, <2>1 DEF RecordExitOutcome, At, Go
  <2>3. l \in WkType /\ l.pc = "lookup" /\ l.mode = "lane" /\ l.j = k /\ l.k = k
    <3>1. k \in 0..MaxAttempts /\ "lane" \in Modes
      BY <1>3, Sizes DEF Modes
    <3> QED
      BY <1>3, <2>1, <3>1, LaneOnFacts
  <2>4. wk' \in WkType /\ wk'.pc = "lookup" /\ wk'.mode = "lane" /\ wk'.j = k /\ wk'.k = k
    BY <2>2, <2>3 DEF WkType
  <2>5. WorkerOK(wk)' /\ NoRisk(wk')
    BY <1>3, <1>7, <2>4 DEF WorkerOK, NoRisk, Sending, Looking, Quiet
  <2>6. CleanupAhead(wk)'
    <3>1. att'[k].st \notin EndedAttempt
      BY <1>6, <1>10, <1>13 DEF EndedAttempt
    <3> QED
      BY <1>3, <1>10, <3>1 DEF CleanupAhead
  <2> QED
    BY <1>9, <1>11, <2>4, <2>5, <2>6, RewriteHolds
<1> QED
  BY <1>2, <1>12, <1>13

(***************************************************************************)
(* Steps that book fills, close and clean up.                              *)
(***************************************************************************)
\* Booking more on one key confirms more.
LEMMA BookingGrows ==
    ASSUME TypeOK, NEW k \in 0..MaxAttempts, NEW v \in 0..Q, fills[k] <= v,
           fills' = [fills EXCEPT ![k] = v]
    PROVE  /\ fills' \in [0..MaxAttempts -> 0..Q] /\ fills'[k] = v
           /\ \A i \in (0..MaxAttempts) \ {k} : fills'[i] = fills[i]
           /\ Confirmed' \in Nat /\ Confirmed \in Nat /\ Confirmed' >= Confirmed
<1>1. fills \in [0..MaxAttempts -> 0..Q]
  BY DEF TypeOK
<1>2. PICK g : g = fills'
  OBVIOUS
<1>3. /\ g \in [0..MaxAttempts -> 0..Q] /\ g[k] = v
      /\ \A i \in (0..MaxAttempts) \ {k} : g[i] = fills[i]
  BY <1>1, <1>2
<1>4. \A i \in 0..MaxAttempts : fills[i] <= g[i]
  <2>1. \A i \in 0..MaxAttempts : fills[i] \in 0..Q
    BY <1>1
  <2> QED
    BY <1>3, <2>1, Sizes
<1>5. fills \in Counts(0..MaxAttempts) /\ g \in Counts(0..MaxAttempts)
  BY <1>1, <1>3 DEF Counts
<1>6. Sum(fills) <= Sum(g) /\ Sum(g) \in Nat /\ Sum(fills) \in Nat
  BY <1>4, <1>5, Sizes, SumGrows, SumType
<1> QED
  BY <1>2, <1>3, <1>6 DEF Confirmed

\* A fill is booked.
LEMMA RecordExitFillHolds == ASSUME IInv, RecordExitFill PROVE IInv'
<1>1. PICK j, v : j = wk.j /\ v = att[j].filled
  OBVIOUS
<1>2. /\ wk.pc = "fill" /\ wk' = [wk EXCEPT !.pc = "settle"]
      /\ UNCHANGED <<session, entry, pos, att, last, xo, oco, faults>>
      /\ fills' = [fills EXCEPT ![j] = IF v > 0 THEN v ELSE fills[j]]
  BY <1>1 DEF RecordExitFill, At, Step, Go
<1>3. /\ wk \in WkType /\ j \in Attempts /\ wk.k \in 1..last /\ j \in 1..last
      /\ wk.mode \in {"each", "lane", "risk", "other"}
      /\ wk.mode = "other" => Active /\ Confirmed >= pos.qty
  BY <1>1, <1>2, LookingFacts DEF Looking
<1>4a. PICK u : u = IF v > 0 THEN v ELSE fills[j]
  OBVIOUS
<1>4. /\ j \in 0..MaxAttempts /\ j # 0 /\ u \in 0..Q /\ fills[j] \in 0..Q /\ fills[j] <= u
      /\ Q \in Nat /\ pos.qty \in Nat /\ u <= xo[j].filled
      /\ u <= v \/ (v = 0 /\ faults > 0)
      /\ faults = 0 => u = v
  <2>1. /\ att[j].filled \in 0..Q /\ fills[j] \in 0..Q /\ pos.qty \in 0..Q /\ xo[j].filled \in 0..Q
        /\ faults \in 0..MaxFaults
    BY <1>3, Sizes DEF IInv, TypeOK
  <2>2. /\ fills[j] <= xo[j].filled /\ v <= xo[j].filled
        /\ fills[j] <= v \/ (v = 0 /\ faults > 0)
    BY <1>1, <1>3 DEF IInv, OrdersOK, OrderOK
  <2>3. j \in 0..MaxAttempts /\ j # 0
    BY <1>3, Sizes DEF Attempts
  <2> QED
    BY <1>1, <1>4a, <2>1, <2>2, <2>3, Sizes
<1>5. fills' = [fills EXCEPT ![j] = u]
  BY <1>2, <1>4a
<1>6. /\ fills' \in [0..MaxAttempts -> 0..Q] /\ fills'[j] = u
      /\ \A i \in (0..MaxAttempts) \ {j} : fills'[i] = fills[i]
      /\ Confirmed' \in Nat /\ Confirmed \in Nat /\ Confirmed' >= Confirmed
  BY <1>4, <1>5, BookingGrows DEF IInv
<1>7. /\ wk' \in WkType /\ wk'.pc = "settle" /\ wk'.mode = wk.mode /\ wk'.j = j /\ wk'.k = wk.k
  BY <1>1, <1>2, <1>3 DEF WkType, PCs
<1>8. (Active' <=> Active) /\ (Undisturbed' <=> Undisturbed)
      /\ (Confirmed >= pos.qty => Confirmed' >= pos'.qty)
  BY <1>2, <1>4, <1>6 DEF Active, Undisturbed
<1>9. TypeOK'
  BY <1>2, <1>6, <1>7, TypesAre, TypesNext DEF IInv
<1>10. PosOK'
  BY <1>2, <1>8 DEF IInv, PosOK
<1>11. OrdersOK'
  <2>1. fills'[0] = fills[0]
    BY <1>4, <1>6, Sizes
  <2>2. \A k \in Attempts \ {j} : fills'[k] = fills[k]
    BY <1>6, Sizes
  <2>4. ASSUME NEW k \in Attempts PROVE OrderOK(k)'
    <3>1. /\ fills'[k] <= xo[k].filled /\ OrderOK(k)
          /\ fills'[k] <= att[k].filled \/ (att[k].filled = 0 /\ faults > 0)
      BY <1>1, <1>4, <1>6, <2>2 DEF IInv, OrdersOK, OrderOK
    <3> QED
      BY <1>2, <3>1 DEF OrderOK
  <2> QED
    BY <1>2, <2>1, <2>4 DEF IInv, OrdersOK
<1>12. PlanOK'
  BY <1>2 DEF IInv, PlanOK, Plan
<1>13. WorkerOK(wk)'
  BY <1>2, <1>3, <1>7, <1>8 DEF WorkerOK, Sending, Looking, Quiet
<1>14. BookedOK(wk)'
  <2>1. \A k \in Attempts \ {j} : fills'[k] = fills[k]
    BY <1>6, Sizes
  <2> QED
    BY <1>1, <1>2, <1>4, <1>6, <2>1 DEF IInv, BookedOK
<1>15. CleanupAhead(wk)' /\ NoRisk(wk)' /\ FlatProtection'
  BY <1>2, <1>7, <1>8 DEF IInv, CleanupAhead, NoRisk, FlatProtection, Closing, Looking
<1> QED
  BY <1>9, <1>10, <1>11, <1>12, <1>13, <1>14, <1>15 DEF IInv

\* The position is closed.
LEMMA CloseTradeHolds == ASSUME IInv, CloseTrade PROVE IInv'
<1>1. /\ wk.pc = "close" /\ wk' = [wk EXCEPT !.pc = "cleanup"]
      /\ pos' = [pos EXCEPT !.st = "CLOSED"] /\ entry' = [entry EXCEPT !.st = "CLOSED"]
      /\ UNCHANGED <<session, att, last, fills, xo, oco, faults>>
  BY DEF CloseTrade, At, Step, Go
<1>2. /\ wk \in WkType /\ wk.k \in 1..last /\ wk.j \in 1..last
      /\ wk.mode \in {"none", "each", "lane"} /\ Active /\ Confirmed >= pos.qty
      /\ wk.mode = "none" => wk.n = 0
  BY <1>1, CloseFacts
<1>3. /\ wk' \in WkType /\ wk'.pc = "cleanup" /\ wk'.mode = wk.mode /\ wk'.k = wk.k /\ wk'.n = wk.n
  BY <1>1, <1>2 DEF WkType, PCs
<1>4. /\ pos' \in PosType /\ pos'.st = "CLOSED" /\ pos'.qty = pos.qty
      /\ entry' \in EntryType /\ entry'.st = "CLOSED" /\ entry'.bought = entry.bought
      /\ entry'.live = entry.live
  <2>1. pos \in PosType /\ entry \in EntryType
    BY TypesAre DEF IInv
  <2> QED
    BY <1>1, <2>1 DEF PosType, EntryType
<1>5. ~Active' /\ Confirmed' = Confirmed /\ (Undisturbed' <=> Undisturbed)
  BY <1>1, <1>4 DEF Active, Confirmed, Undisturbed
<1>6. TypeOK'
  BY <1>1, <1>3, <1>4, TypesAre, TypesNext DEF IInv
<1>7. PosOK'
  BY <1>1, <1>2, <1>4, <1>5 DEF IInv, PosOK
<1>8. OrdersOK'
  BY <1>1 DEF IInv, OrdersOK, OrderOK
<1>9. PlanOK'
  BY <1>1, <1>4 DEF IInv, PlanOK, Plan
<1>10. WorkerOK(wk)'
  BY <1>1, <1>2, <1>3, <1>5 DEF WorkerOK, Sending, Looking, Quiet
<1>11. BookedOK(wk)' /\ NoRisk(wk)' /\ CleanupAhead(wk)' /\ FlatProtection'
  BY <1>1, <1>2, <1>3, <1>5
  DEF IInv, BookedOK, NoRisk, CleanupAhead, Closing, Looking, FlatProtection
<1> QED
  BY <1>6, <1>7, <1>8, <1>9, <1>10, <1>11 DEF IInv

\* Undisturbed, the position names its protective order while it is live.
LinkKnown == Undisturbed /\ oco.st = "live" => pos.ids

\* The cancel of the protective order was tried: what the worker believes of it
\* is right unless something disturbed the flatten.
LEMMA CleanupMoves ==
    ASSUME IInv, wk.pc = "cleanup", NEW ok \in BOOLEAN,
           wk' = [wk EXCEPT !.pc = "cleaned", !.ok = ok],
           UNCHANGED <<session, entry, pos, att, last, fills, xo>>,
           oco' = oco \/ oco' = [oco EXCEPT !.st = "cancelled"],
           faults' \in 0..MaxFaults, faults' >= faults,
           faults' = 0 /\ oco.filled = 0 /\ ok => oco'.st # "live"
    PROVE  IInv'
<1>2. /\ wk \in WkType /\ oco \in OcoType /\ faults \in 0..MaxFaults
  BY TypesAre DEF IInv
<1>3. /\ wk.k \in 1..last /\ ~Active /\ wk.mode # "other"
      /\ wk.mode \in {"none", "sweep"} => wk.n = 0
  BY DEF IInv, WorkerOK
<1>4. /\ oco' \in OcoType /\ oco'.filled = oco.filled /\ oco'.st \in {oco.st, "cancelled"}
  BY <1>2 DEF OcoType
<1>5. (faults' = 0 => faults = 0) /\ (faults > 0 => faults' > 0)
  BY <1>2, Sizes
<1>6. /\ wk' \in WkType /\ wk'.pc = "cleaned" /\ wk'.mode = wk.mode /\ wk'.k = wk.k
      /\ wk'.n = wk.n /\ (wk'.ok <=> ok)
  BY <1>2 DEF WkType, PCs
<1>7. /\ (Active' <=> Active) /\ Confirmed' = Confirmed /\ (Undisturbed' => Undisturbed)
      /\ wk'.ok /\ Undisturbed' => oco'.st # "live"
  BY <1>4, <1>5, <1>6 DEF Active, Confirmed, Undisturbed
<1>8. TypeOK'
  BY <1>4, <1>6, TypesAre, TypesNext DEF IInv
<1>9. PosOK'
  BY <1>3, <1>4, <1>7 DEF IInv, PosOK
<1>10. OrdersOK'
  <2>1. fills'[0] <= oco'.filled
    BY <1>4 DEF IInv, OrdersOK
  <2>2. ASSUME NEW k \in Attempts PROVE OrderOK(k)'
    BY <1>5 DEF IInv, OrdersOK, OrderOK
  <2> QED
    BY <2>1, <2>2 DEF OrdersOK
<1>11. PlanOK'
  BY <1>5 DEF IInv, PlanOK, Plan
<1>12. WorkerOK(wk)'
  BY <1>3, <1>6, <1>7 DEF WorkerOK, Sending, Looking, Quiet
<1>13. BookedOK(wk)' /\ NoRisk(wk)' /\ CleanupAhead(wk)' /\ FlatProtection'
  BY <1>3, <1>4, <1>5, <1>6, <1>7
  DEF IInv, BookedOK, NoRisk, CleanupAhead, Closing, Looking, FlatProtection
<1> QED
  BY <1>8, <1>9, <1>10, <1>11, <1>12, <1>13 DEF IInv

\* The protective order is cancelled.
LEMMA CleanupCancelHolds == ASSUME IInv, LinkKnown, CleanupCancel PROVE IInv'
<1>1. wk.pc = "cleanup" /\ UNCHANGED <<session, entry, pos, att, last, fills, xo, faults>>
  BY DEF CleanupCancel, At
<1>2. /\ oco \in OcoType /\ faults' \in 0..MaxFaults /\ faults' >= faults
  BY <1>1, TypesAre, Sizes DEF IInv
<1>3. PICK ok \in BOOLEAN :
          /\ wk' = [wk EXCEPT !.pc = "cleaned", !.ok = ok]
          /\ \/ ~pos.ids /\ ok /\ UNCHANGED oco
             \/ pos.ids /\ oco.st = "live" /\ ok /\ oco' = [oco EXCEPT !.st = "cancelled"]
             \/ pos.ids /\ oco.st = "live" /\ ~ok /\ UNCHANGED oco
             \/ pos.ids /\ oco.st # "live" /\ UNCHANGED oco
  BY DEF CleanupCancel, Go
<1>4. faults' = 0 /\ oco.filled = 0 /\ ok => oco'.st # "live"
  BY <1>1, <1>2, <1>3 DEF LinkKnown, Undisturbed, OcoType
<1>5. oco' = oco \/ oco' = [oco EXCEPT !.st = "cancelled"]
  BY <1>3
<1> QED
  BY <1>1, <1>2, <1>3, <1>4, <1>5, CleanupMoves

\* The clean-up is misread.
LEMMA CleanupMisreadHolds == ASSUME IInv, CleanupMisread PROVE IInv'
<1>1. /\ wk.pc = "cleanup" /\ UNCHANGED <<session, entry, pos, att, last, fills, xo>>
      /\ faults < MaxFaults /\ faults' = faults + 1 /\ oco.st = "live"
  BY DEF CleanupMisread, Fault, At
<1>2. oco \in OcoType /\ faults \in 0..MaxFaults
  BY TypesAre DEF IInv
<1>3. faults' \in 0..MaxFaults /\ faults' >= faults /\ faults' # 0
  BY <1>1, <1>2, Sizes
<1>4. PICK ok \in BOOLEAN : /\ wk' = [wk EXCEPT !.pc = "cleaned", !.ok = ok]
                            /\ oco' = [oco EXCEPT !.st = IF ok THEN "live" ELSE "cancelled"]
  BY DEF CleanupMisread, Go
<1>5. oco' = oco \/ oco' = [oco EXCEPT !.st = "cancelled"]
  BY <1>1, <1>2, <1>4 DEF OcoType
<1> QED
  BY <1>1, <1>3, <1>4, <1>5, CleanupMoves

(***************************************************************************)
(* Steps of the latest attempt's order.                                    *)
(***************************************************************************)
\* The order of the latest attempt becomes o.
LEMMA OrderMoves ==
    ASSUME IInv, last \in Attempts, NEW o, o \in OrderType,
           xo' = [xo EXCEPT ![last] = o],
           UNCHANGED <<session, entry, pos, att, last, fills, oco>>,
           faults' \in 0..MaxFaults, faults' >= faults,
           xo[last].filled <= o.filled, o.filled <= att[last].req,
           o.st \in {"none", "transit"} => o.filled = 0,
           o.st = "live" => o.filled < att[last].req,
           att[last].st \notin {"CANCELLED", "REJECTED"},
           wk' \in WkType, WorkerOK(wk)', BookedOK(wk)', CleanupAhead(wk)', NoRisk(wk)'
    PROVE  IInv'
<1>0. xo \in [Attempts -> OrderType] /\ faults \in 0..MaxFaults
  BY TypesAre DEF IInv
<1>1. xo' \in [Attempts -> OrderType] /\ xo'[last] = o /\ \A k \in Attempts \ {last} : xo'[k] = xo[k]
  BY <1>0
<1>2. TypeOK'
  BY <1>1, TypesAre, TypesNext DEF IInv
<1>3. (Active' <=> Active) /\ Confirmed' = Confirmed /\ (Undisturbed' => Undisturbed)
      /\ (faults' = 0 => faults = 0) /\ (faults > 0 => faults' > 0)
  BY <1>0, Sizes DEF Active, Confirmed, Undisturbed
<1>4. PosOK' /\ FlatProtection'
  BY <1>3 DEF IInv, PosOK, FlatProtection
<1>5. OrdersOK'
  <2>1. ASSUME NEW k \in Attempts \ {last} PROVE OrderOK(k)'
    BY <1>1, <1>3 DEF IInv, OrdersOK, OrderOK
  <2>2. OrderOK(last)'
    <3>1. OrderOK(last) /\ last \in Nat
      BY Sizes DEF IInv, OrdersOK, TypeOK
    <3>2. att[last].filled <= o.filled /\ fills[last] <= o.filled
      <4>1. /\ att[last].filled \in 0..Q /\ xo[last].filled \in 0..Q /\ o.filled \in 0..Q
            /\ fills[last] \in 0..Q
        BY <1>0, Sizes DEF IInv, TypeOK, OrderType
      <4> QED
        BY <3>1, <4>1, Sizes DEF OrderOK
    <3> QED
      BY <1>1, <1>3, <3>1, <3>2 DEF OrderOK
  <2> QED
    BY <2>1, <2>2 DEF IInv, OrdersOK
<1>6. PlanOK'
  <2>1. Plan' = Plan
    BY <1>1 DEF Plan
  <2> QED
    BY <1>3, <2>1 DEF IInv, PlanOK
<1> QED
  BY <1>2, <1>4, <1>5, <1>6 DEF IInv

\* create_flatten_intent: the plan grows by what is left of the position.
LEMMA PrepareExitHolds == ASSUME IInv, PrepareExit PROVE IInv'
<1>1. /\ wk.pc = "decide" /\ Active /\ MayRetry /\ Confirmed < pos.qty
      /\ last < MaxAttempts /\ last' = last + 1
      /\ UNCHANGED <<session, entry, pos, fills, xo, oco, faults>>
  BY DEF PrepareExit, At
<1>2. PICK n, v : n = last + 1 /\ v = pos.qty - Confirmed
  OBVIOUS
<1>3. PICK r : r = [NoAttempt EXCEPT !.st = "PREPARED", !.req = v]
  OBVIOUS
<1>4. /\ att' = [att EXCEPT ![n] = r] /\ last' = n
      /\ wk' = [wk EXCEPT !.pc = "send", !.k = n, !.j = n]
  BY <1>1, <1>2, <1>3 DEF PrepareExit, Go
<1>5. /\ last \in 0..MaxAttempts /\ pos.qty \in 0..Q /\ Confirmed \in Nat /\ wk \in WkType
      /\ att \in [Attempts -> AttType] /\ xo \in [Attempts -> OrderType]
      /\ fills \in [0..MaxAttempts -> 0..Q]
  BY TypesAre, CountTypes DEF IInv, PosType
<1>6. /\ n \in Attempts /\ n \in 1..n /\ n \in 0..MaxAttempts /\ n > last /\ v \in 0..Q /\ v >= 1
      /\ v + Confirmed = pos.qty
  <2>1. Q \in Nat /\ MaxAttempts \in Nat
    BY Sizes
  <2>2. /\ n \in 1..MaxAttempts /\ n \in 1..n /\ n \in 0..MaxAttempts /\ n > last
    BY <1>1, <1>2, <1>5, <2>1
  <2>3. PICK c, q : c = Confirmed /\ q = pos.qty
    OBVIOUS
  <2>4. c \in Nat /\ q \in 0..Q /\ c < q /\ v = q - c
    BY <1>1, <1>2, <1>5, <2>3
  <2>5. v \in 0..Q /\ v >= 1 /\ v + c = q
    BY <2>1, <2>4
  <2> QED
    BY <2>2, <2>3, <2>5 DEF Attempts
<1>7. r = [st |-> "PREPARED", req |-> v, filled |-> 0, id |-> FALSE, term |-> FALSE]
  BY <1>3 DEF NoAttempt
<1>8. r \in AttType
  BY <1>6, <1>7, Sizes DEF AttType, AttemptState
<1>9. /\ att' \in [Attempts -> AttType] /\ att'[n] = r
      /\ \A k \in Attempts \ {n} : att'[k] = att[k]
  BY <1>4, <1>5, <1>6, <1>8
<1>10. /\ wk' \in WkType /\ wk'.pc = "send" /\ wk'.mode = "none" /\ wk'.k = n /\ wk'.n = 0
  <2>1. wk.mode = "none" /\ wk.n = 0
    BY <1>1, QuietFacts DEF Quiet
  <2> QED
    BY <1>4, <1>5, <1>6, <2>1 DEF WkType, PCs
<1>11. TypeOK'
  BY <1>1, <1>4, <1>6, <1>9, <1>10, TypesAre, TypesNext DEF IInv
<1>12. (Active' <=> Active) /\ Confirmed' = Confirmed /\ (Undisturbed' <=> Undisturbed)
  BY <1>1 DEF Active, Confirmed, Undisturbed
<1>13. PosOK' /\ FlatProtection'
  BY <1>1, <1>7, <1>9, <1>12 DEF IInv, PosOK, FlatProtection
<1>14. /\ xo[n].st = "none" /\ xo[n].filled = 0 /\ fills[n] = 0 /\ att[n] = NoAttempt
  <2>1. OrderOK(n) /\ fills[n] \in 0..Q
    BY <1>5, <1>6 DEF IInv, OrdersOK
  <2>2. xo[n].st = "none" /\ xo[n].filled = 0 /\ att[n] = NoAttempt
    BY <1>6, <2>1 DEF OrderOK
  <2>3. fills[n] <= 0
    BY <2>1, <2>2 DEF OrderOK
  <2> QED
    BY <2>1, <2>2, <2>3, Sizes
<1>15. last \in Attempts => /\ xo[last].st \notin {"transit", "live"}
                            /\ att[last].filled = xo[last].filled
  <2> SUFFICES ASSUME last \in Attempts
               PROVE  /\ xo[last].st \notin {"transit", "live"}
                      /\ att[last].filled = xo[last].filled
    OBVIOUS
  <2>1. att[last].st \in {"CANCELLED", "REJECTED", "FAILED"} /\ att[last].term
    BY <1>1, Sizes DEF MayRetry, Latest, Attempts
  <2>2. OrderOK(last) /\ att[last].filled \in 0..Q
    BY <1>5 DEF IInv, OrdersOK, AttType
  <2> QED
    BY <2>1, <2>2, Sizes DEF OrderOK
<1>16. OrdersOK'
  <2>1. ASSUME NEW k \in Attempts PROVE OrderOK(k)'
    <3>1. CASE k = n
      BY <1>1, <1>4, <1>6, <1>7, <1>9, <1>14, <3>1, Sizes DEF OrderOK
    <3>2. CASE k # n
      <4>1. OrderOK(k) /\ att'[k] = att[k] /\ k \in Nat /\ last \in Nat
        BY <1>5, <1>9, <3>2, Sizes DEF IInv, OrdersOK, Attempts
      <4>2. (k < last' => k < last \/ k = last) /\ (k > last' => k > last) /\ (k <= last' => k <= last)
        BY <1>1, <3>2, <4>1, <1>2
      <4> QED
        BY <1>1, <1>15, <4>1, <4>2 DEF OrderOK
    <3> QED
      BY <3>1, <3>2
  <2> QED
    BY <1>1, <2>1 DEF IInv, OrdersOK
<1>17. faults = 0 => \A k \in Attempts : fills[k] = xo[k].filled
  <2> SUFFICES ASSUME faults = 0, NEW k \in Attempts PROVE fills[k] = xo[k].filled
    OBVIOUS
  <2>1. fills[k] = att[k].filled /\ OrderOK(k) /\ k \in Nat /\ last \in Nat
    BY <1>1, <1>5, Sizes DEF IInv, BookedOK, OrdersOK, Attempts
  <2>2. CASE k < last
    BY <2>1, <2>2 DEF OrderOK
  <2>3. CASE k = last
    BY <1>15, <2>1, <2>3
  <2>4. CASE k > last
    BY <2>1, <2>4 DEF OrderOK, NoAttempt
  <2> QED
    BY <2>1, <2>2, <2>3, <2>4
<1>18. PlanOK'
  <2> SUFFICES ASSUME faults = 0 PROVE (Sum(Plan) <= pos.qty)'
    BY <1>1 DEF PlanOK
  <2>1. PICK g : g = Plan'
    OBVIOUS
  <2>2. g = [k \in Attempts |-> IF k = n THEN v ELSE xo[k].filled]
    BY <1>1, <1>4, <1>7, <1>9, <2>1 DEF Plan
  <2>3. XoCounts \in Counts(Attempts) /\ fills \in Counts(0..MaxAttempts)
    BY CountTypes DEF IInv
  <2>4. /\ g \in Counts(Attempts) /\ g[n] = v /\ XoCounts[n] = 0
        /\ \A k \in Attempts \ {n} : g[k] = XoCounts[k]
    BY <1>5, <1>6, <1>14, <2>2, <2>3 DEF XoCounts, Counts, OrderType
  <2>5. Sum(g) = Sum(XoCounts) + v
    BY <1>6, <2>3, <2>4, Sizes, SumAdds
  <2>6. \A k \in Attempts : XoCounts[k] <= fills[k]
    <3>1. \A k \in Attempts : XoCounts[k] = fills[k] /\ fills[k] \in 0..Q
      BY <1>5, <1>17, Sizes DEF XoCounts
    <3> QED
      BY <3>1, Sizes
  <2>7. Sum(XoCounts) <= Confirmed
    BY <2>3, <2>6, Sizes, SumGrows DEF Confirmed
  <2>8. Sum(XoCounts) \in Nat
    BY CountTypes DEF IInv
  <2>9. Sum(g) <= pos.qty
    BY <1>5, <1>6, <2>5, <2>7, <2>8, Sizes
  <2> QED
    BY <1>1, <2>1, <2>9
<1>19. WorkerOK(wk)' /\ NoRisk(wk)'
  <2>1. /\ last' = n /\ n >= 1 /\ att'[n].st = "PREPARED" /\ xo'[n].st = "none" /\ Active'
    BY <1>1, <1>4, <1>6, <1>7, <1>9, <1>12, <1>14, Sizes
  <2> QED
    BY <1>10, <2>1 DEF WorkerOK, NoRisk, Sending, Looking, Quiet
<1>20. BookedOK(wk)'
  BY <1>1, <1>7, <1>9, <1>14 DEF IInv, BookedOK
<1>21. CleanupAhead(wk)'
  BY <1>1, <1>6, <1>7, <1>9, <1>12 DEF CleanupAhead, EndedAttempt
<1> QED
  BY <1>11, <1>13, <1>16, <1>18, <1>19, <1>20, <1>21 DEF IInv

\* The attempt is sent.
LEMMA SendExitHolds == ASSUME IInv, SendExit PROVE IInv'
<1>1. wk.pc = "send" /\ UNCHANGED <<session, entry, pos, att, last, fills, oco, faults>>
  BY DEF SendExit, At
<1>2. /\ wk \in WkType /\ wk.mode = "none" /\ wk.n = 0 /\ wk.k = last
      /\ last \in 1..last /\ last \in Attempts /\ att[last].st = "PREPARED" /\ Active
      /\ xo[last].st = "none" /\ ~Closing(wk) /\ wk.pc # "fill"
  BY <1>1, SendingFacts DEF Sending
<1>3. PICK pc \in {"rejected", "unknown", "acked"}, b \in BOOLEAN :
          /\ wk' = [wk EXCEPT !.pc = pc, !.ok = b]
          /\ \/ pc = "rejected" /\ UNCHANGED xo
             \/ pc = "unknown" /\ xo' = [xo EXCEPT ![last].st = "transit"]
             \/ pc = "acked" /\ xo' = [xo EXCEPT ![last].st = "live"]
  <2>1. wk.ok \in BOOLEAN /\ \A pc : [wk EXCEPT !.pc = pc] = [wk EXCEPT !.pc = pc, !.ok = wk.ok]
    BY <1>2 DEF WkType
  <2> QED
    BY <1>2, <2>1 DEF SendExit, Step, Go
<1>4. /\ wk' \in WkType /\ wk'.pc = pc /\ wk'.mode = "none" /\ wk'.n = 0 /\ wk'.k = last
  BY <1>2, <1>3 DEF WkType, PCs
<1>5. /\ (Active' <=> Active) /\ Confirmed' = Confirmed /\ (Undisturbed' <=> Undisturbed)
  BY <1>1 DEF Active, Confirmed, Undisturbed
<1>6. xo \in [Attempts -> OrderType] /\ OrderOK(last) /\ last \in Nat /\ faults \in 0..MaxFaults
  BY <1>2, TypesAre, Sizes DEF IInv, OrdersOK
<1>7. /\ xo[last].filled = 0 /\ att[last].req >= 1 /\ att[last].req \in 0..Q
      /\ xo[last] \in OrderType
  BY <1>2, <1>6 DEF OrderOK, IInv, TypeOK
<1>8. BookedOK(wk)' /\ NoRisk(wk)'
  BY <1>1, <1>2, <1>4 DEF IInv, BookedOK, NoRisk
<1>9. CleanupAhead(wk)'
  BY <1>1, <1>2, <1>3, <1>4, <1>5 DEF IInv, CleanupAhead, Looking
<1>10. CASE pc = "rejected" /\ UNCHANGED xo
  <2>1. WorkerOK(wk)'
    BY <1>1, <1>2, <1>4, <1>5, <1>10, Sizes DEF WorkerOK, Sending, Looking, Quiet
  <2>2. WorkerOK(wk') /\ BookedOK(wk') /\ CleanupAhead(wk') /\ NoRisk(wk')
    BY <1>1, <1>5, <1>8, <1>9, <1>10, <2>1 DEF WorkerOK, BookedOK, CleanupAhead, NoRisk, Closing
  <2> QED
    BY <1>1, <1>4, <1>10, <2>2, WorkerMoves, TypesAre DEF IInv, Ledger
<1>11. CASE pc # "rejected"
  <2>1. PICK s \in {"transit", "live"} : xo' = [xo EXCEPT ![last].st = s]
    BY <1>3, <1>11
  <2>2. PICK o : o = [xo[last] EXCEPT !.st = s]
    OBVIOUS
  <2>3. o \in OrderType /\ o.st = s /\ o.filled = 0 /\ xo' = [xo EXCEPT ![last] = o]
    BY <1>2, <1>6, <1>7, <2>1, <2>2 DEF OrderType
  <2>4. WorkerOK(wk)'
    BY <1>1, <1>2, <1>3, <1>4, <1>5, <1>11, Sizes DEF WorkerOK, Sending, Looking, Quiet
  <2>5. /\ xo[last].filled <= o.filled /\ o.filled <= att[last].req
        /\ o.filled < att[last].req /\ faults' >= faults /\ faults' \in 0..MaxFaults
    BY <1>1, <1>6, <1>7, <2>3, Sizes
  <2> QED
    BY <1>1, <1>2, <1>4, <1>8, <1>9, <2>3, <2>4, <2>5, OrderMoves
<1> QED
  BY <1>3, <1>10, <1>11

\* After a fault the invariant says nothing of an undisturbed flatten.
LEMMA FaultMoves ==
    ASSUME IInv, faults < MaxFaults, faults' = faults + 1,
           UNCHANGED <<entry, pos, att, last, fills, xo, oco>>,
           wk' \in WkType, WorkerOK(wk)',
           session' \in {"FLATTENING", "FLAT", "DEGRADED"}, session' = "FLAT" => session = "FLAT"
    PROVE  IInv'
<1>1. faults \in 0..MaxFaults /\ faults' \in 0..MaxFaults /\ faults' > 0 /\ faults' # 0
  BY TypesAre, Sizes DEF IInv
<1>2. (Active' <=> Active) /\ Confirmed' = Confirmed /\ ~Undisturbed'
  BY <1>1 DEF Active, Confirmed, Undisturbed
<1>3. TypeOK'
  BY <1>1, TypesAre, TypesNext DEF IInv
<1>4. PosOK'
  BY <1>2 DEF IInv, PosOK
<1>5. OrdersOK'
  BY <1>1 DEF IInv, OrdersOK, OrderOK
<1> QED
  BY <1>1, <1>2, <1>3, <1>4, <1>5 DEF IInv, PlanOK, BookedOK, CleanupAhead, NoRisk, FlatProtection

\* Its submission raised, before or after it was sent.
LEMMA SendExitFailsHolds == ASSUME IInv, SendExitFails PROVE IInv'
<1>1. /\ wk.pc = "send" /\ wk' = [wk EXCEPT !.pc = "failed"]
      /\ faults < MaxFaults /\ faults' = faults + 1
      /\ UNCHANGED <<session, entry, pos, att, last, fills, oco>>
  BY DEF SendExitFails, Fault, At, Step, Go
<1>2. /\ wk \in WkType /\ wk.mode = "none" /\ wk.n = 0 /\ wk.k = last /\ last \in Attempts
      /\ last \in 1..last /\ att[last].st = "PREPARED" /\ Active /\ xo[last].st = "none"
  BY <1>1, SendingFacts DEF Sending
<1>3. /\ wk' \in WkType /\ wk'.pc = "failed" /\ wk'.mode = "none" /\ wk'.n = 0 /\ wk'.k = last
  <2>1. wk' \in WkType
    BY <1>1, <1>2 DEF WkType, PCs
  <2> QED
    BY <1>1, <1>2, <2>1 DEF WkType
<1>4. /\ faults' > 0 /\ faults' # 0 /\ faults' \in 0..MaxFaults /\ faults' >= faults
      /\ last >= 1 /\ (Active' <=> Active)
  BY <1>1, <1>2, Sizes DEF IInv, TypeOK, Active
<1>5. WorkerOK(wk)'
  BY <1>1, <1>2, <1>3, <1>4 DEF WorkerOK, Sending, Looking, Quiet
<1>6. BookedOK(wk)' /\ CleanupAhead(wk)' /\ NoRisk(wk)'
  BY <1>4 DEF BookedOK, CleanupAhead, NoRisk, Undisturbed
<1>7. PICK st \in {"none", "transit"} : xo' = [xo EXCEPT ![last].st = st]
  BY <1>2 DEF SendExitFails
<1>8. PICK o : o = [xo[last] EXCEPT !.st = st]
  OBVIOUS
<1>9. /\ xo \in [Attempts -> OrderType] /\ xo[last] \in OrderType /\ OrderOK(last) /\ last \in Nat
      /\ att[last].req \in 0..Q
  BY <1>2, TypesAre, Sizes DEF IInv, OrdersOK, AttType
<1>10. xo[last].filled = 0 /\ att[last].req >= 1
  BY <1>2, <1>9 DEF OrderOK
<1>11. o \in OrderType /\ o.st = st /\ o.filled = 0 /\ xo' = [xo EXCEPT ![last] = o]
  BY <1>2, <1>7, <1>8, <1>9, <1>10 DEF OrderType
<1>12. xo[last].filled <= o.filled /\ o.filled <= att[last].req
  BY <1>9, <1>10, <1>11, Sizes
<1> QED
  BY <1>1, <1>2, <1>3, <1>4, <1>5, <1>6, <1>11, <1>12, OrderMoves

\* A row that could not be read in full is recorded: r is attempt k's new row.
LEMMA FaultRewrites ==
    ASSUME IInv, NEW k \in 1..last, NEW r \in AttType, r.req = att[k].req,
           att' = [att EXCEPT ![k] = r], UNCHANGED <<session, entry, pos, last, fills, xo, oco>>,
           faults < MaxFaults, faults' = faults + 1,
           r.filled = 0 \/ r.filled = xo[k].filled,
           r.st \notin {"NONE", "PREPARED", "FAILED", "PROTECTION_CLEANUP_INCOMPLETE"},
           r.st = "CANCELLED" => xo[k].st = "canceled" /\ r.filled = xo[k].filled,
           r.st = "REJECTED" => xo[k].st = "rejected" /\ r.filled = xo[k].filled,
           wk' \in WkType, WorkerOK(wk)'
    PROVE  IInv'
<1>1. /\ faults \in 0..MaxFaults /\ faults' \in 0..MaxFaults /\ faults' > 0 /\ faults' # 0
      /\ last \in 0..MaxAttempts /\ att \in [Attempts -> AttType]
  BY TypesAre, Sizes DEF IInv
<1>2. k \in Attempts /\ k <= last /\ ~(k > last)
  BY <1>1, Sizes DEF Attempts
<1>3. /\ att' \in [Attempts -> AttType] /\ att'[k] = r
      /\ \A i \in Attempts \ {k} : att'[i] = att[i]
  BY <1>1, <1>2
<1>4. (Active' <=> Active) /\ Confirmed' = Confirmed /\ ~Undisturbed'
  BY <1>1 DEF Active, Confirmed, Undisturbed
<1>5. TypeOK'
  BY <1>1, <1>3, TypesAre, TypesNext DEF IInv
<1>6. PosOK'
  BY <1>3, <1>4 DEF IInv, PosOK
<1>7. OrdersOK'
  <2>1. ASSUME NEW i \in Attempts \ {k} PROVE OrderOK(i)'
    BY <1>1, <1>3 DEF IInv, OrdersOK, OrderOK
  <2>2. OrderOK(k)'
    <3>1. OrderOK(k)
      BY <1>2 DEF IInv, OrdersOK
    <3>2. /\ r.filled <= xo[k].filled
          /\ fills[k] <= r.filled \/ r.filled = 0
      <4>1. xo[k].filled \in 0..Q /\ fills[k] <= xo[k].filled
        BY <1>2, <3>1 DEF IInv, TypeOK, OrderOK
      <4> QED
        BY <4>1, Sizes
    <3> QED
      BY <1>1, <1>2, <1>3, <3>1, <3>2 DEF OrderOK
  <2> QED
    BY <2>1, <2>2 DEF IInv, OrdersOK
<1> QED
  BY <1>1, <1>4, <1>5, <1>6, <1>7
  DEF IInv, PlanOK, BookedOK, CleanupAhead, NoRisk, FlatProtection

\* A row without an average, or without a state that is known.
LEMMA MisreadRowHolds ==
    ASSUME IInv, ReconcileSeenNoAverage \/ ReconcileUnrecognised PROVE IInv'
<1>1. /\ wk.pc = "lookup" /\ UNCHANGED <<session, entry, pos, last, fills, xo, oco>>
      /\ faults < MaxFaults /\ faults' = faults + 1
  BY DEF ReconcileSeenNoAverage, ReconcileUnrecognised, Seen, Fault, At
<1>2. PICK j : j = wk.j
  OBVIOUS
<1>3. /\ wk \in WkType /\ j \in Attempts /\ wk.k \in 1..last /\ j \in 1..last
      /\ wk.mode \in {"each", "lane", "risk", "other"} /\ last \in 0..MaxAttempts
      /\ wk.mode = "other" => Active /\ Confirmed >= pos.qty
  BY <1>1, <1>2, LookingFacts DEF Looking
<1>4. PICK pc \in {"fill", "settle"} : wk' = [wk EXCEPT !.pc = pc]
  BY DEF ReconcileSeenNoAverage, ReconcileUnrecognised, Step, Go
<1>5. /\ wk' \in WkType /\ wk'.pc = pc /\ wk'.mode = wk.mode /\ wk'.j = j /\ wk'.k = wk.k
  BY <1>2, <1>3, <1>4 DEF WkType, PCs
<1>6. (Active' <=> Active) /\ Confirmed' = Confirmed
  BY <1>1 DEF Active, Confirmed
<1>7. WorkerOK(wk)'
  BY <1>1, <1>3, <1>5, <1>6 DEF WorkerOK, Sending, Looking, Quiet
<1>8. PICK st, f : /\ att' = [att EXCEPT ![j] = [att[j] EXCEPT !.st = st, !.filled = f,
                                                            !.id = TRUE, !.term = FALSE]]
                   /\ \/ st = RemoteState(j) /\ f = xo[j].filled
                      \/ st \in {"CANCEL_REQUESTED", "SUBMITTED"} /\ f = 0
  <2>1. CASE ReconcileSeenNoAverage
    BY <1>2, <2>1 DEF ReconcileSeenNoAverage, Seen
  <2>2. CASE ReconcileUnrecognised
    BY <1>2, <2>2 DEF ReconcileUnrecognised, Seen
  <2> QED
    BY <2>1, <2>2
<1>9. PICK r : r = [att[j] EXCEPT !.st = st, !.filled = f, !.id = TRUE, !.term = FALSE]
  OBVIOUS
<1>10. /\ att[j] \in AttType /\ xo[j].filled \in 0..Q /\ 0 \in 0..Q
  BY <1>3, TypesAre, Sizes DEF IInv, OrderType
<1>11. /\ st \in {"CANCELLED", "REJECTED", "FILLED", "CANCEL_REQUESTED", "SUBMITTED",
                  "PARTIALLY_FILLED", "OPEN"}
       /\ st = "CANCELLED" => xo[j].st = "canceled" /\ f = xo[j].filled
       /\ st = "REJECTED" => xo[j].st = "rejected" /\ f = xo[j].filled
       /\ f \in 0..Q /\ (f = 0 \/ f = xo[j].filled)
  BY <1>8, <1>10, RemoteFacts
<1>12. /\ r \in AttType /\ r.req = att[j].req /\ r.st = st /\ r.filled = f
       /\ att' = [att EXCEPT ![j] = r]
  BY <1>8, <1>9, <1>10, <1>11 DEF AttType, AttemptState
<1> QED
  BY <1>1, <1>3, <1>5, <1>7, <1>11, <1>12, FaultRewrites

\* The process dies and starts again.
LEMMA CrashHolds == ASSUME IInv, Crash PROVE IInv'
<1>1. /\ wk' = Idle /\ faults < MaxFaults /\ faults' = faults + 1
      /\ UNCHANGED <<entry, pos, att, last, fills, xo, oco>>
      /\ session' \in {"FLATTENING", "FLAT", "DEGRADED"}
      /\ session' = "FLAT" => session = "FLAT"
  BY TypesAre DEF Crash, Fault, Go, IInv
<1>2. WorkerOK(wk)' /\ wk' \in WkType
  BY <1>1, IdleRests DEF Rests, WorkerOK, Sending, Looking, Quiet
<1> QED
  BY <1>1, <1>2, FaultMoves

\* An order that works is the latest attempt's, and is not being sent.
LEMMA WorkingFacts ==
    ASSUME IInv, NEW k \in Attempts, xo[k].st \in {"transit", "live"}
    PROVE  /\ k = last /\ OrderOK(k) /\ xo[k] \in OrderType /\ xo \in [Attempts -> OrderType]
           /\ att[k].st \notin {"CANCELLED", "REJECTED"}
           /\ wk.pc \notin {"send", "rejected"}
           /\ att[k].req \in 0..Q /\ att[k].req >= 1 /\ xo[k].filled \in 0..Q
           /\ xo[k].st = "transit" => xo[k].filled = 0
           /\ xo[k].st = "live" => xo[k].filled < att[k].req
<1>1. OrderOK(k) /\ k \in Nat /\ last \in Nat
  BY Sizes DEF IInv, OrdersOK, TypeOK, Attempts
<1>2. k = last /\ att[k].st \notin {"CANCELLED", "REJECTED"}
  BY <1>1 DEF OrderOK
<1>3. wk.pc \notin {"send", "rejected"}
  BY <1>2 DEF IInv, WorkerOK
<1>4. /\ xo[k] \in OrderType /\ xo \in [Attempts -> OrderType]
      /\ att[k].req \in 0..Q /\ xo[k].filled \in 0..Q
  BY TypesAre DEF IInv, AttType, OrderType
<1> QED
  BY <1>1, <1>2, <1>3, <1>4 DEF OrderOK

\* The exchange handles an exit order.
LEMMA ExchangeOrderHolds ==
    ASSUME IInv, NEW k \in Attempts, ExArrive(k) \/ ExLose(k) \/ ExSell(k) \/ ExCut(k)
    PROVE  IInv'
<1>1. xo[k].st \in {"transit", "live"} /\ UNCHANGED <<session, entry, pos, att, last, fills, oco, wk>>
  BY DEF ExArrive, ExLose, ExSell, ExCut
<1>2. /\ k = last /\ OrderOK(k) /\ xo[k] \in OrderType /\ xo \in [Attempts -> OrderType]
      /\ att[k].st \notin {"CANCELLED", "REJECTED"}
      /\ wk.pc \notin {"send", "rejected"}
      /\ att[k].req \in 0..Q /\ att[k].req >= 1 /\ xo[k].filled \in 0..Q
      /\ xo[k].st = "transit" => xo[k].filled = 0
      /\ xo[k].st = "live" => xo[k].filled < att[k].req
  BY <1>1, WorkingFacts
<1>3. /\ faults \in 0..MaxFaults /\ faults' \in 0..MaxFaults /\ faults' >= faults
      /\ faults' = 0 => faults = 0
  BY TypesAre, Sizes DEF ExArrive, ExLose, ExSell, ExCut, Fault, IInv
<1>4. /\ (Active' <=> Active) /\ Confirmed' = Confirmed /\ (Undisturbed' => Undisturbed)
  BY <1>1, <1>3 DEF Active, Confirmed, Undisturbed
<1>5. WorkerOK(wk)'
  <2>1. faults > 0 => faults' > 0
    BY <1>3
  <2> QED
    BY <1>1, <1>2, <1>4, <2>1 DEF IInv, WorkerOK
<1>6. BookedOK(wk)' /\ NoRisk(wk)' /\ CleanupAhead(wk)' /\ wk' \in WkType
  BY <1>1, <1>3, <1>4, TypesAre DEF IInv, BookedOK, NoRisk, CleanupAhead, Closing
<1>7. PICK o : /\ o \in OrderType /\ xo' = [xo EXCEPT ![k] = o]
               /\ xo[k].filled <= o.filled /\ o.filled <= att[k].req
               /\ o.st \in {"none", "transit"} => o.filled = 0
               /\ o.st = "live" => o.filled < att[k].req
  <2>1. ASSUME NEW s \in {"none", "live", "canceled", "rejected"}, xo' = [xo EXCEPT ![k].st = s],
               s = "none" => xo[k].st = "transit"
        PROVE  \E o : /\ o \in OrderType /\ xo' = [xo EXCEPT ![k] = o]
                      /\ xo[k].filled <= o.filled /\ o.filled <= att[k].req
                      /\ o.st \in {"none", "transit"} => o.filled = 0
                      /\ o.st = "live" => o.filled < att[k].req
    <3>1. PICK o : o = [xo[k] EXCEPT !.st = s]
      OBVIOUS
    <3>2. o \in OrderType /\ o.st = s /\ o.filled = xo[k].filled /\ xo' = [xo EXCEPT ![k] = o]
      BY <1>2, <2>1, <3>1 DEF OrderType
    <3>3. PICK f, q : f = xo[k].filled /\ q = att[k].req
      OBVIOUS
    <3>4. /\ f \in 0..Q /\ q \in 0..Q /\ q >= 1
          /\ xo[k].st = "transit" => f = 0
          /\ xo[k].st = "live" => f < q
      BY <1>2, <3>3
    <3>5. f < q /\ f <= q /\ f <= f
      BY <1>1, <3>4, Sizes
    <3>6. s \in {"none", "transit"} => f = 0
      BY <2>1, <3>4
    <3> QED
      BY <3>2, <3>3, <3>5, <3>6
  <2>2. CASE ExArrive(k)
    BY <2>1, <2>2 DEF ExArrive
  <2>3. CASE ExLose(k)
    BY <2>1, <2>3 DEF ExLose
  <2>4. CASE ExCut(k)
    BY <2>1, <2>4 DEF ExCut
  <2>5. CASE ExSell(k)
    <3>1. PICK m : m = xo[k].filled + 1
      OBVIOUS
    <3>2. PICK s : s = IF m = att[k].req THEN "filled" ELSE "live"
      OBVIOUS
    <3>3. PICK o : o = [xo[k] EXCEPT !.filled = m, !.st = s]
      OBVIOUS
    <3>4. m \in 0..Q /\ m <= att[k].req /\ xo[k].filled <= m /\ (m # att[k].req => m < att[k].req)
      BY <1>2, <2>5, <3>1, Sizes DEF ExSell
    <3>5. o \in OrderType /\ o.st = s /\ o.filled = m
      BY <1>2, <3>2, <3>3, <3>4 DEF OrderType
    <3>6. xo' = [xo EXCEPT ![k] = o]
      BY <1>2, <2>5, <3>1, <3>2, <3>3 DEF ExSell
    <3> QED
      BY <3>2, <3>4, <3>5, <3>6
  <2> QED
    BY <2>2, <2>3, <2>4, <2>5
<1> QED
  BY <1>1, <1>2, <1>3, <1>5, <1>6, <1>7, OrderMoves

(***************************************************************************)
(* Steps of the entry and of the protective order.                         *)
(***************************************************************************)
\* The entry and the managed quantity change; a position that is closed, or
\* that the worker is closing, keeps its quantity.
LEMMA EntryMoves ==
    ASSUME IInv, entry' \in EntryType, pos' \in PosType,
           UNCHANGED <<session, att, last, fills, xo, oco>>,
           faults' \in 0..MaxFaults, faults' >= faults,
           entry'.st = "CLOSED" <=> entry.st = "CLOSED",
           pos'.st = "CLOSED" <=> pos.st = "CLOSED",
           pos.qty <= pos'.qty, pos'.qty <= entry'.bought, entry.bought <= entry'.bought,
           entry'.live => entry'.bought < Q,
           ~Active => pos'.qty = pos.qty,
           wk' \in WkType, WorkerOK(wk)', wk.pc # "fill" \/ wk' = wk,
           Closing(wk) => Closing(wk'), wk'.pc \in Looking => wk.pc \in Looking,
           wk'.mode = wk.mode
    PROVE  IInv'
<1>0. /\ pos.qty \in 0..Q /\ pos'.qty \in 0..Q /\ entry.bought \in 0..Q /\ entry'.bought \in 0..Q
      /\ oco.filled \in 0..Q /\ Confirmed \in Nat /\ Sum(Plan) \in Nat /\ faults \in 0..MaxFaults
  BY TypesAre, CountTypes DEF IInv, PosType, EntryType, OcoType
<1>1. /\ (Active' <=> Active) /\ Confirmed' = Confirmed /\ (Undisturbed' => Undisturbed)
      /\ (faults' = 0 => faults = 0) /\ (faults > 0 => faults' > 0)
  BY <1>0, Sizes DEF Active, Confirmed, Undisturbed
<1>2. TypeOK'
  BY TypesAre, TypesNext DEF IInv
<1>3. PosOK'
  <2>1. /\ pos'.qty >= 1
        /\ oco.st = "live" => oco.filled < entry'.bought
    BY <1>0, Sizes DEF IInv, PosOK
  <2> QED
    BY <1>1, <2>1 DEF IInv, PosOK
<1>4. OrdersOK'
  BY <1>1 DEF IInv, OrdersOK, OrderOK
<1>5. PlanOK'
  <2>1. Plan' = Plan
    BY DEF Plan
  <2> QED
    BY <1>0, <1>1, <2>1, Sizes DEF IInv, PlanOK
<1>6. BookedOK(wk)' /\ NoRisk(wk)' /\ FlatProtection'
  BY <1>1 DEF IInv, BookedOK, NoRisk, FlatProtection
<1>7. CleanupAhead(wk)'
  <2>1. Confirmed' >= pos'.qty => Confirmed >= pos.qty
    BY <1>0, <1>1, Sizes
  <2> QED
    BY <1>1, <2>1 DEF IInv, CleanupAhead
<1> QED
  BY <1>2, <1>3, <1>4, <1>5, <1>6, <1>7 DEF IInv

\* No fault is no fewer faults.
LEMMA FaultsSame == ASSUME IInv, UNCHANGED faults PROVE faults' \in 0..MaxFaults /\ faults' >= faults
  BY TypesAre, Sizes DEF IInv

\* reconcile_plan of an entry that is not closed.
LEMMA ObserveFacts ==
    ASSUME IInv, entry.st # "CLOSED", ObserveEntry
    PROVE  /\ entry' \in EntryType /\ pos' \in PosType
           /\ entry'.st # "CLOSED" /\ pos'.st # "CLOSED" /\ pos.st # "CLOSED"
           /\ entry'.bought = entry.bought /\ entry'.live = entry.live
           /\ pos'.qty = entry.bought /\ faults' \in 0..MaxFaults /\ faults' >= faults
<1>1. entry \in EntryType /\ entry.bought \in 0..Q
  BY TypesAre DEF IInv, EntryType
<1>2. PICK st \in {"FILLED", "CANCELLED", "CANCEL_REQUESTED", "PARTIALLY_FILLED"} :
        entry' = [entry EXCEPT !.st = st]
  BY DEF ObserveEntry
<1>3. PICK ids \in BOOLEAN : pos' = [st |-> "OPEN", qty |-> entry.bought, ids |-> ids]
  BY DEF ObserveEntry
<1>4. faults' \in 0..MaxFaults /\ faults' >= faults
  BY TypesAre, Sizes DEF ObserveEntry, Fault, IInv
<1> QED
  BY <1>1, <1>2, <1>3, <1>4 DEF EntryType, PosType, IInv, PosOK

\* The entry is looked up.
LEMMA EntryRoundHolds ==
    ASSUME IInv, RecoverEntry \/ EntryLane
    PROVE  IInv'
<1>1. /\ wk.pc \in {"recover", "entryLane"}
      /\ UNCHANGED <<session, att, last, fills, xo, oco>>
      /\ (entry.st # "CLOSED" /\ ObserveEntry) \/ UNCHANGED <<entry, pos, faults>>
  BY DEF RecoverEntry, EntryLane, At, IInv, WorkerOK
<1>2. Rests(wk) /\ ~Closing(wk) /\ wk.pc # "fill" /\ wk \in WkType
  BY <1>1, QuietFacts DEF Quiet
<1>3. Rests(wk') /\ wk'.pc \in {"protective", "cleanups"}
  <2>1. CASE RecoverEntry
    BY <1>2, <2>1, MovedFacts DEF RecoverEntry, Step, Go, PCs
  <2>2. CASE EntryLane
    <3>1. PICK u : u = (entry'.st # "CANCELLED")
      OBVIOUS
    <3>2. u \in BOOLEAN
      BY <3>1
    <3>3. wk' = [wk EXCEPT !.pc = "cleanups", !.unres = u]
      BY <2>2, <3>1, Zenon DEF EntryLane, Go
    <3> QED
      BY <1>2, <3>2, <3>3 DEF Rests, WkType, PCs
  <2> QED
    BY <2>1, <2>2
<1>4. WorkerOK(wk)' /\ wk' \in WkType /\ wk'.pc \notin Looking /\ wk'.mode = wk.mode
  BY <1>2, <1>3 DEF Rests, WorkerOK, Sending, Looking, Quiet
<1>5. entry \in EntryType /\ pos \in PosType /\ pos.qty \in 0..Q /\ entry.bought \in 0..Q
  BY TypesAre DEF IInv, EntryType, PosType
<1>6. /\ pos.qty <= entry.bought /\ pos.qty <= pos.qty /\ entry.bought <= entry.bought
      /\ entry.live => entry.bought < Q
  BY <1>5, Sizes DEF IInv, PosOK
<1>7. CASE entry.st # "CLOSED" /\ ObserveEntry
  <2>1. /\ entry' \in EntryType /\ pos' \in PosType
        /\ entry'.st # "CLOSED" /\ pos'.st # "CLOSED" /\ pos.st # "CLOSED"
        /\ entry'.bought = entry.bought /\ entry'.live = entry.live
        /\ pos'.qty = entry.bought /\ faults' \in 0..MaxFaults /\ faults' >= faults
    BY <1>7, ObserveFacts
  <2>2. Active
    BY <2>1 DEF Active
  <2> QED
    BY <1>1, <1>2, <1>4, <1>6, <1>7, <2>1, <2>2, EntryMoves
<1>8. CASE UNCHANGED <<entry, pos, faults>>
  BY <1>1, <1>2, <1>4, <1>5, <1>6, <1>8, FaultsSame, EntryMoves
<1> QED
  BY <1>1, <1>7, <1>8

\* Its cancel is sent.
LEMMA CancelPendingEntryHolds == ASSUME IInv, CancelPendingEntry PROVE IInv'
<1>1. wk.pc = "cancelEntry" /\ UNCHANGED <<session, pos, att, last, fills, xo, oco, faults>>
  BY DEF CancelPendingEntry, At
<1>2. Rests(wk) /\ ~Closing(wk) /\ wk.pc # "fill" /\ wk \in WkType
  BY <1>1, QuietFacts DEF Quiet
<1>3. entry \in EntryType /\ pos \in PosType /\ pos.qty \in 0..Q /\ entry.bought \in 0..Q
  BY TypesAre DEF IInv, EntryType, PosType
<1>4. /\ entry' \in EntryType /\ entry'.bought = entry.bought /\ entry'.live = entry.live
      /\ (entry'.st = "CLOSED" <=> entry.st = "CLOSED")
  <2>1. CASE UNCHANGED entry
    BY <1>3, <2>1
  <2>2. CASE entry.st = "PARTIALLY_FILLED" /\ \E creq \in {entry.creq, entry.live} : entry' = [entry EXCEPT !.creq = creq]
    BY <1>3, <2>2 DEF EntryType
  <2>3. CASE entry.st = "PARTIALLY_FILLED" /\ entry' = [entry EXCEPT !.st = "CANCEL_REQUESTED", !.creq = TRUE]
    BY <1>3, <2>3 DEF EntryType
  <2> QED
    BY <2>1, <2>2, <2>3 DEF CancelPendingEntry
<1>5. /\ Rests(wk') /\ wk'.pc \in {"cleanups", "entryLane"}
      /\ wk'.pc = "entryLane" => entry'.st = "CANCEL_REQUESTED"
  <2>1. CASE wk' = [wk EXCEPT !.pc = "cleanups"]
    BY <1>2, <2>1 DEF Rests, WkType, PCs
  <2>2. CASE wk' = [wk EXCEPT !.pc = "cleanups", !.unres = TRUE]
    BY <1>2, <2>2 DEF Rests, WkType, PCs
  <2>3. CASE wk' = [wk EXCEPT !.pc = "entryLane"] /\ entry'.st = "CANCEL_REQUESTED"
    BY <1>2, <2>3 DEF Rests, WkType, PCs
  <2> QED
    BY <1>3, <2>1, <2>2, <2>3 DEF CancelPendingEntry, Step, Go, EntryType
<1>6. WorkerOK(wk)' /\ wk' \in WkType /\ wk'.pc \notin Looking /\ wk'.mode = wk.mode
  BY <1>2, <1>5 DEF Rests, WorkerOK, Sending, Looking, Quiet
<1>7. /\ pos.qty <= entry.bought /\ pos.qty <= pos.qty /\ entry.bought <= entry.bought
      /\ entry.live => entry.bought < Q
  BY <1>3, Sizes DEF IInv, PosOK
<1> QED
  BY <1>1, <1>2, <1>3, <1>4, <1>6, <1>7, FaultsSame, EntryMoves

\* The exchange fills or ends the entry.
LEMMA ExEntryHolds == ASSUME IInv, ExEntry PROVE IInv'
<1>1. entry.live /\ UNCHANGED <<session, pos, att, last, fills, xo, oco, wk, faults>>
  BY DEF ExEntry
<1>2. /\ entry \in EntryType /\ pos \in PosType /\ pos.qty \in 0..Q /\ entry.bought \in 0..Q
      /\ wk \in WkType
  BY TypesAre DEF IInv, EntryType, PosType
<1>3. /\ pos.qty <= entry.bought /\ entry.bought < Q
  BY <1>1 DEF IInv, PosOK
<1>4. PICK b \in 0..Q, l \in BOOLEAN :
         /\ entry' = [entry EXCEPT !.bought = b, !.live = l]
         /\ entry.bought <= b /\ (l => b < Q)
  <2>1. CASE entry' = [entry EXCEPT !.live = FALSE]
    <3>1. entry' = [entry EXCEPT !.bought = entry.bought, !.live = FALSE]
      BY <1>2, <2>1 DEF EntryType
    <3>2. entry.bought <= entry.bought
      BY <1>2, Sizes
    <3> QED
      BY <1>2, <3>1, <3>2
  <2>2. CASE entry' = [entry EXCEPT !.bought = @ + 1, !.live = entry.bought + 1 < Q]
    <3>1. PICK b \in 0..Q : b = entry.bought + 1 /\ entry.bought <= b
      BY <1>2, <1>3, Sizes
    <3>2. PICK l : l = (b < Q)
      OBVIOUS
    <3>3. l \in BOOLEAN /\ (l => b < Q)
      <4>1. (b < Q) \in BOOLEAN
        OBVIOUS
      <4> QED
        BY <3>2, <4>1, Zenon
    <3>4. entry' = [entry EXCEPT !.bought = b, !.live = l]
      BY <2>2, <3>1, <3>2, Zenon
    <3> QED
      BY <3>1, <3>3, <3>4
  <2> QED
    BY <2>1, <2>2 DEF ExEntry
<1>5. /\ entry' \in EntryType /\ entry'.st = entry.st /\ entry'.bought = b /\ entry'.live = l
  BY <1>2, <1>4 DEF EntryType
<1>6. pos.qty <= b /\ pos.qty <= pos.qty
  BY <1>2, <1>3, <1>4, Sizes
<1>7. WorkerOK(wk)'
  BY <1>1, <1>5 DEF IInv, WorkerOK, Active, Confirmed, Undisturbed
<1> QED
  BY <1>1, <1>2, <1>4, <1>5, <1>6, <1>7, FaultsSame, EntryMoves

\* The protective order sells.
LEMMA ExTriggerHolds == ASSUME IInv, ExTrigger PROVE IInv'
<1>1. oco.st = "live" /\ UNCHANGED <<session, entry, pos, att, last, fills, xo, wk, faults>>
  BY DEF ExTrigger
<1>2. /\ oco.filled \in 0..Q /\ entry.bought \in 0..Q /\ fills[0] \in 0..Q
      /\ oco.filled < entry.bought /\ fills[0] <= oco.filled
  BY <1>1, Sizes DEF IInv, TypeOK, PosOK, OrdersOK
<1>3. PICK m \in 0..Q : /\ m = oco.filled + 1 /\ m <= entry.bought /\ m # 0
                        /\ fills[0] <= m /\ (m # entry.bought => m < entry.bought)
  BY <1>2, Sizes
<1>4. oco' = [filled |-> m, st |-> IF m = entry.bought THEN "done" ELSE "live"]
  BY <1>3 DEF ExTrigger
<1>5. oco' \in OcoType /\ oco'.filled = m /\ oco'.st \in {"done", "live"}
      /\ (oco'.st = "live" => m < entry.bought)
  BY <1>3, <1>4 DEF OcoType
<1>6. (Active' <=> Active) /\ Confirmed' = Confirmed /\ ~Undisturbed'
  BY <1>1, <1>3, <1>5 DEF Active, Confirmed, Undisturbed
<1>7. TypeOK'
  BY <1>1, <1>5, TypesAre, TypesNext DEF IInv
<1>8. PosOK'
  BY <1>1, <1>5, <1>6 DEF IInv, PosOK
<1>9. OrdersOK'
  BY <1>1, <1>3, <1>5 DEF IInv, OrdersOK, OrderOK
<1>10. PlanOK'
  BY <1>1 DEF IInv, PlanOK, Plan
<1>11. WorkerOK(wk)'
  BY <1>1, <1>6 DEF IInv, WorkerOK
<1> QED
  BY <1>1, <1>6, <1>7, <1>8, <1>9, <1>10, <1>11
  DEF IInv, BookedOK, NoRisk, CleanupAhead, FlatProtection

\* reconcile_managed_positions books the protective order's fills.
LEMMA ReconcileProtectiveHolds == ASSUME IInv, ReconcileProtective PROVE IInv'
<1>1. /\ wk.pc = "protective" /\ Active /\ UNCHANGED <<att, last, xo, oco, faults>>
      /\ fills' = [fills EXCEPT ![0] = oco.filled]
  BY DEF ReconcileProtective, At
<1>2. /\ Rests(wk) /\ ~Closing(wk) /\ wk \in WkType
  BY <1>1, QuietFacts DEF Quiet
<1>3. /\ oco.filled \in 0..Q /\ 0 \in 0..MaxAttempts /\ fills[0] <= oco.filled
      /\ fills[0] \in 0..Q /\ pos \in PosType /\ entry \in EntryType
      /\ session \in {"FLATTENING", "FLAT", "DEGRADED"} /\ pos.qty \in 0..Q
      /\ fills \in [0..MaxAttempts -> 0..Q]
  BY TypesAre, Sizes DEF IInv, OrdersOK, OcoType, PosType
<1>4. /\ fills' \in [0..MaxAttempts -> 0..Q] /\ fills'[0] = oco.filled
      /\ \A i \in (0..MaxAttempts) \ {0} : fills'[i] = fills[i]
      /\ Confirmed' \in Nat /\ Confirmed \in Nat /\ Confirmed' >= Confirmed
  BY <1>1, <1>3, BookingGrows DEF IInv
<1>5. Confirmed' = Sum([fills EXCEPT ![0] = oco.filled])
  BY <1>1 DEF Confirmed
<1>6. Undisturbed => Confirmed' = Confirmed
  <2>1. ASSUME Undisturbed PROVE fills' = fills
    <3>1. oco.filled = fills[0]
      BY <1>3, <2>1, Sizes DEF Undisturbed
    <3> QED
      BY <1>1, <1>3, <3>1
  <2> QED
    BY <2>1 DEF Confirmed
<1>7. /\ Rests(wk') /\ wk'.pc \in {"cancelEntry", "idle"}
  <2>1. CASE \E pc \in {"cancelEntry", "idle"} : wk' = [wk EXCEPT !.pc = pc]
    BY <1>2, <2>1, MovedFacts DEF PCs
  <2>2. CASE wk' = Idle
    BY <2>2, IdleRests
  <2> QED
    BY <2>1, <2>2 DEF ReconcileProtective, Step, Go, Abort
<1>8. session # "FLAT"
  BY <1>1 DEF IInv, PosOK
<1>9. /\ session' \in {"FLATTENING", "DEGRADED"}
  BY <1>3, <1>8 DEF ReconcileProtective, Abort
<1>10. /\ pos' \in PosType /\ entry' \in EntryType /\ pos'.qty = pos.qty
       /\ entry'.bought = entry.bought /\ entry'.live = entry.live
       /\ pos'.st = "CLOSED" <=> entry'.st = "CLOSED"
       /\ pos'.st = "CLOSED" => Confirmed' >= pos.qty
  <2>0. pos.st # "CLOSED" /\ entry.st # "CLOSED"
    BY <1>1 DEF Active, IInv, PosOK
  <2>1. CASE pos' = [pos EXCEPT !.st = "CLOSED"] /\ entry' = [entry EXCEPT !.st = "CLOSED"]
             /\ Confirmed' >= pos.qty
    BY <1>3, <2>1 DEF PosType, EntryType
  <2>2. CASE UNCHANGED entry /\ \E st \in {pos.st, "EXIT_PARTIALLY_FILLED"} : pos' = [pos EXCEPT !.st = st]
    BY <1>3, <2>0, <2>2 DEF PosType, EntryType
  <2>3. CASE UNCHANGED <<entry, pos>>
    BY <1>3, <2>0, <2>3
  <2> QED
    BY <1>5, <2>1, <2>2, <2>3 DEF ReconcileProtective
<1>11. TypeOK'
  BY <1>1, <1>4, <1>7, <1>9, <1>10, TypesAre, TypesNext DEF IInv, Rests
<1>12. Active' <=> pos'.st # "CLOSED"
  BY DEF Active
<1>13. (Undisturbed' <=> Undisturbed)
  BY <1>1 DEF Undisturbed
<1>14. PosOK'
  <2>1. /\ oco.st # "cancelled"
        /\ \A k \in Attempts : att[k].st # "PROTECTION_CLEANUP_INCOMPLETE"
    BY <1>1 DEF IInv, PosOK
  <2> QED
    BY <1>1, <1>9, <1>10, <1>12, <2>1 DEF IInv, PosOK
<1>15. OrdersOK'
  <2>1. \A k \in Attempts : fills'[k] = fills[k]
    BY <1>4, Sizes DEF Attempts
  <2>2. oco.filled <= oco.filled
    BY <1>3, Sizes
  <2> QED
    BY <1>1, <1>4, <2>1, <2>2 DEF IInv, OrdersOK, OrderOK
<1>16. PlanOK'
  BY <1>1, <1>10 DEF IInv, PlanOK, Plan
<1>17. WorkerOK(wk)' /\ NoRisk(wk)' /\ FlatProtection'
  BY <1>7, <1>9 DEF Rests, WorkerOK, NoRisk, FlatProtection, Sending, Looking, Quiet
<1>18. BookedOK(wk)'
  <2>1. \A k \in Attempts : fills'[k] = fills[k]
    BY <1>4, Sizes DEF Attempts
  <2> QED
    BY <1>1, <2>1 DEF IInv, BookedOK
<1>19. CleanupAhead(wk)'
  BY <1>1, <1>2, <1>6, <1>7, <1>10, <1>13 DEF IInv, CleanupAhead, Looking
<1> QED
  BY <1>11, <1>14, <1>15, <1>16, <1>17, <1>18, <1>19 DEF IInv

(***************************************************************************)
(* The theorems.                                                           *)
(***************************************************************************)
\* Only a look at the entry changes which ids the position names.
LEMMA IdsKept ==
    ASSUME IInv, [Next]_vars, ~RecoverEntry, ~EntryLane
    PROVE  pos'.ids = pos.ids
<1>1. pos \in PosType
  BY TypesAre DEF IInv
<1>2. CASE UNCHANGED pos
  BY <1>2
<1>3. CASE \E st : pos' = [pos EXCEPT !.st = st]
  BY <1>1, <1>3 DEF PosType
<1>4. Settle \/ CloseTrade \/ ReconcileProtective => UNCHANGED pos \/ \E st : pos' = [pos EXCEPT !.st = st]
  BY DEF Settle, CloseTrade, ReconcileProtective
<1>5. ~(Settle \/ CloseTrade \/ ReconcileProtective) => UNCHANGED pos
  BY DEF Next, Core, Failure, Exchange, vars, Tick, FlattenAgain, ProtectiveSkipped,
         CancelPendingEntry, Cleanups, Positions, ReconcileUnseen, ReconcileSeen, Seen,
         RecordExitFill, CloseCancelsOthers, CloseFailed, CleanupCancel, CleanupRecord,
         DecideWait, DecideCancel, DecideClose, PrepareExit, SendExit, RecordExitOutcome,
         CancelAttempt, RecordAttemptCancel, FinishFlatten, ReconcileSeenNoAverage,
         ReconcileUnrecognised, CleanupMisread, SendExitFails, Crash,
         ExEntry, ExTrigger, ExArrive, ExLose, ExSell, ExCut
<1> QED
  BY <1>2, <1>3, <1>4, <1>5

\* The protective order does not come back, its sales and the faults are not
\* undone.
LEMMA DisturbedStays ==
    ASSUME IInv, [Next]_vars
    PROVE  /\ Undisturbed' => Undisturbed
           /\ oco'.st = "live" => oco.st = "live"
<1>1. oco \in OcoType /\ oco.filled \in Nat /\ faults \in Nat
  BY TypesAre, Sizes DEF IInv, OcoType
<1>2. faults' = faults \/ faults' = faults + 1
  BY DEF Next, Core, Failure, Exchange, vars, Tick, FlattenAgain, ProtectiveSkipped,
         ReconcileProtective, RecoverEntry, EntryLane, ObserveEntry, Fault,
         CancelPendingEntry, Cleanups, Positions, ReconcileUnseen, ReconcileSeen, Seen,
         RecordExitFill, Settle, CloseTrade,
         CloseCancelsOthers, CloseFailed, CleanupCancel, CleanupRecord,
         DecideWait, DecideCancel, DecideClose, PrepareExit, SendExit, RecordExitOutcome,
         CancelAttempt, RecordAttemptCancel, FinishFlatten, ReconcileSeenNoAverage,
         ReconcileUnrecognised, CleanupMisread, SendExitFails, Crash,
         ExEntry, ExTrigger, ExArrive, ExLose, ExSell, ExCut
<1>3. ~(CleanupCancel \/ CleanupMisread \/ ExTrigger) => UNCHANGED oco
  BY DEF Next, Core, Failure, Exchange, vars, Tick, FlattenAgain, ProtectiveSkipped,
         ReconcileProtective, RecoverEntry, EntryLane,
         CancelPendingEntry, Cleanups, Positions, ReconcileUnseen, ReconcileSeen, Seen,
         RecordExitFill, Settle, CloseTrade,
         CloseCancelsOthers, CloseFailed, CleanupRecord,
         DecideWait, DecideCancel, DecideClose, PrepareExit, SendExit, RecordExitOutcome,
         CancelAttempt, RecordAttemptCancel, FinishFlatten, ReconcileSeenNoAverage,
         ReconcileUnrecognised, SendExitFails, Crash,
         ExEntry, ExArrive, ExLose, ExSell, ExCut
<1>4. CASE CleanupCancel \/ CleanupMisread
  <2>1. oco' = oco \/ \E st : oco' = [oco EXCEPT !.st = st] /\ (st = "live" => oco.st = "live")
    BY <1>4 DEF CleanupCancel, CleanupMisread
  <2>2. oco'.filled = oco.filled /\ (oco'.st = "live" => oco.st = "live")
    BY <1>1, <2>1 DEF OcoType
  <2> QED
    BY <1>1, <1>2, <2>2 DEF Undisturbed
<1>5. CASE ExTrigger
  BY <1>1, <1>5 DEF ExTrigger, Undisturbed
<1>6. CASE UNCHANGED oco
  BY <1>1, <1>2, <1>6 DEF Undisturbed
<1> QED
  BY <1>3, <1>4, <1>5, <1>6

\* Undisturbed, every look at the entry finds the live protective order.
LEMMA LinkStays == ASSUME IInv, LinkKnown, [Next]_vars PROVE LinkKnown'
<1> SUFFICES ASSUME Undisturbed', oco'.st = "live" PROVE pos'.ids
  BY DEF LinkKnown
<1>1. Undisturbed /\ oco.st = "live" /\ pos.ids
  BY DisturbedStays DEF LinkKnown
<1>2. CASE ~RecoverEntry /\ ~EntryLane
  BY <1>1, <1>2, IdsKept
<1>3. CASE (RecoverEntry \/ EntryLane) /\ UNCHANGED pos
  BY <1>1, <1>3
<1>4. CASE (RecoverEntry \/ EntryLane) /\ ObserveEntry
  <2>1. faults' = 0 /\ oco.filled = 0 /\ faults \in Nat
    BY <1>4, TypesAre, Sizes DEF Undisturbed, RecoverEntry, EntryLane, IInv
  <2>2. PICK ids \in BOOLEAN :
          /\ pos' = [st |-> "OPEN", qty |-> entry.bought, ids |-> ids]
          /\ \/ ids = (oco.st = "live") /\ UNCHANGED faults
             \/ ~ids /\ oco.filled > 0 /\ UNCHANGED faults
             \/ ~ids /\ Fault
    BY <1>4 DEF ObserveEntry
  <2>3. ~(oco.filled > 0) /\ ~Fault
    BY <2>1 DEF Fault
  <2>4. ids
    BY <1>1, <2>2, <2>3
  <2> QED
    BY <2>2, <2>4
<1> QED
  BY <1>2, <1>3, <1>4 DEF RecoverEntry, EntryLane

\* Every step preserves the invariant.
LEMMA NextHolds == IInv /\ LinkKnown /\ [Next]_vars => IInv'
<1> SUFFICES ASSUME IInv, LinkKnown, [Next]_vars PROVE IInv'
  OBVIOUS
<1>1. CASE Tick \/ FlattenAgain
  BY <1>1, TickHolds
<1>2. CASE RecoverEntry \/ EntryLane
  BY <1>2, EntryRoundHolds
<1>3. CASE ProtectiveSkipped
  BY <1>3, ProtectiveSkippedHolds
<1>4. CASE ReconcileProtective
  BY <1>4, ReconcileProtectiveHolds
<1>5. CASE CancelPendingEntry
  BY <1>5, CancelPendingEntryHolds
<1>6. CASE Cleanups
  BY <1>6, CleanupsHolds
<1>7. CASE Positions
  BY <1>7, PositionsHolds
<1>8. CASE ReconcileUnseen
  BY <1>8, ReconcileUnseenHolds
<1>9. CASE ReconcileSeen
  BY <1>9, ReconcileSeenHolds
<1>10. CASE RecordExitFill
  BY <1>10, RecordExitFillHolds
<1>11. CASE Settle
  BY <1>11, SettleHolds
<1>12. CASE CloseCancelsOthers
  BY <1>12, CloseCancelsOthersHolds
<1>13. CASE CloseFailed
  BY <1>13, CloseFailedHolds
<1>14. CASE CloseTrade
  BY <1>14, CloseTradeHolds
<1>15. CASE CleanupCancel
  BY <1>15, CleanupCancelHolds
<1>16. CASE CleanupRecord
  BY <1>16, CleanupRecordHolds
<1>17. CASE DecideWait \/ DecideCancel \/ DecideClose
  BY <1>17, DecideHolds
<1>18. CASE PrepareExit
  BY <1>18, PrepareExitHolds
<1>19. CASE SendExit
  BY <1>19, SendExitHolds
<1>20. CASE RecordExitOutcome
  BY <1>20, RecordExitOutcomeHolds
<1>21. CASE CancelAttempt
  BY <1>21, CancelAttemptHolds
<1>22. CASE RecordAttemptCancel
  BY <1>22, RecordAttemptCancelHolds
<1>23. CASE FinishFlatten
  BY <1>23, FinishFlattenHolds
<1>24a. CASE ReconcileSeenNoAverage \/ ReconcileUnrecognised
  BY <1>24a, MisreadRowHolds
<1>24b. CASE CleanupMisread
  BY <1>24b, CleanupMisreadHolds
<1>24. CASE SendExitFails
  BY <1>24, SendExitFailsHolds
<1>25. CASE Crash
  BY <1>25, CrashHolds
<1>26. CASE Exchange
  BY <1>26, ExEntryHolds, ExTriggerHolds, ExchangeOrderHolds DEF Exchange
<1>27. CASE UNCHANGED vars
  <2>1. UNCHANGED Ledger /\ session' = session /\ wk' = wk
    BY <1>27 DEF vars, Ledger
  <2> QED
    BY <2>1, WorkerMoves, TypesAre DEF IInv
<1> QED
  BY <1>1, <1>2, <1>3, <1>4, <1>5, <1>6, <1>7, <1>8, <1>9, <1>10, <1>11, <1>12, <1>13, <1>14,
     <1>15, <1>16, <1>17, <1>18, <1>19, <1>20, <1>21, <1>22, <1>23, <1>24a, <1>24b, <1>24, <1>25, <1>26,
     <1>27
  DEF Next, Core, Failure

\* The invariant of the flatten ledger.
THEOREM Invariance == Spec => []IInv
<1>1. Init => LinkKnown
  <2> SUFFICES ASSUME Init, oco.st = "live" PROVE pos.ids
    BY DEF LinkKnown
  <2>1. PICK b : pos = [st |-> "OPEN", qty |-> b, ids |-> oco.st = "live"]
    BY DEF Init
  <2>2. pos.ids = (oco.st = "live")
    BY <2>1, Zenon
  <2> QED
    BY <2>2
<1>2. IInv /\ LinkKnown /\ [Next]_vars => LinkKnown'
  BY LinkStays
<1> QED
  BY InitHolds, NextHolds, <1>1, <1>2, PTL DEF Spec

\* Exits are sent one at a time: an exit is prepared only after the previous
\* order ended on the exchange, whatever is lost, rejected or cut short.
THEOREM ExitsOneAtATime == Spec => []OneLiveExit
<1>1. ASSUME IInv PROVE OneLiveExit
  <2> SUFFICES ASSUME NEW i \in 1..last, NEW k \in 1..last, i < k
               PROVE  xo[i].st \notin {"transit", "live"}
    BY DEF OneLiveExit
  <2>1. last \in 0..MaxAttempts
    BY <1>1, TypesAre DEF IInv
  <2>2. i \in Attempts /\ i < last
    BY <2>1, Sizes DEF Attempts
  <2> QED
    BY <1>1, <2>2 DEF IInv, OrdersOK, OrderOK
<1> QED
  BY <1>1, Invariance, PTL

\* The ledger books only what was sold, and a position is closed only when its
\* whole quantity was.
THEOREM LedgerBooksSales == Spec => []LedgerIsTrue
<1>1. ASSUME IInv PROVE LedgerIsTrue
  <2> DEFINE sold == [k \in 0..MaxAttempts |-> IF k = 0 THEN oco.filled ELSE xo[k].filled]
  <2>1. /\ \A k \in 0..MaxAttempts : fills[k] \in 0..Q
        /\ \A k \in Attempts : att[k].filled \in 0..Q /\ xo[k].filled \in 0..Q
        /\ oco.filled \in 0..Q /\ pos.qty \in 0..Q /\ fills[0] <= oco.filled
    BY <1>1 DEF IInv, TypeOK, OrdersOK
  <2>2. \A k \in Attempts : fills[k] <= xo[k].filled
    BY <1>1 DEF IInv, OrdersOK, OrderOK
  <2>3. sold \in Counts(0..MaxAttempts)
    BY <2>1, Sizes DEF Counts, Attempts
  <2>4. \A k \in 0..MaxAttempts : fills[k] <= sold[k]
    BY <2>1, <2>2, Sizes DEF Attempts
  <2>5. fills \in Counts(0..MaxAttempts) /\ Confirmed \in Nat
    BY <1>1, CountTypes DEF IInv
  <2>6. Confirmed <= Sum(sold) /\ Sum(sold) \in Nat
    BY <2>3, <2>4, <2>5, Sizes, SumGrows, SumType DEF Confirmed
  <2>7. pos.st = "CLOSED" => Sum(sold) >= pos.qty
    BY <1>1, <2>1, <2>5, <2>6, Sizes DEF IInv, PosOK, Active
  <2> QED
    BY <2>1, <2>2, <2>7 DEF LedgerIsTrue, Sold
<1> QED
  BY <1>1, Invariance, PTL

\* Without a fault the attempts never sell more than the entry bought.
THEOREM OnlyFaultsOversell == Spec => []OversellNeedsFault
<1>1. ASSUME IInv PROVE OversellNeedsFault
  <2> SUFFICES ASSUME faults = 0 PROVE AttemptsNeverOversell
    BY DEF OversellNeedsFault
  <2>1. /\ Sum(XoCounts) <= Sum(Plan) /\ Sum(Plan) <= pos.qty /\ pos.qty <= entry.bought
        /\ Sum(XoCounts) \in Nat /\ Sum(Plan) \in Nat
    BY <1>1, SoldWithinPlan, CountTypes DEF IInv, PlanOK, PosOK
  <2>2. pos.qty \in 0..Q /\ entry.bought \in 0..Q
    BY <1>1 DEF IInv, TypeOK
  <2>3. Sum(XoCounts) <= entry.bought
    BY <2>1, <2>2, Sizes
  <2> QED
    BY <2>3 DEF AttemptsNeverOversell, XoCounts
<1> QED
  BY <1>1, Invariance, PTL

\* The protective order is cancelled only after the position closed.
THEOREM ProtectionLasts == Spec => []ProtectionOutlivesPosition
<1>1. IInv => ProtectionOutlivesPosition
  BY DEF IInv, PosOK, ProtectionOutlivesPosition, Active
<1> QED
  BY <1>1, Invariance, PTL

\* An undisturbed flatten reports FLAT only when nothing can still sell.
THEOREM FlatLeavesNothing == Spec => []FlatIsClean
<1>1. ASSUME IInv PROVE FlatIsClean
  <2> SUFFICES ASSUME Undisturbed, session = "FLAT"
               PROVE  /\ \A k \in Attempts : xo[k].st \notin {"transit", "live"}
                      /\ oco.st # "live"
    BY DEF FlatIsClean
  <2>1. Confirmed >= pos.qty
    BY <1>1 DEF IInv, PosOK
  <2>2. last \in Attempts /\ xo[last].filled = att[last].req
    BY <1>1, <2>1, SoldOut DEF IInv
  <2>3. ASSUME NEW k \in Attempts, xo[k].st \in {"transit", "live"} PROVE FALSE
    <3>1. /\ k = last /\ att[k].req \in 0..Q /\ att[k].req >= 1
          /\ xo[k].st = "transit" => xo[k].filled = 0
          /\ xo[k].st = "live" => xo[k].filled < att[k].req
      BY <1>1, <2>3, WorkingFacts
    <3> QED
      BY <2>2, <2>3, <3>1, Sizes
  <2> QED
    BY <1>1, <2>3 DEF IInv, FlatProtection
<1> QED
  BY <1>1, Invariance, PTL
=============================================================================
