-------------------------- MODULE AdmissionProofs --------------------------
(***************************************************************************)
(* Proofs about Admission, for any finite set of plans, any order size,    *)
(* any limits and any number of faults, with one process on the database.  *)
(* The gate decides by a wallet it read earlier and by rows that are       *)
(* behind the exchange.  The argument is by lots: the lots some plan still *)
(* claims can only become fewer, except by an admission; and the lots      *)
(* claimed when the gate decides are all in the wallet it read or in the   *)
(* rows it reads.                                                          *)
(***************************************************************************)
EXTENDS Admission, EntryLifecycleProofs, FiniteSetTheorems

(***************************************************************************)
(* The inductive invariant, on top of IInv and SoloInv.                    *)
(***************************************************************************)
\* The types of the gate's state.
GateType ==
    /\ rules \in RuleSets
    /\ ask \in [Workers -> [p : Plans \cup {NoPlan}, wallet : Nat]]
    /\ sold \in [Plans -> 0..Q]
    /\ trades \in Seq([pnl : Int, known : BOOLEAN])

\* An exit sells what was bought, a position is closed with its order, and an
\* order is closed when what its row knows of is sold (unless something failed).
AccountOK(p) ==
    /\ sold[p] <= ex[p].filled
    /\ pos[p].st = "NONE" => pos[p].qty = 0
    /\ pos[p].st = "CLOSED" => order[p].st = "CLOSED"
    /\ faults = 0 /\ order[p].st = "CLOSED" => order[p].filled <= sold[p]

\* The entry may still buy, or may still be sent.
Pending(p) == MayBuy(p) \/ (placed[p] = 0 /\ order[p].st \notin {"PLANNED", "REJECTED"})

\* How many lots the plan can come to.
Limit(p) ==
    IF order[p].st = "CLOSED" THEN order[p].filled
    ELSE IF Pending(p) THEN Q ELSE ex[p].filled

\* The lots that are held or may still be bought.
Claimed == {l \in Lots : sold[l[1]] < l[2] /\ l[2] <= Limit(l[1])}

\* The plans they belong to.
Occupied ==
    {p \in Plans : order[p].st # "CLOSED" /\ (Pending(p) \/ ex[p].filled > sold[p])}

\* While an approval is under way its worker does nothing else, and what is
\* claimed was in the wallet it read or is in the rows it will read.
AskOK(w) ==
    ask[w] # NoAsk =>
        /\ wk[w].pc = "idle" /\ ask[w].p \in Plans
        /\ \E A \in SUBSET Lots : /\ Cardinality(A) = ask[w].wallet
                                  /\ Claimed \subseteq A \cup Reserved

\* The invariant of the gate.
GateInv ==
    /\ GateType
    /\ \A p \in Plans : AccountOK(p)
    /\ \A w \in Workers : AskOK(w)
    /\ Cardinality(Claimed) <= rules.exposure
    /\ faults = 0 => Cardinality(Occupied) <= rules.open

(***************************************************************************)
(* Counting lots.                                                          *)
(***************************************************************************)
\* Sets of lots are finite, and a part of one is no larger.
LEMMA CountLots ==
    /\ \A S \in SUBSET Lots : IsFiniteSet(S) /\ Cardinality(S) \in Nat
    /\ \A S, T \in SUBSET Lots : S \subseteq T => Cardinality(S) <= Cardinality(T)
<1>1. IsFiniteSet(1..Q)
  BY QAssumption, FS_Interval
<1>2. IsFiniteSet(Lots)
  BY <1>1, PlansAssumption, FS_Product DEF Lots
<1>3. \A S \in SUBSET Lots : IsFiniteSet(S)
  BY <1>2, FS_Subset
<1>4. \A S \in SUBSET Lots : Cardinality(S) \in Nat
  BY <1>3, FS_CardinalityType
<1>5. \A S, T \in SUBSET Lots : S \subseteq T => Cardinality(S) <= Cardinality(T)
  BY <1>3, FS_Subset
<1> QED
  BY <1>3, <1>4, <1>5

\* Two sets of lots together are no larger than their sum, and as large if they
\* share none.
LEMMA CountTogether ==
    ASSUME NEW S \in SUBSET Lots, NEW T \in SUBSET Lots
    PROVE  /\ Cardinality(S \cup T) <= Cardinality(S) + Cardinality(T)
           /\ S \cap T = {} => Cardinality(S \cup T) = Cardinality(S) + Cardinality(T)
<1>1. IsFiniteSet(S) /\ IsFiniteSet(T)
  BY CountLots
<1>2. Cardinality(S \cup T) = Cardinality(S) + Cardinality(T) - Cardinality(S \cap T)
  BY <1>1, FS_Union
<1>3. S \cap T \in SUBSET Lots
  OBVIOUS
<1>4. Cardinality(S) \in Nat /\ Cardinality(T) \in Nat /\ Cardinality(S \cap T) \in Nat
  BY <1>3, CountLots
<1>5. S \cap T = {} => Cardinality(S \cap T) = 0
  BY FS_EmptySet
<1> QED
  BY <1>2, <1>4, <1>5

\* One entry has Q lots.
LEMMA CountEntry ==
    ASSUME NEW p \in Plans
    PROVE  {p} \X (1..Q) \in SUBSET Lots /\ Cardinality({p} \X (1..Q)) = Q
<1>1. IsFiniteSet(1..Q) /\ Cardinality(1..Q) = Q
  BY QAssumption, FS_Interval
<1>2. IsFiniteSet({p}) /\ Cardinality({p}) = 1
  BY FS_Singleton
<1>3. Cardinality({p} \X (1..Q)) = 1 * Q
  <2>1. Cardinality({p} \X (1..Q)) = Cardinality({p}) * Cardinality(1..Q)
    BY <1>1, <1>2, FS_Product
  <2> QED
    BY <1>1, <1>2, <2>1
<1>4. 1 * Q = Q
  BY QAssumption
<1>5. {p} \X (1..Q) \in SUBSET Lots
  BY DEF Lots
<1> QED
  BY <1>3, <1>4, <1>5

\* The same for sets of plans.
LEMMA CountPlans ==
    /\ \A S \in SUBSET Plans : IsFiniteSet(S) /\ Cardinality(S) \in Nat
    /\ \A S, T \in SUBSET Plans : S \subseteq T => Cardinality(S) <= Cardinality(T)
    /\ \A S \in SUBSET Plans, p \in Plans : Cardinality(S \cup {p}) <= Cardinality(S) + 1
<1>1. \A S \in SUBSET Plans : IsFiniteSet(S)
  BY PlansAssumption, FS_Subset
<1>2. \A S \in SUBSET Plans : Cardinality(S) \in Nat
  BY <1>1, FS_CardinalityType
<1>3. \A S, T \in SUBSET Plans : S \subseteq T => Cardinality(S) <= Cardinality(T)
  BY <1>1, FS_Subset
<1>4. \A S \in SUBSET Plans, p \in Plans : Cardinality(S \cup {p}) <= Cardinality(S) + 1
  <2> SUFFICES ASSUME NEW S \in SUBSET Plans, NEW p \in Plans
               PROVE  Cardinality(S \cup {p}) <= Cardinality(S) + 1
    OBVIOUS
  <2>1. Cardinality(S \cup {p}) = IF p \in S THEN Cardinality(S) ELSE Cardinality(S) + 1
    BY <1>1, FS_AddElement
  <2>2. Cardinality(S) \in Nat
    BY <1>2
  <2> QED
    BY <2>1, <2>2
<1> QED
  BY <1>1, <1>2, <1>3, <1>4

(***************************************************************************)
(* What a step of the entry side does to the exchange and the positions.   *)
(***************************************************************************)
\* Only a working order buys, and only an entry that was admitted gets to work.
ExStep(p) ==
    /\ ex[p].filled <= ex'[p].filled
    /\ ex'[p].filled = ex[p].filled \/ MayBuy(p)
    /\ MayBuy(p)' => Pending(p)
    /\ placed'[p] = 0 => placed[p] = 0

\* A position row is written as a managed one.
PosStep(p) ==
    \/ pos'[p] = pos[p]
    \/ pos'[p].st \in MANAGED_POSITION_STATES

\* An order that is left alone, but for a requested cancel.
LEMMA ExLeft ==
    ASSUME IInv, NEW p \in Plans, ex'[p].st = ex[p].st, ex'[p].filled = ex[p].filled,
           placed'[p] = placed[p]
    PROVE  ExStep(p)
<1>1. ex[p].filled \in Nat
  BY QAssumption DEF IInv, SharedType
<1> QED
  BY <1>1 DEF ExStep, MayBuy, Pending

\* Every step of the entry side moves the exchange's orders like that.
LEMMA NextEx ==
    ASSUME IInv, SoloInv, OneProcess, Next, NEW p \in Plans
    PROVE  ExStep(p)
<1>1. /\ ex \in [Plans -> [st : ExState, filled : 0..Q, creq : BOOLEAN]]
      /\ \A q \in Plans : ex[q] \in [st : ExState, filled : 0..Q, creq : BOOLEAN]
      /\ \A q \in Plans : ex[q].filled \in Nat
      /\ placed \in [Plans -> Nat]
  BY QAssumption DEF IInv, SharedType
<1>2. CASE UNCHANGED <<ex, placed>>
  BY <1>2, ExLeft
<1>3. ASSUME NEW q, ex' = [ex EXCEPT ![q].creq = TRUE], placed' = placed
      PROVE  ExStep(p)
  <2>1. ex'[p].st = ex[p].st /\ ex'[p].filled = ex[p].filled
    BY <1>1, <1>3
  <2> QED
    BY <1>3, <2>1, ExLeft
<1>4. ASSUME NEW w \in Workers, ExecutePlace(w)
      PROVE  ExStep(p)
  <2>1. PICK r : r = wk[w]
    OBVIOUS
  <2>2. /\ r.pc = "send" /\ placed' = [placed EXCEPT ![r.p] = placed[r.p] + 1]
        /\ ex' = ex \/ \E st : ex' = [ex EXCEPT ![r.p].st = st]
    BY <1>4, <2>1 DEF ExecutePlace, At
  <2>3. r.p \in Plans /\ placed[r.p] = 0 /\ order[r.p].st = "SUBMITTED"
    BY <2>1, <2>2, WorkerFacts, SoloFacts DEF Loops, WorkerOK, CallerOK, SubmitOK
  <2>4. CASE p = r.p
    <3>1. ex'[p].filled = ex[p].filled
      BY <1>1, <2>2, <2>3, <2>4
    <3>2. placed'[p] = 1 /\ Pending(p)
      BY <1>1, <2>2, <2>3, <2>4 DEF Pending
    <3> QED
      BY <1>1, <3>1, <3>2 DEF ExStep
  <2>5. CASE p # r.p
    <3>1. ex'[p] = ex[p] /\ placed'[p] = placed[p]
      BY <1>1, <2>2, <2>3, <2>5
    <3> QED
      BY <3>1, ExLeft
  <2> QED
    BY <2>4, <2>5
<1>5. ASSUME NEW w \in Workers, WorkerStep(w)
      PROVE  ExStep(p)
  <2>1. CASE ExecutePlace(w)
    BY <1>4, <2>1
  <2>2. CASE CancelEntry(w)
    <3>1. placed' = placed /\ (ex' = ex \/ \E q : ex' = [ex EXCEPT ![q].creq = TRUE])
      BY <2>2 DEF CancelEntry, RequestCancel
    <3> QED
      BY <1>2, <1>3, <3>1
  <2>3. CASE ~(ExecutePlace(w) \/ CancelEntry(w))
    <3>1. UNCHANGED <<ex, placed>>
      BY <1>5, <2>3 DEF WorkerStep, MarkSubmitted, ExecuteBlocked, RecordRejected, RecordUnknown,
         RecordAck, LookupMissed, LookupFound, ApplyRemoteOrder, ProtectionState,
         RecordProtection, UpsertManagedPosition, RecordEntryFill, RestoreCancelRequest,
         RecoverNext, CancelNext, CancelWithoutRequest, RecordCancelAck, CancelLaneExhausted
    <3> QED
      BY <1>2, <3>1
  <2> QED
    BY <2>1, <2>2, <2>3
<1>6. ASSUME NEW w \in Workers, Task(w) \/ Failure(w)
      PROVE  ExStep(p)
  <2>1. placed' = placed /\ (ex' = ex \/ \E q : ex' = [ex EXCEPT ![q].creq = TRUE])
    BY <1>6 DEF Task, Submit, RecoverActiveOrders, CancelPendingEntries, Cancel, RequestCancel,
       Failure, LookupUnrecognised, ProtectionRaised,
     RecordEntryFillNoAverage, Crash
  <2> QED
    BY <1>2, <1>3, <2>1
<1>7. ASSUME NEW q \in Plans, Exchange(q)
      PROVE  ExStep(p)
  <2>1. placed' = placed
    BY <1>7 DEF Exchange, ExArrive, ExFill, ExCancel, ExReject, ExProtect
  <2>2. CASE ExProtect(q)
    BY <1>2, <2>1, <2>2 DEF ExProtect
  <2>3. CASE ExArrive(q) \/ ExFill(q) \/ ExCancel(q) \/ ExReject(q)
    <3>1. MayBuy(q)
      BY <2>3 DEF ExArrive, ExFill, ExCancel, ExReject, MayBuy
    <3>2. /\ ex'[q].filled = ex[q].filled \/ ex'[q].filled = ex[q].filled + 1
          /\ \A o \in Plans \ {q} : ex'[o] = ex[o]
      <4>1. CASE ExFill(q)
        <5>1. PICK st : ex' = [ex EXCEPT ![q].filled = ex[q].filled + 1, ![q].st = st]
          BY <4>1 DEF ExFill
        <5> QED
          BY <1>1, <5>1
      <4>2. CASE ExArrive(q) \/ ExCancel(q) \/ ExReject(q)
        <5>1. PICK st : ex' = [ex EXCEPT ![q].st = st]
          BY <4>2 DEF ExArrive, ExCancel, ExReject
        <5> QED
          BY <1>1, <5>1
      <4> QED
        BY <2>3, <4>1, <4>2
    <3>3. CASE p = q
      <4>2. ex[p].filled <= ex'[p].filled
        BY <1>1, <3>2, <3>3
      <4> QED
        BY <2>1, <3>1, <3>3, <4>2 DEF ExStep, Pending
    <3>4. CASE p # q
      <4>1. ex'[p] = ex[p]
        BY <1>1, <3>2, <3>4
      <4> QED
        BY <2>1, <4>1, ExLeft
    <3> QED
      BY <3>3, <3>4
  <2> QED
    BY <1>7, <2>2, <2>3 DEF Exchange
<1>8. ASSUME NEW q \in Plans, RejectPlan(q)
      PROVE  ExStep(p)
  BY <1>2, <1>8 DEF RejectPlan
<1> QED
  BY <1>5, <1>6, <1>7, <1>8 DEF Next

\* Only upsert_managed_position writes position rows here.
LEMMA NextPos ==
    ASSUME IInv, Next, NEW p \in Plans
    PROVE  PosStep(p)
<1>1. CASE pos' = pos
  BY <1>1 DEF PosStep
<1>2. ASSUME NEW w \in Workers, UpsertManagedPosition(w)
      PROVE  PosStep(p)
  <2>1. PICK r : r = wk[w]
    OBVIOUS
  <2>2. /\ r.pc = "upsert"
        /\ pos' = [pos EXCEPT ![r.p] = [st |-> ManagedState(r), qty |-> r.row.filled,
                                        prot |-> r.prot]]
    BY <1>2, <2>1 DEF UpsertManagedPosition, At
  <2>3. r.p \in Plans /\ WorkerOK(r)
    BY <2>1, <2>2, WorkerFacts DEF Loops
  <2>4. RemoteState(r) \in {"PARTIALLY_FILLED", "FILLED", "CANCELLED"}
    BY <2>2, <2>3 DEF WorkerOK, HasManagedFill
  <2>5. ManagedState(r) \in MANAGED_POSITION_STATES
    BY <2>4 DEF ManagedState, MANAGED_POSITION_STATES
  <2>6. pos \in [Plans -> PositionRow]
    BY DEF IInv, SharedType
  <2>7. CASE p = r.p
    <3>1. pos'[p].st = ManagedState(r)
      BY <2>2, <2>3, <2>6, <2>7
    <3> QED
      BY <2>5, <3>1 DEF PosStep
  <2>8. CASE p # r.p
    BY <2>2, <2>3, <2>6, <2>8 DEF PosStep
  <2> QED
    BY <2>7, <2>8
<1>3. ASSUME NEW w \in Workers, WorkerStep(w), ~UpsertManagedPosition(w)
      PROVE  pos' = pos
  BY <1>3 DEF WorkerStep, MarkSubmitted, ExecuteBlocked, ExecutePlace, RecordRejected,
     RecordUnknown, RecordAck, LookupMissed, LookupFound, ApplyRemoteOrder, ProtectionState,
     RecordProtection, RecordEntryFill, RestoreCancelRequest, RecoverNext, CancelNext,
     CancelWithoutRequest, CancelEntry, RecordCancelAck, CancelLaneExhausted
<1>4. ASSUME NEW w \in Workers, Task(w) \/ Failure(w)
      PROVE  pos' = pos
  BY <1>4 DEF Task, Submit, RecoverActiveOrders, CancelPendingEntries, Cancel,
     Failure, LookupUnrecognised, ProtectionRaised,
     RecordEntryFillNoAverage, Crash
<1>5. ASSUME NEW q \in Plans, RejectPlan(q) \/ Exchange(q)
      PROVE  pos' = pos
  BY <1>5 DEF RejectPlan, Exchange, ExArrive, ExFill, ExCancel, ExReject, ExProtect
<1> QED
  BY <1>1, <1>2, <1>3, <1>4, <1>5 DEF Next

\* A fault is never taken back.
LEMMA NextFaults ==
    ASSUME IInv, Next, faults' = 0
    PROVE  faults = 0
<1>1. faults \in Nat
  BY MaxFaultsAssumption DEF IInv, SharedType
<1>2. faults' = faults \/ faults' = faults + 1
  <2>1. ASSUME NEW w \in Workers, WorkerStep(w)
        PROVE  faults' = faults
    BY <2>1 DEF WorkerStep, MarkSubmitted, ExecuteBlocked, ExecutePlace, RecordRejected,
       RecordUnknown, RecordAck, LookupMissed, LookupFound, ApplyRemoteOrder, ProtectionState,
       RecordProtection, UpsertManagedPosition, RecordEntryFill, RestoreCancelRequest,
       RecoverNext, CancelNext, CancelWithoutRequest, CancelEntry, RecordCancelAck,
       CancelLaneExhausted
  <2>2. ASSUME NEW w \in Workers, Task(w) \/ Failure(w)
        PROVE  faults' = faults \/ faults' = faults + 1
    BY <2>2 DEF Task, Submit, RecoverActiveOrders, CancelPendingEntries, Cancel,
       Failure, LookupUnrecognised, ProtectionRaised,
     RecordEntryFillNoAverage, Crash
  <2>3. ASSUME NEW q \in Plans, RejectPlan(q) \/ Exchange(q)
        PROVE  faults' = faults
    BY <2>3 DEF RejectPlan, Exchange, ExArrive, ExFill, ExCancel, ExReject, ExProtect
  <2> QED
    BY <2>1, <2>2, <2>3 DEF Next
<1> QED
  BY <1>1, <1>2

(***************************************************************************)
(* Claims become fewer.                                                    *)
(***************************************************************************)
\* What is known of a plan and of its entry.
LEMMA PlanFacts ==
    ASSUME IInv, SoloInv, GateType, NEW p \in Plans
    PROVE  /\ ex[p].filled \in 0..Q /\ order[p].filled \in 0..Q /\ sold[p] \in 0..Q
           /\ Q \in Nat /\ order[p].st \in OrderState /\ order[p].filled <= ex[p].filled
           /\ ExchangeOK(p) /\ OrderOK(p) /\ TableOK(p)
<1>1. /\ ex[p].filled \in 0..Q /\ order[p].filled \in 0..Q /\ order[p].st \in OrderState
  BY DEF IInv, SharedType
<1>2. sold[p] \in 0..Q /\ Q \in Nat
  BY QAssumption DEF GateType
<1>3. ExchangeOK(p) /\ OrderOK(p) /\ TableOK(p)
  BY DEF IInv, SharedOK, SoloInv, FollowInv
<1> QED
  BY <1>1, <1>2, <1>3 DEF TableOK

\* A step that admits nothing: no entry becomes pending, no limit grows.
LEMMA LimitStep ==
    ASSUME IInv, SoloInv, GateType, IInv', NEW p \in Plans, RowStep(p), ExStep(p)
    PROVE  /\ order'[p].st # "CLOSED" => order[p].st # "CLOSED"
           /\ order[p].st # "CLOSED" /\ Pending(p)' => Pending(p)
           /\ Limit(p)' <= Limit(p)
<1>1. /\ ex[p].filled \in 0..Q /\ order[p].filled \in 0..Q /\ Q \in Nat
      /\ ex'[p].filled \in 0..Q
  BY PlanFacts DEF IInv, SharedType
<1>2. order'[p].st # "CLOSED" => order[p].st # "CLOSED"
  BY DEF RowStep
<1>3. ASSUME order[p].st # "CLOSED" PROVE Pending(p)' => Pending(p)
  BY DEF RowStep, ExStep, Pending
<1>4. CASE order[p].st = "CLOSED"
  <2>1. order'[p] = order[p]
    BY <1>4 DEF RowStep
  <2> QED
    BY <1>1, <1>2, <1>4, <2>1 DEF Limit
<1>5. CASE order[p].st # "CLOSED"
  <2>1. order'[p].st # "CLOSED"
    BY <1>5 DEF RowStep
  <2>2. CASE Pending(p)
    BY <1>1, <1>2, <1>5, <2>1, <2>2 DEF Limit
  <2>3. CASE ~Pending(p)
    <3>1. ~Pending(p)' /\ ex'[p].filled = ex[p].filled
      BY <1>3, <1>5, <2>3 DEF ExStep, Pending
    <3> QED
      BY <1>1, <1>2, <1>5, <2>1, <2>3, <3>1 DEF Limit
  <2> QED
    BY <1>3, <1>5, <2>2, <2>3
<1> QED
  BY <1>4, <1>5

\* Limits are numbers of lots.
LEMMA LimitType ==
    ASSUME IInv, NEW p \in Plans
    PROVE  Limit(p) \in 0..Q
<1>1. order[p].filled \in 0..Q /\ ex[p].filled \in 0..Q /\ Q \in Nat
  BY QAssumption DEF IInv, SharedType
<1> QED
  BY <1>1 DEF Limit

\* So nothing new is claimed and no slot is taken.
LEMMA ClaimsShrink ==
    ASSUME IInv, SoloInv, GateType, IInv', GateType',
           \A p \in Plans : RowStep(p) /\ ExStep(p) /\ sold[p] <= sold'[p]
    PROVE  Claimed' \subseteq Claimed /\ Occupied' \subseteq Occupied
<1>1. ASSUME NEW l \in Lots, sold'[l[1]] < l[2], l[2] <= Limit(l[1])'
      PROVE  sold[l[1]] < l[2] /\ l[2] <= Limit(l[1])
  <2>1. l[1] \in Plans /\ l[2] \in 1..Q /\ Q \in Nat
    BY QAssumption DEF Lots
  <2>2. Limit(l[1]) \in 0..Q
    BY <2>1, LimitType
  <2>3. Limit(l[1])' \in 0..Q
    <3>1. /\ order'[l[1]].filled \in 0..Q /\ ex'[l[1]].filled \in 0..Q
      BY <2>1 DEF IInv, SharedType
    <3> QED
      BY <2>1, <3>1 DEF Limit
  <2>4. Limit(l[1])' <= Limit(l[1])
    BY <2>1, LimitStep
  <2>5. sold[l[1]] \in 0..Q /\ sold'[l[1]] \in 0..Q
    BY <2>1 DEF GateType
  <2>6. sold[l[1]] <= sold'[l[1]]
    BY <2>1
  <2> QED
    BY <1>1, <2>1, <2>2, <2>3, <2>4, <2>5, <2>6
<1>2. Claimed' \subseteq Claimed
  BY <1>1 DEF Claimed, Lots
<1>3. ASSUME NEW p \in Plans, order'[p].st # "CLOSED", Pending(p)' \/ ex'[p].filled > sold'[p]
      PROVE  order[p].st # "CLOSED" /\ (Pending(p) \/ ex[p].filled > sold[p])
  <2>1. /\ order[p].st # "CLOSED" /\ (Pending(p)' => Pending(p))
    BY <1>3, LimitStep
  <2>2. sold[p] \in 0..Q /\ sold'[p] \in 0..Q /\ ex[p].filled \in 0..Q /\ Q \in Nat
    BY PlanFacts DEF GateType
  <2>3. ex'[p].filled = ex[p].filled \/ Pending(p)
    BY DEF ExStep, Pending
  <2> QED
    BY <1>3, <2>1, <2>2, <2>3
<1>4. Occupied' \subseteq Occupied
  BY <1>3 DEF Occupied
<1> QED
  BY <1>2, <1>4

\* A step that admits nothing keeps the account and both bounds.
LEMMA GateKept ==
    ASSUME IInv, SoloInv, GateInv, IInv', GateType', rules' = rules,
           faults' = 0 => faults = 0,
           \A p \in Plans : RowStep(p) /\ ExStep(p) /\ PosStep(p),
           \A p \in Plans : sold[p] <= sold'[p] /\ sold'[p] <= ex'[p].filled
    PROVE  /\ \A p \in Plans : AccountOK(p)'
           /\ Claimed' \subseteq Claimed
           /\ Cardinality(Claimed') <= rules'.exposure
           /\ faults' = 0 => Cardinality(Occupied') <= rules'.open
<1>1. GateType
  BY DEF GateInv
<1>2. Claimed' \subseteq Claimed /\ Occupied' \subseteq Occupied
  BY <1>1, ClaimsShrink
<1>3. Claimed \in SUBSET Lots /\ Claimed' \in SUBSET Lots
  BY <1>2 DEF Claimed
<1>4. Occupied \in SUBSET Plans /\ Occupied' \in SUBSET Plans
  BY <1>2 DEF Occupied
<1>5. /\ Cardinality(Claimed') <= Cardinality(Claimed)
      /\ Cardinality(Claimed') \in Nat /\ Cardinality(Claimed) \in Nat
  BY <1>2, <1>3, CountLots
<1>6. /\ Cardinality(Occupied') <= Cardinality(Occupied)
      /\ Cardinality(Occupied') \in Nat /\ Cardinality(Occupied) \in Nat
  BY <1>2, <1>4, CountPlans
<1>7. rules.exposure \in Nat /\ rules.open \in Nat
  BY <1>1, RuleSetsAssumption DEF GateType
<1>8. Cardinality(Claimed') <= rules'.exposure
  BY <1>5, <1>7 DEF GateInv
<1>9. faults' = 0 => Cardinality(Occupied') <= rules'.open
  BY <1>6, <1>7 DEF GateInv
<1>10. ASSUME NEW p \in Plans PROVE AccountOK(p)'
  <2>1. AccountOK(p)
    BY DEF GateInv
  <2>2. pos'[p].st = "NONE" => pos'[p].qty = 0
    BY <2>1 DEF AccountOK, PosStep, MANAGED_POSITION_STATES
  <2>3. pos'[p].st = "CLOSED" => order'[p].st = "CLOSED"
    <3>1. pos'[p].st = "CLOSED" => pos'[p] = pos[p]
      BY DEF PosStep, MANAGED_POSITION_STATES
    <3>2. order[p].st = "CLOSED" => order'[p] = order[p]
      BY DEF RowStep
    <3> QED
      BY <2>1, <3>1, <3>2 DEF AccountOK
  <2>4. faults' = 0 /\ order'[p].st = "CLOSED" => order'[p].filled <= sold'[p]
    <3>1. order'[p].st = "CLOSED" => order'[p] = order[p]
      BY DEF RowStep
    <3>2. sold[p] \in 0..Q /\ sold'[p] \in 0..Q /\ order[p].filled \in 0..Q /\ Q \in Nat
      BY <1>1, PlanFacts DEF GateType
    <3> QED
      BY <2>1, <3>1, <3>2 DEF AccountOK
  <2> QED
    BY <2>2, <2>3, <2>4 DEF AccountOK
<1> QED
  BY <1>2, <1>8, <1>9, <1>10

(***************************************************************************)
(* What the gate sees.                                                     *)
(***************************************************************************)
\* An entry that may still buy or be sent is in a state that reserves money.
LEMMA PendingReserves ==
    ASSUME IInv, SoloInv, GateType, NEW p \in Plans, Pending(p), order[p].st # "CLOSED"
    PROVE  order[p].st \in {"APPROVED", "SUBMITTED", "SUBMISSION_UNKNOWN", "CANCEL_REQUESTED",
                            "OPEN", "PARTIALLY_FILLED"}
<1>1. ExchangeOK(p) /\ OrderOK(p) /\ TableOK(p) /\ order[p].st \in OrderState
  BY PlanFacts
<1>2. CASE MayBuy(p)
  BY <1>1, <1>2 DEF MayBuy, ExchangeOK, OrderOK, TableOK, OrderState
<1>3. CASE placed[p] = 0 /\ order[p].st \notin {"PLANNED", "REJECTED"}
  BY <1>1, <1>3 DEF ExchangeOK, OrderOK, TableOK, OrderState
<1> QED
  BY <1>2, <1>3 DEF Pending

\* Every claimed lot is in the wallet now, or reserved by a row.
LEMMA ClaimsCovered ==
    ASSUME IInv, SoloInv, GateInv
    PROVE  Claimed \subseteq Held \cup Reserved
<1> SUFFICES ASSUME NEW l \in Lots, sold[l[1]] < l[2], l[2] <= Limit(l[1]), l \notin Held
             PROVE  l \in Reserved
  BY DEF Claimed
<1>1. l[1] \in Plans /\ l[2] \in 1..Q
  BY DEF Lots
<1>2. PICK p \in Plans : p = l[1]
  BY <1>1
<1>3. /\ ex[p].filled \in 0..Q /\ order[p].filled \in 0..Q /\ Q \in Nat
      /\ order[p].filled <= ex[p].filled
  BY PlanFacts DEF GateInv
<1>4. ~(l[2] <= ex[p].filled)
  BY <1>2 DEF Held
<1>5. order[p].st # "CLOSED"
  BY <1>1, <1>2, <1>3, <1>4 DEF Limit
<1>6. Pending(p)
  BY <1>2, <1>4, <1>5 DEF Limit
<1>7. order[p].filled < l[2]
  BY <1>1, <1>3, <1>4
<1>8. order[p].st \in {"APPROVED", "SUBMITTED", "SUBMISSION_UNKNOWN", "CANCEL_REQUESTED",
                       "OPEN", "PARTIALLY_FILLED"}
  BY <1>5, <1>6, PendingReserves DEF GateInv
<1> QED
  BY <1>2, <1>7, <1>8 DEF Reserved

\* Between tasks, as long as nothing failed, every occupied plan has a slot.
LEMMA OccupiedHasSlot ==
    ASSUME IInv, SoloInv, GateInv, faults = 0, \A w \in Workers : wk[w].pc = "idle"
    PROVE  Occupied \subseteq {p \in Plans : \/ pos[p].st \in MANAGED_POSITION_STATES
                                             \/ order[p].st \in ACTIVE_ORDER_STATES}
<1> SUFFICES ASSUME NEW p \in Plans, order[p].st # "CLOSED", order[p].st \notin ACTIVE_ORDER_STATES,
                    Pending(p) \/ ex[p].filled > sold[p]
             PROVE  pos[p].st \in MANAGED_POSITION_STATES
  BY DEF Occupied
<1>1. /\ ex[p].filled \in 0..Q /\ order[p].filled \in 0..Q /\ sold[p] \in 0..Q /\ Q \in Nat
      /\ ExchangeOK(p) /\ OrderOK(p) /\ TableOK(p) /\ order[p].st \in OrderState
  BY PlanFacts DEF GateInv
<1>2. ~Pending(p)
  BY PendingReserves DEF GateInv, ACTIVE_ORDER_STATES
<1>3. ex[p].filled > 0
  BY <1>1, <1>2
<1>4. order[p].st = "CANCELLED"
  BY <1>1, <1>3 DEF ExchangeOK, OrderOK, TableOK, OrderState, ACTIVE_ORDER_STATES
<1>5. order[p].filled > 0
  BY <1>1, <1>3, <1>4 DEF OrderOK
<1>6. Managed(p)
  BY DEF SoloInv, FollowInv, ManagedOK, Busy
<1>7. pos[p].qty # 0
  BY <1>1, <1>5, <1>6 DEF Managed
<1>8. AccountOK(p) /\ pos[p] \in PositionRow
  BY DEF GateInv, IInv, SharedType
<1> QED
  BY <1>4, <1>7, <1>8 DEF AccountOK, PositionRow

(***************************************************************************)
(* The steps of the gate.                                                  *)
(***************************************************************************)
\* Everything the proof keeps.
AllInv == IInv /\ SoloInv /\ GateInv

\* Nothing of the entry side moves.
LEMMA EntryRests ==
    ASSUME OneProcess, AllInv, UNCHANGED vars
    PROVE  /\ IInv' /\ SoloInv' /\ faults' = faults
           /\ \A p \in Plans : RowStep(p) /\ ExStep(p) /\ PosStep(p) /\ ex'[p] = ex[p]
           /\ Reserved' = Reserved
<1>1. UNCHANGED <<order, pos, trade, ex, sl, placed, wk, faults>>
  BY DEF vars
<1>2. IInv' /\ SoloInv'
  BY NextIInv, NextSolo DEF AllInv
<1>3. \A p \in Plans : ExStep(p)
  BY <1>1, ExLeft DEF AllInv
<1> QED
  BY <1>1, <1>2, <1>3 DEF RowStep, PosStep, Reserved

\* An approval under way is not disturbed by fewer claims.
LEMMA AskKept ==
    ASSUME NEW w, AskOK(w), ask'[w] = ask[w], wk'[w].pc = wk[w].pc,
           Claimed' \subseteq Claimed, Reserved' = Reserved
    PROVE  AskOK(w)'
<1>1. CASE ask[w] = NoAsk
  BY <1>1 DEF AskOK
<1>2. CASE ask[w] # NoAsk
  <2>1. PICK A \in SUBSET Lots : Cardinality(A) = ask[w].wallet /\ Claimed \subseteq A \cup Reserved
    BY <1>2 DEF AskOK
  <2>2. Cardinality(A) = ask'[w].wallet /\ Claimed' \subseteq A \cup Reserved'
    BY <2>1
  <2>3. wk'[w].pc = "idle" /\ ask'[w].p \in Plans
    BY <1>2 DEF AskOK
  <2> QED
    BY <2>2, <2>3 DEF AskOK, Lots
<1> QED
  BY <1>1, <1>2

\* The account is read: everything claimed is in the wallet or in the rows.
LEMMA BeginApprovalStep ==
    ASSUME OneProcess, AllInv, NEW w \in Workers, NEW p \in Plans, BeginApproval(w, p)
    PROVE  AllInv'
<1>1. /\ UNCHANGED vars /\ UNCHANGED <<rules, sold, trades>> /\ wk[w].pc = "idle"
      /\ ask' = [ask EXCEPT ![w] = [p |-> p, wallet |-> Wallet]]
  BY DEF BeginApproval, vars, Free, At
<1>2. /\ IInv' /\ SoloInv' /\ faults' = faults /\ Reserved' = Reserved /\ wk' = wk
      /\ \A q \in Plans : RowStep(q) /\ ExStep(q) /\ PosStep(q) /\ ex'[q] = ex[q]
  BY <1>1, EntryRests DEF vars
<1>3. Held \in SUBSET Lots /\ Wallet \in Nat
  BY CountLots DEF Held, Wallet
<1>4. GateType /\ GateType'
  BY <1>1, <1>3 DEF AllInv, GateInv, GateType
<1>5. \A q \in Plans : sold[q] <= sold'[q] /\ sold'[q] <= ex'[q].filled
  BY <1>1, <1>2, PlanFacts, <1>4 DEF AllInv, GateInv, AccountOK
<1>6. /\ \A q \in Plans : AccountOK(q)'
      /\ Claimed' \subseteq Claimed
      /\ Cardinality(Claimed') <= rules'.exposure
      /\ faults' = 0 => Cardinality(Occupied') <= rules'.open
  BY <1>1, <1>2, <1>4, <1>5, GateKept DEF AllInv
<1>7. ask'[w] = [p |-> p, wallet |-> Wallet]
  BY <1>1, <1>4 DEF GateType
<1>8. AskOK(w)'
  <2>1. Claimed \subseteq Held \cup Reserved
    BY ClaimsCovered DEF AllInv
  <2>2. Cardinality(Held) = ask'[w].wallet /\ Claimed' \subseteq Held \cup Reserved'
    BY <1>2, <1>6, <1>7, <2>1 DEF Wallet
  <2>3. wk'[w].pc = "idle" /\ ask'[w].p \in Plans
    BY <1>1, <1>2, <1>7
  <2> QED
    BY <1>3, <2>2, <2>3 DEF AskOK, Lots
<1>9. \A v \in Workers : AskOK(v)'
  BY <1>8 DEF OneProcess
<1> QED
  BY <1>2, <1>4, <1>6, <1>9 DEF AllInv, GateInv

\* The approval ends without a decision.
LEMMA ApprovalReturnsStep ==
    ASSUME OneProcess, AllInv, NEW w \in Workers, ApprovalReturns(w)
    PROVE  AllInv'
<1>1. /\ UNCHANGED vars /\ UNCHANGED <<rules, sold, trades>> /\ ask' = [ask EXCEPT ![w] = NoAsk]
  BY DEF ApprovalReturns, vars
<1>2. /\ IInv' /\ SoloInv' /\ faults' = faults
      /\ \A q \in Plans : RowStep(q) /\ ExStep(q) /\ PosStep(q) /\ ex'[q] = ex[q]
  BY <1>1, EntryRests
<1>3. NoAsk \in [p : Plans \cup {NoPlan}, wallet : Nat]
  BY DEF NoAsk
<1>4. GateType /\ GateType'
  BY <1>1, <1>3 DEF AllInv, GateInv, GateType
<1>5. \A q \in Plans : sold[q] <= sold'[q] /\ sold'[q] <= ex'[q].filled
  BY <1>1, <1>2, <1>4, PlanFacts DEF AllInv, GateInv, AccountOK
<1>6. /\ \A q \in Plans : AccountOK(q)'
      /\ Cardinality(Claimed') <= rules'.exposure
      /\ faults' = 0 => Cardinality(Occupied') <= rules'.open
  BY <1>1, <1>2, <1>4, <1>5, GateKept DEF AllInv
<1>7. ask'[w] = NoAsk
  BY <1>1, <1>4 DEF GateType
<1>8. \A v \in Workers : AskOK(v)'
  BY <1>7 DEF OneProcess, AskOK
<1> QED
  BY <1>2, <1>4, <1>6, <1>8 DEF AllInv, GateInv

\* An exit sells, or the day ends: fewer claims, no admission.
LEMMA SellOrNewDayStep ==
    ASSUME OneProcess, AllInv, NewDay \/ \E p \in Plans : ExSell(p)
    PROVE  AllInv'
<1>1. /\ UNCHANGED vars /\ UNCHANGED <<rules, ask>>
      /\ \/ sold' = sold /\ trades' = <<>>
         \/ /\ trades' = trades
            /\ \E p \in Plans : ex[p].filled > sold[p] /\ sold' = [sold EXCEPT ![p] = ex[p].filled]
  BY DEF NewDay, ExSell, vars
<1>2. /\ IInv' /\ SoloInv' /\ faults' = faults /\ Reserved' = Reserved /\ wk' = wk
      /\ \A q \in Plans : RowStep(q) /\ ExStep(q) /\ PosStep(q) /\ ex'[q] = ex[q]
  BY <1>1, EntryRests DEF vars
<1>3. GateType
  BY DEF AllInv, GateInv
<1>4. \A q \in Plans : sold[q] \in 0..Q /\ ex[q].filled \in 0..Q /\ Q \in Nat
                       /\ sold[q] <= ex[q].filled
  BY <1>3, PlanFacts DEF AllInv, GateInv, AccountOK
<1>5. /\ sold' \in [Plans -> 0..Q]
      /\ \A q \in Plans : sold[q] <= sold'[q] /\ sold'[q] <= ex'[q].filled
  <2>1. CASE sold' = sold
    BY <1>2, <1>3, <1>4, <2>1 DEF GateType
  <2>2. ASSUME NEW p \in Plans, sold' = [sold EXCEPT ![p] = ex[p].filled]
        PROVE  /\ sold' \in [Plans -> 0..Q]
               /\ \A q \in Plans : sold[q] <= sold'[q] /\ sold'[q] <= ex'[q].filled
    BY <1>2, <1>3, <1>4, <2>2 DEF GateType
  <2> QED
    BY <1>1, <2>1, <2>2
<1>6. GateType'
  <2>1. trades' \in Seq([pnl : Int, known : BOOLEAN])
    <3>1. PICK S : S = [pnl : Int, known : BOOLEAN]
      OBVIOUS
    <3>2. trades \in Seq(S) /\ <<>> \in Seq(S)
      BY <1>3, <3>1 DEF GateType
    <3> QED
      BY <1>1, <3>1, <3>2
  <2> QED
    BY <1>1, <1>3, <1>5, <2>1 DEF GateType
<1>7. /\ \A q \in Plans : AccountOK(q)'
      /\ Claimed' \subseteq Claimed
      /\ Cardinality(Claimed') <= rules'.exposure
      /\ faults' = 0 => Cardinality(Occupied') <= rules'.open
  BY <1>1, <1>2, <1>5, <1>6, GateKept DEF AllInv
<1>8. \A v \in Workers : AskOK(v)'
  BY <1>1, <1>2, <1>7, AskKept DEF AllInv, GateInv
<1> QED
  BY <1>2, <1>6, <1>7, <1>8 DEF AllInv, GateInv

\* Between two steps of a task the process cannot be deciding.
LEMMA WorkerNotIdle ==
    ASSUME NEW w \in Workers, WorkerStep(w) \/ Failure(w)
    PROVE  wk[w].pc # "idle"
  BY DEF WorkerStep, MarkSubmitted, ExecuteBlocked, ExecutePlace, RecordRejected,
     RecordUnknown, RecordAck, LookupMissed, LookupFound, ApplyRemoteOrder, ProtectionState,
     RecordProtection, UpsertManagedPosition, RecordEntryFill, RestoreCancelRequest,
     RecoverNext, CancelNext, CancelWithoutRequest, CancelEntry, RecordCancelAck,
     CancelLaneExhausted, Failure, LookupUnrecognised, ProtectionRaised,
     RecordEntryFillNoAverage, Crash, At

\* A step of the entry side other than the approval keeps account and bounds.
LEMMA EntryKeeps ==
    ASSUME OneProcess, AllInv, NextButSubmit, GateType', rules' = rules, sold' = sold
    PROVE  /\ IInv' /\ SoloInv'
           /\ \A p \in Plans : AccountOK(p)'
           /\ Claimed' \subseteq Claimed
           /\ Cardinality(Claimed') <= rules'.exposure
           /\ faults' = 0 => Cardinality(Occupied') <= rules'.open
<1>1. Next
  BY SubmitOrNot
<1>2. IInv' /\ SoloInv'
  BY <1>1, NextIInv, NextSolo DEF AllInv
<1>3. \A p \in Plans : RowStep(p) /\ ExStep(p) /\ PosStep(p)
  BY <1>1, NextRows, NextEx, NextPos DEF AllInv
<1>4. ASSUME NEW p \in Plans PROVE sold[p] <= sold'[p] /\ sold'[p] <= ex'[p].filled
  <2>1. /\ sold[p] \in 0..Q /\ ex[p].filled \in 0..Q /\ ex'[p].filled \in 0..Q /\ Q \in Nat
    BY <1>2, PlanFacts DEF AllInv, GateInv, IInv, SharedType
  <2>2. sold[p] <= ex[p].filled /\ ex[p].filled <= ex'[p].filled
    BY <1>3 DEF AllInv, GateInv, AccountOK, ExStep
  <2> QED
    BY <2>1, <2>2
<1>5. faults' = 0 => faults = 0
  BY <1>1, NextFaults DEF AllInv
<1> QED
  BY <1>2, <1>3, <1>4, <1>5, GateKept DEF AllInv

\* The entry side, for a worker that is not deciding.
LEMMA EntrySideStep ==
    ASSUME OneProcess, AllInv, EntrySide
    PROVE  AllInv'
<1>1. UNCHANGED <<rules, ask, sold, trades>> /\ NextButSubmit
  BY DEF EntrySide, gate, NextButSubmit, Exchange
<1>2. GateType'
  BY <1>1 DEF AllInv, GateInv, GateType
<1>3. /\ IInv' /\ SoloInv'
      /\ \A p \in Plans : AccountOK(p)'
      /\ Claimed' \subseteq Claimed
      /\ Cardinality(Claimed') <= rules'.exposure
      /\ faults' = 0 => Cardinality(Occupied') <= rules'.open
  BY <1>1, <1>2, EntryKeeps
<1>4. ASSUME NEW w \in Workers PROVE AskOK(w)'
  <2>1. CASE ask[w] = NoAsk
    BY <1>1, <2>1 DEF AskOK
  <2>2. CASE ask[w] # NoAsk
    <3>1. wk[w].pc = "idle" /\ \A v \in Workers : v = w
      BY <2>2 DEF AllInv, GateInv, AskOK, OneProcess
    <3>2. ~ \E v \in Workers : WorkerStep(v) \/ Failure(v)
      BY <3>1, WorkerNotIdle
    <3>3. PICK p \in Plans : RejectPlan(p) \/ ExArrive(p) \/ ExFill(p) \/ ExCancel(p) \/ ExReject(p)
      BY <2>2, <3>1, <3>2 DEF EntrySide
    <3>4. wk' = wk
      BY <3>3 DEF RejectPlan, ExArrive, ExFill, ExCancel, ExReject
    <3>5. Reserved' = Reserved
      <4>1. CASE RejectPlan(p)
        <5>1. order[p].st = "PLANNED" /\ order' = [order EXCEPT ![p].st = "REJECTED"]
          BY <4>1 DEF RejectPlan, SetState
        <5>2. order'[p].st = "REJECTED" /\ \A q \in Plans \ {p} : order'[q] = order[q]
          BY <5>1, StateSet DEF AllInv, IInv
        <5>3. \A l \in Lots : l[1] \in Plans
          BY DEF Lots
        <5> QED
          BY <5>1, <5>2, <5>3 DEF Reserved, Lots
      <4>2. CASE order' = order
        BY <4>2 DEF Reserved, Lots
      <4> QED
        BY <3>3, <4>1, <4>2 DEF ExArrive, ExFill, ExCancel, ExReject
    <3> QED
      BY <1>1, <1>3, <3>4, <3>5, AskKept DEF AllInv, GateInv
  <2> QED
    BY <2>1, <2>2
<1> QED
  BY <1>2, <1>3, <1>4 DEF AllInv, GateInv

\* A check failed: the plan is rejected, which claims nothing.
LEMMA RefusePlanStep ==
    ASSUME OneProcess, AllInv, NEW w \in Workers, RefusePlan(w)
    PROVE  AllInv'
<1>1. /\ ask[w] # NoAsk /\ RejectPlan(ask[w].p) /\ UNCHANGED <<rules, sold, trades>>
      /\ ask' = [ask EXCEPT ![w] = NoAsk]
  BY DEF RefusePlan
<1>2. ask[w].p \in Plans /\ GateType
  BY <1>1 DEF AllInv, GateInv, AskOK
<1>3. NextButSubmit
  BY <1>1, <1>2 DEF NextButSubmit
<1>4. NoAsk \in [p : Plans \cup {NoPlan}, wallet : Nat]
  BY DEF NoAsk
<1>5. GateType' /\ ask'[w] = NoAsk
  BY <1>1, <1>2, <1>4 DEF GateType
<1>6. /\ IInv' /\ SoloInv'
      /\ \A p \in Plans : AccountOK(p)'
      /\ Cardinality(Claimed') <= rules'.exposure
      /\ faults' = 0 => Cardinality(Occupied') <= rules'.open
  BY <1>1, <1>3, <1>5, EntryKeeps
<1>7. \A v \in Workers : AskOK(v)'
  BY <1>5 DEF OneProcess, AskOK
<1> QED
  BY <1>5, <1>6, <1>7 DEF AllInv, GateInv

\* Every check passed: one more entry, within both bounds.
LEMMA AdmitPlanStep ==
    ASSUME OneProcess, AllInv, NEW w \in Workers, AdmitPlan(w)
    PROVE  AllInv'
<1>1. /\ ask[w] # NoAsk /\ Submit(w, ask[w].p) /\ UNCHANGED <<rules, sold, trades>>
      /\ ask' = [ask EXCEPT ![w] = NoAsk]
      /\ PositionSlotsInUse < rules.open
      /\ ask[w].wallet + ReservedEntryNotional + Q <= rules.exposure
  BY DEF AdmitPlan, Passes
<1>2. /\ ask[w].p \in Plans /\ GateType /\ wk[w].pc = "idle"
      /\ \A v \in Workers : wk[v].pc = "idle"
  BY <1>1 DEF AllInv, GateInv, AskOK, OneProcess
<1>3. PICK p \in Plans : p = ask[w].p
  BY <1>2
<1>4. Next /\ Submit(w, p)
  BY <1>1, <1>3, SubmitOrNot
<1>5. IInv' /\ SoloInv'
  BY <1>4, NextIInv, NextSolo DEF AllInv
<1>6. /\ order[p].st = "PLANNED" /\ order' = [order EXCEPT ![p].st = "APPROVED"]
      /\ UNCHANGED <<pos, trade, ex, sl, placed, faults>>
  BY <1>4 DEF Submit, SetState
<1>7. /\ order'[p].st = "APPROVED" /\ order'[p].filled = order[p].filled
      /\ \A q \in Plans \ {p} : order'[q] = order[q]
  BY <1>6, StateSet DEF AllInv, IInv
<1>8. NoAsk \in [p : Plans \cup {NoPlan}, wallet : Nat]
  BY DEF NoAsk
<1>9. GateType' /\ ask'[w] = NoAsk
  BY <1>1, <1>2, <1>8 DEF GateType
<1>10. \A q \in Plans \ {p} : Limit(q)' = Limit(q) /\ (Pending(q)' <=> Pending(q))
  BY <1>6, <1>7 DEF Limit, Pending, MayBuy
<1>11. Claimed' \subseteq Claimed \cup ({p} \X (1..Q))
  <2> SUFFICES ASSUME NEW l \in Lots, sold'[l[1]] < l[2], l[2] <= Limit(l[1])', l[1] # p
               PROVE  l \in Claimed
    BY DEF Claimed, Lots
  <2>1. l[1] \in Plans \ {p}
    BY DEF Lots
  <2> QED
    BY <1>1, <1>10, <2>1 DEF Claimed
<1>12. Occupied' \subseteq Occupied \cup {p}
  BY <1>1, <1>6, <1>7, <1>10 DEF Occupied
<1>13. rules.exposure \in Nat /\ rules.open \in Nat /\ rules' = rules
  BY <1>1, <1>2, RuleSetsAssumption DEF GateType
<1>14. Cardinality(Claimed') <= rules'.exposure
  <2>1. PICK A \in SUBSET Lots : Cardinality(A) = ask[w].wallet /\ Claimed \subseteq A \cup Reserved
    BY <1>1 DEF AllInv, GateInv, AskOK
  <2>2. /\ Claimed' \in SUBSET Lots /\ Claimed \in SUBSET Lots /\ Reserved \in SUBSET Lots
        /\ A \cup Reserved \in SUBSET Lots
    BY DEF Claimed, Reserved, Lots
  <2>3. {p} \X (1..Q) \in SUBSET Lots /\ Cardinality({p} \X (1..Q)) = Q
    BY CountEntry
  <2>4. Cardinality(Claimed) <= Cardinality(A \cup Reserved)
    BY <2>1, <2>2, CountLots
  <2>5. Cardinality(A \cup Reserved) <= Cardinality(A) + Cardinality(Reserved)
    BY <2>1, <2>2, CountTogether
  <2>6. PICK E \in SUBSET Lots : E = {p} \X (1..Q)
    BY <2>3
  <2>7. Claimed \cup E \in SUBSET Lots
    BY <2>2
  <2>8. Cardinality(Claimed') <= Cardinality(Claimed \cup E)
    BY <1>11, <2>2, <2>6, <2>7, CountLots
  <2>9. Cardinality(Claimed \cup E) <= Cardinality(Claimed) + Cardinality(E)
    BY <2>2, <2>6, CountTogether
  <2>10. Cardinality(E) = Q
    BY <2>3, <2>6
  <2>11. /\ Cardinality(Claimed') \in Nat /\ Cardinality(Claimed) \in Nat
         /\ Cardinality(A) \in Nat /\ Cardinality(Reserved) \in Nat
         /\ Cardinality(A \cup Reserved) \in Nat /\ Cardinality(Claimed \cup E) \in Nat
    BY <2>2, <2>7, CountLots
  <2>12. Cardinality(A) + Cardinality(Reserved) + Q <= rules.exposure
    BY <1>1, <2>1 DEF ReservedEntryNotional
  <2> QED
    BY <1>13, <2>4, <2>5, <2>8, <2>9, <2>10, <2>11, <2>12, QAssumption
<1>15. faults' = 0 => Cardinality(Occupied') <= rules'.open
  <2> SUFFICES ASSUME faults' = 0 PROVE Cardinality(Occupied') <= rules'.open
    OBVIOUS
  <2>1. PICK S \in SUBSET Plans :
            S = {q \in Plans : \/ pos[q].st \in MANAGED_POSITION_STATES
                               \/ order[q].st \in ACTIVE_ORDER_STATES}
    OBVIOUS
  <2>2. Occupied \subseteq S
    BY <1>2, <1>6, <2>1, OccupiedHasSlot DEF AllInv
  <2>3. Cardinality(S) < rules.open
    BY <1>1, <2>1 DEF PositionSlotsInUse
  <2>4. Occupied' \in SUBSET Plans /\ S \cup {p} \in SUBSET Plans /\ Occupied' \subseteq S \cup {p}
    BY <1>12, <2>2 DEF Occupied
  <2>5. Cardinality(Occupied') <= Cardinality(S \cup {p})
    BY <2>4, CountPlans
  <2>6. Cardinality(S \cup {p}) <= Cardinality(S) + 1
    BY CountPlans
  <2>7. Cardinality(Occupied') \in Nat /\ Cardinality(S) \in Nat /\ Cardinality(S \cup {p}) \in Nat
    BY <2>4, CountPlans
  <2> QED
    BY <1>13, <2>3, <2>5, <2>6, <2>7
<1>16. ASSUME NEW q \in Plans PROVE AccountOK(q)'
  <2>1. AccountOK(q)
    BY DEF AllInv, GateInv
  <2>2. CASE q = p
    BY <1>1, <1>6, <1>7, <2>1, <2>2 DEF AccountOK
  <2>3. CASE q # p
    BY <1>1, <1>6, <1>7, <2>1, <2>3 DEF AccountOK
  <2> QED
    BY <2>2, <2>3
<1>17. \A v \in Workers : AskOK(v)'
  BY <1>9 DEF OneProcess, AskOK
<1> QED
  BY <1>5, <1>9, <1>14, <1>15, <1>16, <1>17 DEF AllInv, GateInv

\* close_trade, by an idle process, keeps what the entry side relies on.
LEMMA CloseTradeEntry ==
    ASSUME OneProcess, IInv, SoloInv, NEW w \in Workers, NEW p \in Plans, wk[w].pc = "idle",
           pos' = [pos EXCEPT ![p].st = "CLOSED"], order' = [order EXCEPT ![p].st = "CLOSED"],
           UNCHANGED <<trade, ex, sl, placed, wk, faults>>
    PROVE  IInv' /\ SoloInv'
<1>1. /\ order'[p].st = "CLOSED" /\ order'[p].filled = order[p].filled
      /\ \A q \in Plans \ {p} : order'[q] = order[q]
  BY StateSet DEF IInv
<1>2. /\ pos \in [Plans -> PositionRow] /\ pos[p] \in PositionRow
      /\ order \in [Plans -> [st : OrderState, id : BOOLEAN, filled : 0..Q]]
      /\ order[p] \in [st : OrderState, id : BOOLEAN, filled : 0..Q]
  BY DEF IInv, SharedType
<1>3. /\ \A q \in Plans : pos'[q].qty = pos[q].qty /\ pos'[q].prot = pos[q].prot
      /\ \A q \in Plans : order'[q].filled = order[q].filled
      /\ \A q \in Plans : order'[q].st = order[q].st \/ order'[q].st = "CLOSED"
  BY <1>1, <1>2 DEF PositionRow
<1>4. SharedType'
  <2>1. [pos[p] EXCEPT !.st = "CLOSED"] \in PositionRow
    BY <1>2 DEF PositionRow
  <2>2. pos' \in [Plans -> PositionRow]
    BY <1>2, <2>1
  <2>3. [order[p] EXCEPT !.st = "CLOSED"] \in [st : OrderState, id : BOOLEAN, filled : 0..Q]
    BY <1>2 DEF OrderState
  <2>4. order' \in [Plans -> [st : OrderState, id : BOOLEAN, filled : 0..Q]]
    BY <1>2, <2>3
  <2> QED
    BY <2>2, <2>4 DEF IInv, SharedType
<1>5. \A v \in Workers : v = w /\ wk[v].pc = "idle" /\ wk'[v] = wk[v]
  BY DEF OneProcess
<1>6. WorkersType'
  BY DEF IInv, WorkersType
<1>7. SharedOK'
  <2> SUFFICES ASSUME NEW q \in Plans PROVE (ExchangeOK(q) /\ OrderOK(q))'
    BY DEF SharedOK
  <2>1. ExchangeOK(q) /\ OrderOK(q)
    BY DEF IInv, SharedOK
  <2> QED
    BY <1>3, <2>1 DEF ExchangeOK, OrderOK
<1>8. WorkersOK'
  <2>1. OneSender'
    BY DEF IInv, WorkersOK, OneSender
  <2>2. ASSUME NEW v \in Workers PROVE WorkerOK(wk[v])'
    <3>1. WorkerOK(wk[v])
      BY DEF IInv, WorkersOK
    <3> QED
      BY <1>5, <3>1 DEF WorkerOK, RowOK
  <2> QED
    BY <2>1, <2>2 DEF WorkersOK
<1>9. IInv'
  BY <1>4, <1>6, <1>7, <1>8 DEF IInv
<1>10. ASSUME NEW q \in Plans PROVE TableOK(q)'
  <2>1. TableOK(q)
    BY DEF SoloInv, FollowInv
  <2> QED
    BY <1>3, <2>1 DEF TableOK
<1>11. ASSUME NEW v \in Workers PROVE CallerOK(wk[v])' /\ OpenOK(wk[v])'
  <2>1. PICK r : r = wk[v]
    OBVIOUS
  <2>2. r.pc = "idle" /\ r.p = NoPlan /\ r.snap = NoSnap /\ CallerOK(r)
    BY <1>5, <2>1 DEF SoloInv, FollowInv, OpenOK
  <2>3. NoPlan \notin Plans /\ \A q \in Plans : NoSnap[q] = "NONE"
    BY NoPlanAssumption DEF NoSnap
  <2>4. SnapOK(r)' /\ OpenOK(r)'
    BY <2>2, <2>3 DEF SnapOK, OpenOK
  <2>5. r.was # TRUE
    BY <2>2 DEF CallerOK, CancelOK, Busy
  <2>6. CallerOK(r)'
    <3>1. r.pc \in Quiet
      BY <2>2 DEF Quiet
    <3> QED
      BY <2>4, <2>5, <3>1, QuietCaller
  <2>7. wk'[v] = r
    BY <2>1
  <2> QED
    BY <2>4, <2>6, <2>7 DEF CallerOK, SubmitOK, FreshOK, ApplyOK, CancelOK, SnapOK, OpenOK
<1>12. ManagedOK'
  <2>1. ASSUME NEW q \in Plans, Managed(q) PROVE Managed(q)'
    BY <1>3, <2>1 DEF Managed
  <2>2. faults = 0 => \A q \in Plans : Managed(q)
    BY <1>5 DEF SoloInv, FollowInv, ManagedOK, Busy
  <2> QED
    BY <2>1, <2>2 DEF ManagedOK
<1> QED
  BY <1>9, <1>10, <1>11, <1>12 DEF SoloInv, FollowInv

\* close_trade: the claim of the plan becomes what its row knows was bought.
LEMMA CloseTradeStep ==
    ASSUME OneProcess, AllInv, NEW w \in Workers, NEW p \in Plans, CloseTrade(w, p)
    PROVE  AllInv'
<1>1. /\ wk[w].pc = "idle" /\ ask[w] = NoAsk /\ sold[p] >= pos[p].qty
      /\ order[p].st \in {"PARTIALLY_FILLED", "FILLED", "POSITION_UNPROTECTED", "CANCELLED"}
      /\ pos' = [pos EXCEPT ![p].st = "CLOSED"] /\ order' = [order EXCEPT ![p].st = "CLOSED"]
      /\ UNCHANGED <<trade, ex, sl, placed, wk, faults, rules, ask, sold>>
  BY DEF CloseTrade, Free, At
<1>2. PICK pnl \in {-1, 1}, known \in BOOLEAN :
          trades' = Append(trades, [pnl |-> pnl, known |-> known])
  BY DEF CloseTrade
<1>3. IInv' /\ SoloInv'
  BY <1>1, CloseTradeEntry DEF AllInv
<1>4. GateType
  BY DEF AllInv, GateInv
<1>5. GateType'
  <2>1. PICK S, t : S = [pnl : Int, known : BOOLEAN] /\ t = [pnl |-> pnl, known |-> known]
    OBVIOUS
  <2>2. t \in S
    BY <2>1
  <2>3. trades \in Seq(S)
    BY <1>4, <2>1 DEF GateType
  <2>4. Append(trades, t) \in Seq(S)
    BY <2>2, <2>3
  <2>5. trades' \in Seq([pnl : Int, known : BOOLEAN])
    BY <1>2, <2>1, <2>4
  <2> QED
    BY <1>1, <1>4, <2>5 DEF GateType
<1>6. /\ order'[p].st = "CLOSED" /\ order'[p].filled = order[p].filled
      /\ \A q \in Plans \ {p} : order'[q] = order[q]
  BY <1>1, StateSet DEF AllInv, IInv
<1>7. pos'[p].st = "CLOSED" /\ \A q \in Plans \ {p} : pos'[q] = pos[q]
  <2>1. pos \in [Plans -> PositionRow] /\ pos[p] \in PositionRow
    BY DEF AllInv, IInv, SharedType
  <2> QED
    BY <1>1, <2>1 DEF PositionRow
<1>8. /\ ex[p].filled \in 0..Q /\ order[p].filled \in 0..Q /\ sold[p] \in 0..Q /\ Q \in Nat
      /\ order[p].filled <= ex[p].filled /\ pos[p].qty \in 0..Q
  <2>1. pos[p] \in PositionRow
    BY DEF AllInv, IInv, SharedType
  <2> QED
    BY <1>4, <2>1, PlanFacts DEF AllInv, PositionRow
<1>9. \A q \in Plans : Limit(q)' <= Limit(q)
  <2> SUFFICES ASSUME NEW q \in Plans PROVE Limit(q)' <= Limit(q)
    OBVIOUS
  <2>1. CASE q = p
    <3>1. Limit(p)' = order[p].filled
      BY <1>6 DEF Limit
    <3>2. Limit(p) = Q \/ Limit(p) = ex[p].filled
      BY <1>1 DEF Limit
    <3> QED
      BY <1>8, <2>1, <3>1, <3>2
  <2>2. CASE q # p
    <3>1. Limit(q)' = Limit(q) /\ Limit(q) \in 0..Q
      BY <1>1, <1>6, <2>2, LimitType DEF Limit, Pending, MayBuy, AllInv
    <3> QED
      BY <3>1, QAssumption
  <2> QED
    BY <2>1, <2>2
<1>10. Claimed' \subseteq Claimed
  <2> SUFFICES ASSUME NEW l \in Lots, sold'[l[1]] < l[2], l[2] <= Limit(l[1])'
               PROVE  sold[l[1]] < l[2] /\ l[2] <= Limit(l[1])
    BY DEF Claimed, Lots
  <2>1. l[1] \in Plans /\ l[2] \in 1..Q
    BY DEF Lots
  <2>2. Limit(l[1]) \in 0..Q
    BY <2>1, LimitType DEF AllInv
  <2>3. Limit(l[1])' \in 0..Q
    <3>1. order'[l[1]].filled \in 0..Q /\ ex'[l[1]].filled \in 0..Q
      BY <1>3, <2>1 DEF IInv, SharedType
    <3> QED
      BY <1>8, <3>1 DEF Limit
  <2> QED
    BY <1>1, <1>8, <1>9, <2>1, <2>2, <2>3
<1>11. Occupied' \subseteq Occupied
  BY <1>1, <1>6 DEF Occupied, Pending, MayBuy
<1>12. rules.exposure \in Nat /\ rules.open \in Nat
  BY <1>4, RuleSetsAssumption DEF GateType
<1>13. Cardinality(Claimed') <= rules'.exposure
  <2>1. Claimed \in SUBSET Lots /\ Claimed' \in SUBSET Lots
    BY <1>10 DEF Claimed
  <2>2. /\ Cardinality(Claimed') <= Cardinality(Claimed)
        /\ Cardinality(Claimed') \in Nat /\ Cardinality(Claimed) \in Nat
    BY <1>10, <2>1, CountLots
  <2> QED
    BY <1>1, <1>12, <2>2 DEF AllInv, GateInv
<1>14. faults' = 0 => Cardinality(Occupied') <= rules'.open
  <2>1. Occupied \in SUBSET Plans /\ Occupied' \in SUBSET Plans
    BY <1>11 DEF Occupied
  <2>2. /\ Cardinality(Occupied') <= Cardinality(Occupied)
        /\ Cardinality(Occupied') \in Nat /\ Cardinality(Occupied) \in Nat
    BY <1>11, <2>1, CountPlans
  <2> QED
    BY <1>1, <1>12, <2>2 DEF AllInv, GateInv
<1>15. ASSUME NEW q \in Plans PROVE AccountOK(q)'
  <2>1. AccountOK(q)
    BY DEF AllInv, GateInv
  <2>2. CASE q = p
    <3>1. faults = 0 => order[p].filled <= sold[p]
      <4>1. faults = 0 => Managed(p)
        BY <1>1 DEF AllInv, SoloInv, FollowInv, ManagedOK, Busy, OneProcess
      <4> QED
        BY <1>1, <1>8, <4>1 DEF Managed
    <3> QED
      BY <1>1, <1>6, <1>7, <2>1, <2>2, <3>1 DEF AccountOK
  <2>3. CASE q # p
    BY <1>1, <1>6, <1>7, <2>1, <2>3 DEF AccountOK
  <2> QED
    BY <2>2, <2>3
<1>16. \A v \in Workers : AskOK(v)'
  BY <1>1 DEF OneProcess, AskOK
<1> QED
  BY <1>3, <1>5, <1>13, <1>14, <1>15, <1>16 DEF AllInv, GateInv

(***************************************************************************)
(* The theorems.                                                           *)
(***************************************************************************)
\* Before anything is admitted nothing is claimed.
LEMMA AdmissionInitInv == AdmissionInit => AllInv
<1> SUFFICES ASSUME AdmissionInit PROVE AllInv
  OBVIOUS
<1>1. IInv /\ SoloInv
  BY InitIInv, InitSolo DEF AdmissionInit
<1>2. GateType
  <2>1. NoAsk \in [p : Plans \cup {NoPlan}, wallet : Nat]
    BY DEF NoAsk
  <2> QED
    BY <2>1, QAssumption, EarlierAssumption DEF AdmissionInit, GateType
<1>3. ASSUME NEW p \in Plans
      PROVE  /\ AccountOK(p) /\ Limit(p) = 0 /\ ~Pending(p) /\ ~(ex[p].filled > sold[p])
  BY DEF AdmissionInit, Init, AccountOK, Limit, Pending, MayBuy
<1>4. \A w \in Workers : AskOK(w)
  BY DEF AdmissionInit, AskOK
<1>5. Claimed = {}
  <2> SUFFICES ASSUME NEW l \in Lots, l[2] <= Limit(l[1]) PROVE FALSE
    BY DEF Claimed
  <2>1. l[1] \in Plans /\ l[2] \in 1..Q /\ Q \in Nat
    BY QAssumption DEF Lots
  <2> QED
    BY <1>3, <2>1
<1>6. Occupied = {}
  BY <1>3 DEF Occupied
<1>7. rules.exposure \in Nat /\ rules.open \in Nat
  BY <1>2, RuleSetsAssumption DEF GateType
<1>8. Cardinality(Claimed) <= rules.exposure /\ Cardinality(Occupied) <= rules.open
  BY <1>5, <1>6, <1>7, FS_EmptySet
<1> QED
  BY <1>1, <1>2, <1>3, <1>4, <1>8 DEF AllInv, GateInv

\* Every step keeps the invariant.
LEMMA AdmissionNextInv ==
    ASSUME OneProcess, AllInv, [AdmissionNext]_admissionVars
    PROVE  AllInv'
<1>1. CASE EntrySide
  BY <1>1, EntrySideStep
<1>2. ASSUME NEW w \in Workers, ApprovalReturns(w) \/ RefusePlan(w) \/ AdmitPlan(w)
      PROVE  AllInv'
  BY <1>2, ApprovalReturnsStep, RefusePlanStep, AdmitPlanStep
<1>3. ASSUME NEW w \in Workers, NEW p \in Plans, BeginApproval(w, p) \/ CloseTrade(w, p)
      PROVE  AllInv'
  BY <1>3, BeginApprovalStep, CloseTradeStep
<1>4. CASE NewDay \/ \E p \in Plans : ExSell(p)
  BY <1>4, SellOrNewDayStep
<1>5. CASE UNCHANGED admissionVars
  <2>1. UNCHANGED vars /\ UNCHANGED <<rules, ask, sold, trades>>
    BY <1>5 DEF admissionVars, vars
  <2>2. /\ IInv' /\ SoloInv' /\ faults' = faults /\ Reserved' = Reserved /\ wk' = wk
        /\ \A q \in Plans : RowStep(q) /\ ExStep(q) /\ PosStep(q) /\ ex'[q] = ex[q]
    BY <2>1, EntryRests DEF vars
  <2>3. GateType /\ GateType'
    BY <2>1 DEF AllInv, GateInv, GateType
  <2>4. \A q \in Plans : sold[q] <= sold'[q] /\ sold'[q] <= ex'[q].filled
    BY <2>1, <2>2, <2>3, PlanFacts DEF AllInv, GateInv, AccountOK
  <2>5. /\ \A q \in Plans : AccountOK(q)'
        /\ Claimed' \subseteq Claimed
        /\ Cardinality(Claimed') <= rules'.exposure
        /\ faults' = 0 => Cardinality(Occupied') <= rules'.open
    BY <2>1, <2>2, <2>3, <2>4, GateKept DEF AllInv
  <2>6. \A v \in Workers : AskOK(v)'
    BY <2>1, <2>2, <2>5, AskKept DEF AllInv, GateInv
  <2> QED
    BY <2>2, <2>3, <2>5, <2>6 DEF AllInv, GateInv
<1> QED
  BY <1>1, <1>2, <1>3, <1>4, <1>5 DEF AdmissionNext

\* The entry side's invariants survive the gate and close_trade, and the lots
\* and slots claimed stay within the limits.
THEOREM AdmissionInvariance == ASSUME OneProcess PROVE AdmissionSpec => []AllInv
<1>1. AllInv /\ [AdmissionNext]_admissionVars => AllInv'
  BY AdmissionNextInv
<1> QED
  BY <1>1, AdmissionInitInv, PTL DEF AdmissionSpec

\* ExposureBounded: whatever the gate's wallet and rows missed, what the account
\* holds and what working entries can still buy stay within the exposure limit.
THEOREM ExposureWithinLimit == ASSUME OneProcess PROVE AdmissionSpec => []ExposureBounded
<1>1. AllInv => ExposureBounded
  <2> SUFFICES ASSUME AllInv, \A p \in Plans : ~Orphan(p)
               PROVE  Wallet + Cardinality({l \in Lots : MayBuy(l[1]) /\ ex[l[1]].filled < l[2]})
                         <= rules.exposure
    BY DEF ExposureBounded
  <2>1. PICK B \in SUBSET Lots : B = {l \in Lots : MayBuy(l[1]) /\ ex[l[1]].filled < l[2]}
    OBVIOUS
  <2>2. Held \in SUBSET Lots /\ Claimed \in SUBSET Lots /\ Held \cup B \in SUBSET Lots
    BY DEF Held, Claimed
  <2>3. ASSUME NEW l \in Lots
        PROVE  /\ l[1] \in Plans /\ l[2] \in 1..Q /\ Q \in Nat
               /\ ex[l[1]].filled \in 0..Q /\ order[l[1]].filled \in 0..Q /\ sold[l[1]] \in 0..Q
               /\ sold[l[1]] <= ex[l[1]].filled /\ ~Orphan(l[1])
    BY PlanFacts DEF Lots, AllInv, GateInv, AccountOK
  <2>4. Held \cap B = {}
    <3>1. ASSUME NEW l \in Lots, l[2] <= ex[l[1]].filled, ex[l[1]].filled < l[2] PROVE FALSE
      BY <2>3, <3>1
    <3> QED
      BY <2>1, <3>1 DEF Held
  <2>5. Held \subseteq Claimed
    <3> SUFFICES ASSUME NEW l \in Lots, sold[l[1]] < l[2], l[2] <= ex[l[1]].filled
                 PROVE  l[2] <= Limit(l[1])
      BY DEF Held, Claimed
    <3>1. CASE order[l[1]].st = "CLOSED"
      <4>1. ~(ex[l[1]].filled > order[l[1]].filled)
        BY <2>3, <3>1 DEF Orphan
      <4> QED
        BY <2>3, <3>1, <4>1 DEF Limit
    <3>2. CASE order[l[1]].st # "CLOSED"
      BY <2>3, <3>2 DEF Limit
    <3> QED
      BY <3>1, <3>2
  <2>6. B \subseteq Claimed
    <3> SUFFICES ASSUME NEW l \in Lots, MayBuy(l[1]), ex[l[1]].filled < l[2]
                 PROVE  sold[l[1]] < l[2] /\ l[2] <= Limit(l[1])
      BY <2>1 DEF Claimed
    <3>1. order[l[1]].st # "CLOSED" /\ Pending(l[1])
      BY <2>3 DEF Orphan, Pending
    <3> QED
      BY <2>3, <3>1 DEF Limit
  <2>7. Cardinality(Held \cup B) = Cardinality(Held) + Cardinality(B)
    BY <2>1, <2>2, <2>4, CountTogether
  <2>8. Cardinality(Held \cup B) <= Cardinality(Claimed)
    BY <2>2, <2>5, <2>6, CountLots
  <2>9. /\ Cardinality(Held \cup B) \in Nat /\ Cardinality(Claimed) \in Nat
        /\ Cardinality(Held) \in Nat /\ Cardinality(B) \in Nat
    BY <2>2, CountLots
  <2>10. rules.exposure \in Nat /\ Cardinality(Claimed) <= rules.exposure
    BY RuleSetsAssumption DEF AllInv, GateInv, GateType
  <2>11. Cardinality(Held) + Cardinality(B) <= rules.exposure
    BY <2>7, <2>8, <2>9, <2>10
  <2> QED
    BY <2>1, <2>11 DEF Wallet
<1> QED
  BY <1>1, AdmissionInvariance, PTL

\* SlotsBounded: as long as nothing failed, no more plans than
\* max_open_positions hold inventory or may still acquire it.
THEOREM SlotsWithinLimit == ASSUME OneProcess PROVE AdmissionSpec => []SlotsBounded
<1>1. AllInv => SlotsBounded
  <2> SUFFICES ASSUME AllInv, faults = 0, \A p \in Plans : ~Orphan(p)
               PROVE  Cardinality({p \in Plans : MayBuy(p) \/ ex[p].filled > sold[p]}) <= rules.open
    BY DEF SlotsBounded
  <2>1. PICK S \in SUBSET Plans : S = {p \in Plans : MayBuy(p) \/ ex[p].filled > sold[p]}
    OBVIOUS
  <2>2. S \subseteq Occupied
    <3> SUFFICES ASSUME NEW p \in Plans, MayBuy(p) \/ ex[p].filled > sold[p]
                 PROVE  order[p].st # "CLOSED" /\ (Pending(p) \/ ex[p].filled > sold[p])
      BY <2>1 DEF Occupied
    <3>1. /\ ex[p].filled \in 0..Q /\ order[p].filled \in 0..Q /\ sold[p] \in 0..Q /\ Q \in Nat
      BY PlanFacts DEF AllInv, GateInv
    <3>2. order[p].st = "CLOSED" => order[p].filled <= sold[p]
      BY DEF AllInv, GateInv, AccountOK
    <3>3. order[p].st # "CLOSED"
      BY <3>1, <3>2 DEF Orphan
    <3> QED
      BY <3>3 DEF Pending
  <2>3. Occupied \in SUBSET Plans
    BY DEF Occupied
  <2>4. /\ Cardinality(S) <= Cardinality(Occupied)
        /\ Cardinality(S) \in Nat /\ Cardinality(Occupied) \in Nat
    BY <2>2, <2>3, CountPlans
  <2>5. rules.open \in Nat /\ Cardinality(Occupied) <= rules.open
    BY RuleSetsAssumption DEF AllInv, GateInv, GateType
  <2>6. Cardinality(S) <= rules.open
    BY <2>4, <2>5
  <2> QED
    BY <2>1, <2>6
<1> QED
  BY <1>1, AdmissionInvariance, PTL

(***************************************************************************)
(* Losses.  This part needs no assumption on the processes.                *)
(***************************************************************************)
\* The configuration and the day's trades, which every step leaves well-formed.
DayOK == rules \in RuleSets /\ trades \in Seq([pnl : Int, known : BOOLEAN])

\* Steps keep DayOK: only close_trade and midnight touch the day's trades.
LEMMA NextDay == DayOK /\ [AdmissionNext]_admissionVars => DayOK'
<1> SUFFICES ASSUME DayOK, [AdmissionNext]_admissionVars PROVE DayOK'
  OBVIOUS
<1>1. rules' = rules /\ trades' = trades => DayOK'
  BY DEF DayOK
<1>2. CASE admissionVars' = admissionVars
  BY <1>1, <1>2 DEF admissionVars
<1>3. CASE EntrySide
  BY <1>1, <1>3 DEF EntrySide, gate
<1>4. ASSUME NEW w \in Workers, ApprovalReturns(w) \/ RefusePlan(w) \/ AdmitPlan(w) PROVE DayOK'
  BY <1>1, <1>4 DEF ApprovalReturns, RefusePlan, AdmitPlan
<1>5. ASSUME NEW w \in Workers, NEW p \in Plans, BeginApproval(w, p) PROVE DayOK'
  BY <1>1, <1>5 DEF BeginApproval
<1>6. ASSUME NEW w \in Workers, NEW p \in Plans, CloseTrade(w, p) PROVE DayOK'
  <2>1. PICK pnl \in {-1, 1}, known \in BOOLEAN :
           trades' = Append(trades, [pnl |-> pnl, known |-> known])
    BY <1>6 DEF CloseTrade
  <2>2. [pnl |-> pnl, known |-> known] \in [pnl : Int, known : BOOLEAN]
    OBVIOUS
  <2>3. trades' \in Seq([pnl : Int, known : BOOLEAN])
    BY <2>1, <2>2 DEF DayOK
  <2> QED
    BY <1>6, <2>3 DEF CloseTrade, DayOK
<1>7. ASSUME NEW p \in Plans, ExSell(p) PROVE DayOK'
  BY <1>1, <1>7 DEF ExSell
<1>8. CASE NewDay
  BY <1>8 DEF NewDay, DayOK
<1> QED
  BY <1>2, <1>3, <1>4, <1>5, <1>6, <1>7, <1>8 DEF AdmissionNext

\* daily_state counts every loss of a run of losses that ends the day.
LEMMA StreakCounts ==
    ASSUME DayOK, NEW n \in 1..Len(trades),
           \A i \in (Len(trades) - n + 1)..Len(trades) : trades[i].pnl < 0
    PROVE  LosingStreak(1..Len(trades)) >= n
<1>1. Len(trades) \in Nat
  BY DEF DayOK
<1>2. PICK S \in SUBSET (1..Len(trades)) :
         S = {i \in 1..Len(trades) : \A j \in 1..Len(trades) : j >= i => trades[j].pnl < 0}
  OBVIOUS
<1>3. (Len(trades) - n + 1)..Len(trades) \subseteq S
  BY <1>1, <1>2
<1>4. IsFiniteSet(S)
  <2>1. IsFiniteSet(1..Len(trades))
    BY <1>1, FS_Interval
  <2> QED
    BY <2>1, FS_Subset
<1>5. Cardinality((Len(trades) - n + 1)..Len(trades)) = n
  <2>1. Len(trades) - n + 1 \in Int /\ Len(trades) \in Int /\ Len(trades) - n + 1 <= Len(trades)
    BY <1>1
  <2>2. Cardinality((Len(trades) - n + 1)..Len(trades)) = Len(trades) - (Len(trades) - n + 1) + 1
    BY <2>1, FS_Interval
  <2> QED
    BY <1>1, <2>2
<1>6. n <= Cardinality(S) /\ Cardinality(S) \in Nat
  BY <1>3, <1>4, <1>5, FS_Subset, FS_CardinalityType
<1> QED
  BY <1>2, <1>6 DEF LosingStreak

\* LossesStopEntries: no entry is admitted on a day whose closed trades, all of
\* them with known fees, reached the daily loss or the losing streak.
THEOREM NoEntryAfterLosses == AdmissionSpec => LossesStopEntries
<1> DEFINE Holds(w) ==
         AdmitPlan(w) /\ (\A i \in 1..Len(trades) : trades[i].known) =>
              /\ ~ \E n \in 1..Len(trades) :
                      n >= rules.streak /\ \A i \in (Len(trades) - n + 1)..Len(trades) :
                                              trades[i].pnl < 0
              /\ ~(Realized(1..Len(trades)) <= -rules.loss)
<1>1. AdmissionInit => DayOK
  BY EarlierAssumption DEF AdmissionInit, DayOK
<1>2. DayOK => \A w \in Workers : Holds(w)
  <2> SUFFICES ASSUME DayOK, NEW w \in Workers, AdmitPlan(w),
                      \A i \in 1..Len(trades) : trades[i].known
               PROVE  /\ ~ \E n \in 1..Len(trades) :
                              n >= rules.streak /\ \A i \in (Len(trades) - n + 1)..Len(trades) :
                                                      trades[i].pnl < 0
                      /\ ~(Realized(1..Len(trades)) <= -rules.loss)
    OBVIOUS
  <2>1. Counted = 1..Len(trades)
    BY DEF Counted
  <2>2. ~LimitsReached(1..Len(trades))
    BY <2>1 DEF AdmitPlan, Passes
  <2>3. ASSUME NEW n \in 1..Len(trades), n >= rules.streak,
               \A i \in (Len(trades) - n + 1)..Len(trades) : trades[i].pnl < 0
        PROVE  FALSE
    <3>1. LosingStreak(1..Len(trades)) >= n
      BY <2>3, StreakCounts
    <3>2. LosingStreak(1..Len(trades)) \in Nat
      <4>1. Len(trades) \in Nat
        BY DEF DayOK
      <4>2. IsFiniteSet(1..Len(trades))
        BY <4>1, FS_Interval
      <4>3. \A T \in SUBSET (1..Len(trades)) : Cardinality(T) \in Nat
        BY <4>2, FS_Subset, FS_CardinalityType
      <4> QED
        BY <4>3 DEF LosingStreak
    <3>3. rules.streak \in Nat /\ n \in Nat
      BY RuleSetsAssumption DEF DayOK
    <3>4. LosingStreak(1..Len(trades)) >= rules.streak
      BY <2>3, <3>1, <3>2, <3>3
    <3> QED
      BY <2>2, <3>4 DEF LimitsReached
  <2>4. ~(Realized(1..Len(trades)) <= -rules.loss)
    BY <2>2 DEF LimitsReached
  <2> QED
    BY <2>3, <2>4
<1>3. AdmissionSpec => []DayOK
  BY <1>1, NextDay, PTL DEF AdmissionSpec
<1>4. DayOK => [\A w \in Workers : Holds(w)]_admissionVars
  BY <1>2
<1> QED
  BY <1>3, <1>4, PTL DEF LossesStopEntries
=============================================================================
