----------------------- MODULE EntryLifecycleProofs -----------------------
(***************************************************************************)
(* Proofs about EntryLifecycle, for any set of plans, any order size and   *)
(* any number of lookups and faults.  The first part holds for any number  *)
(* of processes.  The second is about one process on the database, as the  *)
(* server alone is: no observation of the exchange is refused, fills are   *)
(* managed, cancels are remembered, and the entry side implements          *)
(* Settlement.  Both invariants allow rows that an exit has CLOSED, which  *)
(* no step of EntryLifecycle does: Admission adds that step.               *)
(***************************************************************************)
EXTENDS EntrySettlement, TLAPS

\* States of a worker in which it holds no exchange row.
Rowless == {"idle", "recoverLoop", "cancelLoop", "approved", "send", "rejected",
            "unknown", "acked", "lookup", "cancel", "cancelAcked"}

\* The exchange's own book-keeping: nothing is filled before it was sent, and
\* an order is filled exactly when its whole size is.
ExchangeOK(p) ==
    /\ placed[p] = 0 => ex[p].st = "none"
    /\ ex[p].st \in {"none", "transit", "rejected"} => ex[p].filled = 0
    /\ ex[p].st \in {"live", "canceled"} => ex[p].filled < Q
    /\ ex[p].st = "filled" => ex[p].filled = Q

\* An order row: sent at most once, not at all before it is SUBMITTED, and a
\* terminal state is the exchange's.
OrderOK(p) ==
    /\ placed[p] <= 1
    /\ order[p].st \in {"PLANNED", "APPROVED"} => placed[p] = 0
    /\ order[p].st = "CANCELLED" => ex[p].st = "canceled" /\ order[p].filled = ex[p].filled
    /\ order[p].st \in {"FILLED", "POSITION_UNPROTECTED"} => ex[p].st = "filled" /\ order[p].filled = Q
    /\ pos[p].qty <= ex[p].filled
    /\ trade[p] <= ex[p].filled

\* The row a worker holds is an earlier state of the exchange's order; a
\* terminal one is its present state.
RowOK(r) ==
    /\ r.row.filled <= ex[r.p].filled
    /\ r.row.st = "canceled" => ex[r.p].st = "canceled" /\ r.row.filled = ex[r.p].filled
    /\ r.row.st = "filled" => ex[r.p].st = "filled" /\ r.row.filled = Q
    /\ r.row.st \in {"none", "live"} => r.row.filled < Q
    /\ r.row.st = "other" /\ r.row.filled = Q => ex[r.p].st = "filled"

\* Who is about to send has not sent yet; who has applied a terminal row has
\* left the order in that terminal state.
WorkerOK(r) ==
    /\ r.pc \in Rowless => r.row = NoRow
    /\ r.p \in Plans => RowOK(r)
    /\ r.pc \in {"protect", "verify", "upsert", "record"} =>
          /\ HasManagedFill(r)
          /\ RemoteState(r) = "CANCELLED" => order[r.p].st = "CANCELLED"
          /\ RemoteState(r) = "FILLED" => order[r.p].st \in {"FILLED", "POSITION_UNPROTECTED"}
    /\ r.pc \in {"approved", "send"} =>
          placed[r.p] = 0 /\ order[r.p].st # "PLANNED"
    /\ r.pc = "send" => order[r.p].st # "APPROVED"

\* Two processes are never about to send the same plan.
OneSender ==
    \A v, w \in Workers :
        /\ v # w
        /\ wk[v].pc \in {"approved", "send"} /\ wk[w].pc \in {"approved", "send"}
        => wk[v].p # wk[w].p

\* States of a worker that is between plans, and of one about to send.
Loops == {"idle", "recoverLoop", "cancelLoop"}
Sending == {"approved", "send"}

\* The type invariant, in two parts.
SharedType ==
    /\ order \in [Plans -> [st : OrderState, id : BOOLEAN, filled : 0..Q]]
    /\ pos \in [Plans -> PositionRow]
    /\ trade \in [Plans -> 0..Q]
    /\ ex \in [Plans -> [st : ExState, filled : 0..Q, creq : BOOLEAN]]
    /\ sl \in [Plans -> BOOLEAN]
    /\ placed \in [Plans -> Nat]
    /\ faults \in 0..MaxFaults

\* Types of the workers.
WorkersType ==
    /\ wk \in [Workers -> WorkerState]
    /\ \A w \in Workers : wk[w].pc \notin Loops => wk[w].p \in Plans

\* The rest of the invariant, by part.
SharedOK == \A p \in Plans : ExchangeOK(p) /\ OrderOK(p)
WorkersOK == (\A w \in Workers : WorkerOK(wk[w])) /\ OneSender

\* The inductive invariant.
IInv == SharedType /\ WorkersType /\ SharedOK /\ WorkersOK

(***************************************************************************)
(* What a step may do to the order table and to the exchange's orders.     *)
(***************************************************************************)
OrderKept(p) ==
    /\ order[p].st # "PLANNED" => order'[p].st # "PLANNED"
    /\ order[p].st \notin {"PLANNED", "APPROVED"} => order'[p].st # "APPROVED"
    /\ order[p].st = "CANCELLED" => order'[p].st = "CANCELLED"
    /\ order[p].st \in {"FILLED", "POSITION_UNPROTECTED"} =>
          order'[p].st \in {"FILLED", "POSITION_UNPROTECTED"}

\* An exchange order only grows, and stays as it ended.
ExKept(p) ==
    /\ ex[p].filled <= ex'[p].filled
    /\ ex[p].st \in {"canceled", "filled"} => ex'[p] = ex[p]

(***************************************************************************)
(* Lemmas on the constant-level operators.                                 *)
(***************************************************************************)
\* ALLOWED_TRANSITIONS never leads back to an unsubmitted order, and never out
\* of CANCELLED, nor out of a completed order except to CLOSED.
LEMMA TransitionFacts ==
    ASSUME NEW s \in OrderState, NEW t \in ALLOWED_TRANSITIONS[s]
    PROVE  /\ t \in OrderState \ {"PLANNED", "APPROVED"}
           /\ s = "CANCELLED" => t = "CANCELLED"
           /\ s \in {"FILLED", "POSITION_UNPROTECTED"} =>
                 t \in {"FILLED", "POSITION_UNPROTECTED", "CLOSED"}
           /\ s # "PLANNED"
  BY DEF OrderState, ALLOWED_TRANSITIONS

\* _map_state returns one of the six states that stand for a row.
LEMMA RemoteStateFacts ==
    ASSUME NEW r, r.row \in Row
    PROVE  /\ RemoteState(r) \in {"CANCELLED", "REJECTED", "FILLED", "PARTIALLY_FILLED", "OPEN",
                                   "SUBMITTED"}
           /\ RemoteState(r) = "CANCELLED" <=> r.row.st = "canceled"
           /\ RemoteState(r) = "FILLED" =>
                 r.row.st \in {"filled", "live", "none", "other"} /\ (r.row.st = "filled" \/ r.row.filled = Q)
  BY QAssumption DEF RemoteState, MapState, Row

\* The records a worker is given outside reconcile_plan are well typed.
LEMMA IdleType == Idle \in WorkerState /\ Idle.pc = "idle" /\ Idle.row = NoRow /\ Idle.p = NoPlan
  BY QAssumption, LookupsAssumption
  DEF Idle, WorkerState, PCs, Lanes, Row, NoRow, NoSnap

\* Between two iterations a worker holds neither plan nor row.
LEMMA LoopType ==
    ASSUME NEW r \in WorkerState, NEW pc \in {"recoverLoop", "cancelLoop"}
    PROVE  /\ Loop(r, pc) \in WorkerState
           /\ Loop(r, pc).pc = pc /\ Loop(r, pc).row = NoRow /\ Loop(r, pc).p = NoPlan
  BY IdleType DEF Loop, Idle, WorkerState, PCs

\* Starting a fast lane keeps the plan and the row.
LEMMA StartLaneType ==
    ASSUME NEW r \in WorkerState, NEW lane \in Lanes
    PROVE  /\ StartLane(r, lane) \in WorkerState
           /\ StartLane(r, lane).pc = "lookup"
           /\ StartLane(r, lane).row = r.row /\ StartLane(r, lane).p = r.p
  <1>1. Lookups \in 0..Lookups /\ "lookup" \in PCs
    BY LookupsAssumption DEF PCs
  <1>2. StartLane(r, lane) \in WorkerState
    BY <1>1, Zenon DEF StartLane, WorkerState
  <1>3. QED
    BY <1>2 DEF StartLane, WorkerState

\* Where a reconcile can leave a worker.
Continues(r, x) ==
    /\ x \in WorkerState
    /\ \/ x.pc \in Loops /\ x.row = NoRow /\ x.p = NoPlan
       \/ x.pc \in {"lookup", "cancel"} /\ x.row = NoRow /\ x.p = r.p
       \/ x.pc \in {"exhausted", "restore"} /\ x.row = r.row /\ x.p = r.p

\* The next lookup of a lane, or what follows the last one.
LEMMA AgainType ==
    ASSUME NEW r \in WorkerState, NEW x, Continues(r, x)
    PROVE  Continues(r, AgainOr(r, x))
  <1>1. CASE r.n > 1
    <2> DEFINE y == [r EXCEPT !.pc = "lookup", !.n = r.n - 1, !.row = NoRow,
                              !.was = FALSE, !.prot = FALSE]
    <2>1. r.n - 1 \in 0..Lookups /\ "lookup" \in PCs /\ NoRow \in Row
      BY <1>1, LookupsAssumption, QAssumption DEF WorkerState, PCs, NoRow, Row
    <2>2. y \in WorkerState
      BY <2>1, Zenon DEF WorkerState
    <2>3. y.pc = "lookup" /\ y.row = NoRow /\ y.p = r.p
      BY DEF WorkerState
    <2>4. AgainOr(r, x) = y
      BY <1>1 DEF AgainOr
    <2>5. QED
      BY <2>2, <2>3, <2>4 DEF Continues
  <1>2. CASE ~(r.n > 1)
    BY <1>2 DEF AgainOr
  <1>3. QED
    BY <1>1, <1>2

\* The end of reconcile_plan as seen by its callers.
LEMMA AfterReconcileType ==
    ASSUME NEW r \in WorkerState, NEW st, NEW mng
    PROVE  Continues(r, AfterReconcile(r, st, mng))
  <1>1. Continues(r, Idle)
    BY IdleType DEF Continues, Loops
  <1>2. Continues(r, Loop(r, "cancelLoop")) /\ Continues(r, Loop(r, "recoverLoop"))
    BY LoopType DEF Continues, Loops
  <1>3. Continues(r, [r EXCEPT !.pc = "exhausted"])
    <2>1. "exhausted" \in PCs
      BY DEF PCs
    <2>2. [r EXCEPT !.pc = "exhausted"] \in WorkerState
      BY <2>1, Zenon DEF WorkerState
    <2>3. QED
      BY <2>2 DEF Continues, WorkerState
  <1>4. Continues(r, [r EXCEPT !.pc = "cancel", !.lane = "none", !.row = NoRow,
                               !.was = FALSE, !.prot = FALSE])
    <2>1. "cancel" \in PCs /\ "none" \in Lanes /\ NoRow \in Row
      BY QAssumption DEF PCs, Lanes, NoRow, Row
    <2>2. [r EXCEPT !.pc = "cancel", !.lane = "none", !.row = NoRow,
                    !.was = FALSE, !.prot = FALSE] \in WorkerState
      BY <2>1, Zenon DEF WorkerState
    <2>3. QED
      BY <2>2 DEF Continues, WorkerState
  <1>5. Continues(r, AgainOr(r, Idle))
    BY <1>1, AgainType
  <1>6. Continues(r, AgainOr(r, IF st \in Settled \cup {"POSITION_UNPROTECTED"}
                                THEN Loop(r, "cancelLoop")
                                ELSE [r EXCEPT !.pc = "exhausted"]))
    BY <1>2, <1>3, AgainType
  <1>7. QED
    BY <1>1, <1>2, <1>4, <1>5, <1>6, Zenon DEF AfterReconcile

\* A reconcile that raised leaves the worker as one that ended.
LEMMA RaisedType ==
    ASSUME NEW r \in WorkerState
    PROVE  Continues(r, Raised(r))
  <1>1. Continues(r, Idle)
    BY IdleType DEF Continues, Loops
  <1>2. QED
    BY <1>1, AfterReconcileType, Zenon DEF Raised

\* The end of reconcile_plan, with or without the restore of a cancel request.
LEMMA EndOfReconcileType ==
    ASSUME NEW r \in WorkerState
    PROVE  Continues(r, EndOfReconcile(r))
  <1>1. Continues(r, [r EXCEPT !.pc = "restore"])
    <2>1. "restore" \in PCs
      BY DEF PCs
    <2>2. [r EXCEPT !.pc = "restore"] \in WorkerState
      BY <2>1, Zenon DEF WorkerState
    <2>3. QED
      BY <2>2 DEF Continues, WorkerState
  <1>2. Continues(r, AfterReconcile(r, LifecycleState(r), ReportedManagedState(r)))
    BY AfterReconcileType
  <1>3. QED
    BY <1>1, <1>2, Zenon DEF EndOfReconcile

(***************************************************************************)
(* What a step leaves of the facts about the workers.                      *)
(***************************************************************************)
\* A row stays an earlier state of the order.
LEMMA RowKept ==
    ASSUME SharedType, SharedType', NEW r \in WorkerState, r.p \in Plans,
           RowOK(r), ExKept(r.p)
    PROVE  RowOK(r)'
  <1>1. /\ ex[r.p] \in [st : ExState, filled : 0..Q, creq : BOOLEAN]
        /\ ex'[r.p] \in [st : ExState, filled : 0..Q, creq : BOOLEAN]
    BY Zenon DEF SharedType
  <1>2. r.row \in Row
    BY DEF WorkerState
  <1>3. QED
    BY <1>1, <1>2, QAssumption DEF RowOK, ExKept, Row

\* A worker that does nothing keeps its facts.
LEMMA FrameWorker ==
    ASSUME SharedType, SharedType', NEW r \in WorkerState,
           r.pc \notin Loops => r.p \in Plans,
           WorkerOK(r),
           \A p \in Plans : OrderKept(p) /\ ExKept(p),
           r.pc \in Sending => placed'[r.p] = placed[r.p]
    PROVE  WorkerOK(r)'
  <1>1. (r.pc \in Rowless => r.row = NoRow)'
    BY DEF WorkerOK
  <1>2. (r.p \in Plans => RowOK(r))'
    BY RowKept DEF WorkerOK
  <1>3. ASSUME r.pc \in {"protect", "verify", "upsert", "record"}
        PROVE  (/\ HasManagedFill(r)
                /\ RemoteState(r) = "CANCELLED" => order[r.p].st = "CANCELLED"
                /\ RemoteState(r) = "FILLED" => order[r.p].st \in {"FILLED", "POSITION_UNPROTECTED"})'
    <2>1. r.p \in Plans
      BY <1>3 DEF Loops
    <2>2. OrderKept(r.p)
      BY <2>1
    <2>3. QED
      BY <1>3, <2>2 DEF WorkerOK, OrderKept
  <1>4. ASSUME r.pc \in Sending
        PROVE  (/\ placed[r.p] = 0 /\ order[r.p].st # "PLANNED"
                /\ r.pc = "send" => order[r.p].st # "APPROVED")'
    <2>1. r.p \in Plans
      BY <1>4 DEF Loops, Sending
    <2>2. OrderKept(r.p)
      BY <2>1
    <2>3. QED
      BY <1>4, <2>2 DEF WorkerOK, OrderKept, Sending
  <1>5. QED
    BY <1>1, <1>2, <1>3, <1>4 DEF WorkerOK, Sending

\* A worker that leaves or repeats a reconcile.
LEMMA ContinuesOK ==
    ASSUME SharedType, SharedType', NEW r \in WorkerState, r.p \in Plans,
           RowOK(r), ExKept(r.p), NEW x, Continues(r, x)
    PROVE  /\ x \in WorkerState
           /\ x.pc \notin Loops => x.p \in Plans
           /\ WorkerOK(x)'
           /\ x.pc \notin Sending
  <1>1. RowOK(r)'
    BY RowKept
  <1>2. ex'[r.p].filled \in Nat
    BY QAssumption DEF SharedType
  <1>3. CASE x.pc \in Loops /\ x.row = NoRow /\ x.p = NoPlan
    BY <1>3, NoPlanAssumption DEF WorkerOK, Loops, Rowless, Continues, Sending
  <1>4. CASE x.pc \in {"lookup", "cancel"} /\ x.row = NoRow /\ x.p = r.p
    BY <1>2, <1>4, QAssumption DEF WorkerOK, RowOK, NoRow, Loops, Rowless, Continues, Sending
  <1>5. CASE x.pc \in {"exhausted", "restore"} /\ x.row = r.row /\ x.p = r.p
    BY <1>1, <1>5 DEF WorkerOK, RowOK, Loops, Rowless, Continues, Sending
  <1>6. QED
    BY <1>3, <1>4, <1>5 DEF Continues

\* One worker takes the record x, the others keep theirs.
LEMMA WorkerMoves ==
    ASSUME IInv, SharedType', NEW w \in Workers, NEW x \in WorkerState,
           x.pc \notin Loops => x.p \in Plans,
           wk' = [wk EXCEPT ![w] = x],
           WorkerOK(x)',
           \A p \in Plans : OrderKept(p) /\ ExKept(p),
           \A v \in Workers \ {w} : wk[v].pc \in Sending => placed'[wk[v].p] = placed[wk[v].p],
           x.pc \in Sending => \/ wk[w].pc \in Sending /\ wk[w].p = x.p
                               \/ order[x.p].st = "PLANNED"
    PROVE  WorkersType' /\ WorkersOK'
  <1>1. SharedType /\ WorkersType /\ WorkersOK
    BY DEF IInv
  <1>2. wk'[w] = x /\ \A v \in Workers \ {w} : wk'[v] = wk[v]
    BY <1>1 DEF WorkersType
  <1>3. WorkersType'
    BY <1>1, <1>2, Zenon DEF WorkersType
  <1>4. ASSUME NEW v \in Workers PROVE WorkerOK(wk[v])'
    <2>1. CASE v = w
      BY <1>2, <2>1 DEF WorkerOK, RowOK
    <2>2. CASE v # w
      <3>1. wk[v] \in WorkerState /\ (wk[v].pc \notin Loops => wk[v].p \in Plans) /\ WorkerOK(wk[v])
        BY <1>1 DEF WorkersType, WorkersOK
      <3>2. wk[v].pc \in Sending => placed'[wk[v].p] = placed[wk[v].p]
        BY <2>2
      <3> DEFINE r == wk[v]
      <3>3. QED
        BY <1>1, <1>2, <2>2, <3>1, <3>2, FrameWorker
    <2>3. QED
      BY <2>1, <2>2
  <1>5. OneSender'
    <2> SUFFICES ASSUME NEW u \in Workers, NEW v \in Workers, u # v,
                        wk'[u].pc \in Sending, wk'[v].pc \in Sending,
                        wk'[u].p = wk'[v].p
                 PROVE  FALSE
      BY DEF OneSender, Sending
    <2>1. \A a, b \in Workers : a # b /\ wk[a].pc \in Sending /\ wk[b].pc \in Sending
                                  => wk[a].p # wk[b].p
      BY <1>1 DEF WorkersOK, OneSender, Sending
    <2>2. \A a \in Workers : wk[a].pc \in Sending => order[wk[a].p].st # "PLANNED"
      BY <1>1 DEF WorkersOK, WorkerOK, Sending
    <2>3. QED
      BY <1>2, <2>1, <2>2
  <1>6. QED
    BY <1>3, <1>4, <1>5 DEF WorkersOK

(***************************************************************************)
(* What a step leaves of the facts about the tables and the exchange.      *)
(***************************************************************************)
\* One order row changes along ALLOWED_TRANSITIONS.
LEMMA OrderMoves ==
    ASSUME SharedType, SharedOK, NEW p \in Plans,
           NEW o \in [st : OrderState, id : BOOLEAN, filled : 0..Q],
           order' = [order EXCEPT ![p] = o],
           o.st \in ALLOWED_TRANSITIONS[order[p].st], o.st # "CLOSED",
           o.st = "CANCELLED" => ex[p].st = "canceled" /\ o.filled = ex[p].filled,
           o.st \in {"FILLED", "POSITION_UNPROTECTED"} => ex[p].st = "filled" /\ o.filled = Q,
           UNCHANGED <<pos, trade, ex, sl, placed, faults>>
    PROVE  /\ SharedType' /\ SharedOK'
           /\ \A q \in Plans : OrderKept(q) /\ ExKept(q)
  <1>1. SharedType'
    BY DEF SharedType
  <1>2. order'[p] = o /\ \A q \in Plans \ {p} : order'[q] = order[q]
    BY DEF SharedType
  <1>3. order[p].st \in OrderState
    BY DEF SharedType
  <1>4. /\ o.st \notin {"PLANNED", "APPROVED"}
        /\ order[p].st = "CANCELLED" => o.st = "CANCELLED"
        /\ order[p].st \in {"FILLED", "POSITION_UNPROTECTED"} =>
              o.st \in {"FILLED", "POSITION_UNPROTECTED"}
    BY <1>3, TransitionFacts
  <1>5. SharedOK'
    BY <1>2, <1>4 DEF SharedOK, ExchangeOK, OrderOK
  <1>6. ASSUME NEW q \in Plans PROVE OrderKept(q) /\ ExKept(q)
    <2>1. ex[q].filled \in Nat
      BY QAssumption DEF SharedType
    <2>2. QED
      BY <1>2, <1>4, <2>1 DEF OrderKept, ExKept
  <1>7. QED
    BY <1>1, <1>5, <1>6

\* Nothing but workers moves.
LEMMA SharedKept ==
    ASSUME SharedType, SharedOK, UNCHANGED <<order, ex, placed>>
    PROVE  \A q \in Plans : OrderKept(q) /\ ExKept(q)
  <1> SUFFICES ASSUME NEW q \in Plans PROVE OrderKept(q) /\ ExKept(q)
    OBVIOUS
  <1>1. ex[q].filled \in Nat
    BY QAssumption DEF SharedType
  <1>2. QED
    BY <1>1 DEF OrderKept, ExKept

\* A step that changes one worker and no table keeps the invariant.
LEMMA OnlyWorkerMoves ==
    ASSUME IInv, UNCHANGED <<order, pos, trade, ex, sl, placed>>, faults' \in 0..MaxFaults,
           NEW w \in Workers, NEW x \in WorkerState,
           x.pc \notin Loops => x.p \in Plans,
           wk' = [wk EXCEPT ![w] = x],
           WorkerOK(x)',
           x.pc \in Sending => wk[w].pc \in Sending /\ wk[w].p = x.p
    PROVE  IInv'
  <1>1. SharedType /\ SharedOK
    BY DEF IInv
  <1>2. SharedType'
    BY <1>1 DEF SharedType
  <1>3. SharedOK'
    BY <1>1 DEF SharedOK, ExchangeOK, OrderOK
  <1>4. \A q \in Plans : OrderKept(q) /\ ExKept(q)
    BY <1>1, SharedKept
  <1>5. WorkersType' /\ WorkersOK'
    BY <1>2, <1>4, WorkerMoves
  <1>6. QED
    BY <1>2, <1>3, <1>5 DEF IInv

\* One order row and one worker, none of whose new records is about to send.
LEMMA OrderAndWorkerMove ==
    ASSUME IInv, NEW w \in Workers, NEW p \in Plans,
           NEW o \in [st : OrderState, id : BOOLEAN, filled : 0..Q],
           order' = [order EXCEPT ![p] = o],
           o.st \in ALLOWED_TRANSITIONS[order[p].st], o.st # "CLOSED",
           o.st = "CANCELLED" => ex[p].st = "canceled" /\ o.filled = ex[p].filled,
           o.st \in {"FILLED", "POSITION_UNPROTECTED"} => ex[p].st = "filled" /\ o.filled = Q,
           UNCHANGED <<pos, trade, ex, sl, placed, faults>>,
           NEW x \in WorkerState, x.pc \notin Loops => x.p \in Plans,
           wk' = [wk EXCEPT ![w] = x],
           WorkerOK(x)',
           x.pc \in Sending => wk[w].pc \in Sending /\ wk[w].p = x.p
    PROVE  IInv'
  <1>1. SharedType /\ SharedOK
    BY DEF IInv
  <1>2. SharedType' /\ SharedOK' /\ \A q \in Plans : OrderKept(q) /\ ExKept(q)
    BY <1>1, OrderMoves
  <1>3. WorkersType' /\ WorkersOK'
    BY <1>2, WorkerMoves
  <1>4. QED
    BY <1>2, <1>3 DEF IInv

\* The exchange moves: tables and workers stay.
LEMMA ExchangeMoves ==
    ASSUME IInv, NEW p \in Plans, UNCHANGED <<order, pos, trade, placed, wk, faults>>,
           NEW e \in [st : ExState, filled : 0..Q, creq : BOOLEAN],
           ex' = [ex EXCEPT ![p] = e], sl' \in [Plans -> BOOLEAN],
           ex[p].filled <= e.filled,
           ex[p].st \in {"canceled", "filled"} => e = ex[p],
           placed[p] = 0 => e.st = "none",
           e.st \in {"none", "transit", "rejected"} => e.filled = 0,
           e.st \in {"live", "canceled"} => e.filled < Q,
           e.st = "filled" => e.filled = Q
    PROVE  IInv'
  <1>1. SharedType /\ SharedOK /\ WorkersType /\ WorkersOK
    BY DEF IInv
  <1>2. SharedType'
    BY <1>1 DEF SharedType
  <1>3. ex'[p] = e /\ \A q \in Plans \ {p} : ex'[q] = ex[q]
    BY <1>1 DEF SharedType
  <1>4. ASSUME NEW q \in Plans PROVE OrderKept(q) /\ ExKept(q)
    <2>1. ex[q].filled \in Nat
      BY <1>1, QAssumption DEF SharedType
    <2>2. QED
      BY <1>3, <2>1 DEF OrderKept, ExKept
  <1>5. ASSUME NEW q \in Plans PROVE (ExchangeOK(q) /\ OrderOK(q))'
    <2>1. /\ ex[q].filled \in Nat /\ ex'[q].filled \in Nat /\ pos[q].qty \in Nat
          /\ trade[q] \in Nat
      BY <1>1, <1>2, QAssumption DEF SharedType, PositionRow
    <2>2. ExchangeOK(q) /\ OrderOK(q)
      BY <1>1 DEF SharedOK
    <2>3. QED
      BY <1>3, <2>1, <2>2 DEF ExchangeOK, OrderOK
  <1>6. ASSUME NEW w \in Workers PROVE WorkerOK(wk[w])'
    <2>1. wk[w] \in WorkerState /\ (wk[w].pc \notin Loops => wk[w].p \in Plans) /\ WorkerOK(wk[w])
      BY <1>1 DEF WorkersType, WorkersOK
    <2>2. QED
      BY <1>1, <1>2, <1>4, <2>1, FrameWorker
  <1>7. WorkersType' /\ OneSender'
    BY <1>1 DEF WorkersType, WorkersOK, OneSender
  <1>8. QED
    BY <1>2, <1>5, <1>6, <1>7 DEF IInv, SharedOK, WorkersOK

\* What is known of a worker that works on a plan.
LEMMA WorkerFacts ==
    ASSUME IInv, NEW w \in Workers, NEW r, r = wk[w], r.pc \notin Loops
    PROVE  /\ r \in WorkerState /\ r.p \in Plans /\ WorkerOK(r) /\ RowOK(r)
           /\ order[r.p] \in [st : OrderState, id : BOOLEAN, filled : 0..Q]
           /\ ex[r.p] \in [st : ExState, filled : 0..Q, creq : BOOLEAN]
           /\ ExchangeOK(r.p) /\ OrderOK(r.p)
  <1>1. r \in WorkerState /\ r.p \in Plans /\ WorkerOK(r)
    BY DEF IInv, WorkersType, WorkersOK
  <1>2. RowOK(r)
    BY <1>1 DEF WorkerOK
  <1>3. QED
    BY <1>1, <1>2 DEF IInv, SharedType, SharedOK

\* A worker that only moves on.
LEMMA SetPC ==
    ASSUME NEW r \in WorkerState, NEW c \in PCs
    PROVE  /\ [r EXCEPT !.pc = c] \in WorkerState
           /\ [r EXCEPT !.pc = c].pc = c
           /\ [r EXCEPT !.pc = c].p = r.p
           /\ [r EXCEPT !.pc = c].row = r.row
  <1>1. [r EXCEPT !.pc = c] \in WorkerState
    BY Zenon DEF WorkerState
  <1>2. QED
    BY <1>1 DEF WorkerState

\* A worker without a row that is not about to send has nothing to keep.
LEMMA RowlessOK ==
    ASSUME SharedType', NEW x, x.pc \in Rowless \ Sending, x.row = NoRow
    PROVE  WorkerOK(x)'
  <1>1. x.p \in Plans => ex'[x.p].filled \in Nat
    BY QAssumption DEF SharedType
  <1>2. (x.p \in Plans => RowOK(x))'
    BY <1>1, QAssumption DEF RowOK, NoRow
  <1>3. QED
    BY <1>2 DEF WorkerOK, Rowless, Sending

\* An idle worker, whatever happens to the tables.
LEMMA IdleOK ==
    ASSUME SharedType'
    PROVE  /\ Idle \in WorkerState /\ Idle.pc \in Loops /\ Idle.pc \notin Sending
           /\ WorkerOK(Idle)'
  BY IdleType, RowlessOK DEF Rowless, Loops, Sending

\* transition_order leaves the shared state well typed.
LEMMA TransitionType ==
    ASSUME SharedType, NEW p \in Plans, NEW st, CanTransition(p, st),
           order' = [order EXCEPT ![p].st = st],
           UNCHANGED <<pos, trade, ex, sl, placed, faults>>
    PROVE  SharedType' /\ order'[p].st = st
  <1>1. order[p] \in [st : OrderState, id : BOOLEAN, filled : 0..Q]
    BY DEF SharedType
  <1>2. st \in OrderState
    BY <1>1, TransitionFacts DEF CanTransition
  <1>3. QED
    BY <1>2 DEF SharedType

\* transition_order to a state that is not terminal, or is the present one.
LEMMA TransitionMoves ==
    ASSUME IInv, NEW w \in Workers, NEW p \in Plans, NEW st, CanTransition(p, st),
           st # "CLOSED",
           st = "CANCELLED" => order[p].st = "CANCELLED",
           st \in {"FILLED", "POSITION_UNPROTECTED"} =>
               order[p].st \in {"FILLED", "POSITION_UNPROTECTED"},
           order' = [order EXCEPT ![p].st = st],
           UNCHANGED <<pos, trade, ex, sl, placed, faults>>,
           NEW x \in WorkerState, x.pc \notin Loops => x.p \in Plans,
           wk' = [wk EXCEPT ![w] = x],
           WorkerOK(x)', x.pc \notin Sending
    PROVE  IInv'
  <1>1. /\ order[p] \in [st : OrderState, id : BOOLEAN, filled : 0..Q]
        /\ OrderOK(p)
    BY DEF IInv, SharedType, SharedOK
  <1>2. st \in OrderState
    BY <1>1, TransitionFacts DEF CanTransition
  <1>3. PICK o : o = [order[p] EXCEPT !.st = st]
    OBVIOUS
  <1>4. /\ o \in [st : OrderState, id : BOOLEAN, filled : 0..Q]
        /\ o.st = st /\ o.filled = order[p].filled
        /\ order' = [order EXCEPT ![p] = o]
    BY <1>1, <1>2, <1>3
  <1>5. /\ o.st \in ALLOWED_TRANSITIONS[order[p].st]
        /\ o.st = "CANCELLED" => ex[p].st = "canceled" /\ o.filled = ex[p].filled
        /\ o.st \in {"FILLED", "POSITION_UNPROTECTED"} => ex[p].st = "filled" /\ o.filled = Q
    BY <1>1, <1>4 DEF CanTransition, OrderOK
  <1>6. o.st # "CLOSED" /\ (x.pc \in Sending => wk[w].pc \in Sending /\ wk[w].p = x.p)
    BY <1>4
  <1>7. QED
    BY <1>4, <1>5, <1>6, OrderAndWorkerMove, ZenonT(30)

(***************************************************************************)
(* The steps of _submit.                                                   *)
(***************************************************************************)
\* Approval gives a plan its only sender.
LEMMA SubmitStep ==
    ASSUME IInv, NEW w \in Workers, NEW p \in Plans, Submit(w, p)
    PROVE  IInv'
  <1> DEFINE x == [Idle EXCEPT !.pc = "approved", !.p = p]
  <1>1. SharedType /\ SharedOK /\ WorkersType
    BY DEF IInv
  <1>2. /\ order[p].st = "PLANNED" /\ order' = [order EXCEPT ![p].st = "APPROVED"]
        /\ wk' = [wk EXCEPT ![w] = x] /\ UNCHANGED <<pos, trade, ex, sl, placed, faults>>
    BY DEF Submit, SetState, Become
  <1>3. x \in WorkerState /\ x.pc = "approved" /\ x.p = p /\ x.row = NoRow
    <2>1. "approved" \in PCs /\ p \in Plans \cup {NoPlan}
      BY DEF PCs
    <2>2. x \in WorkerState
      BY <2>1, IdleType, Zenon DEF WorkerState
    <2>3. QED
      BY <2>2, IdleType DEF WorkerState
  <1>4. /\ order'[p].st = "APPROVED" /\ order'[p].filled = order[p].filled
        /\ \A q \in Plans \ {p} : order'[q] = order[q]
    BY <1>1, <1>2 DEF SharedType
  <1>5. SharedType'
    <2>1. order' \in [Plans -> [st : OrderState, id : BOOLEAN, filled : 0..Q]]
      BY <1>1, <1>2 DEF SharedType, OrderState
    <2> QED
      BY <1>1, <1>2, <2>1 DEF SharedType
  <1>6. SharedOK'
    BY <1>1, <1>2, <1>4 DEF SharedOK, ExchangeOK, OrderOK
  <1>7. ASSUME NEW q \in Plans PROVE OrderKept(q) /\ ExKept(q)
    <2>1. ex[q].filled \in Nat
      BY <1>1, QAssumption DEF SharedType
    <2>2. QED
      BY <1>2, <1>4, <2>1 DEF OrderKept, ExKept
  <1>8. WorkerOK(x)'
    <2>1. ex'[p].filled \in Nat /\ placed'[p] = 0
      BY <1>1, <1>2, <1>5, QAssumption DEF SharedType, SharedOK, OrderOK
    <2>2. RowOK(x)'
      BY <1>3, <2>1, QAssumption DEF RowOK, NoRow
    <2>3. QED
      BY <1>3, <1>4, <2>1, <2>2 DEF WorkerOK, Rowless
  <1>9. WorkersType' /\ WorkersOK'
    <2> HIDE DEF x
    <2>1. QED
      BY <1>2, <1>3, <1>5, <1>7, <1>8, WorkerMoves
  <1>10. QED
    BY <1>5, <1>6, <1>9 DEF IInv

\* The sender marks the order SUBMITTED before anything is sent.
LEMMA MarkSubmittedStep ==
    ASSUME IInv, NEW w \in Workers, MarkSubmitted(w)
    PROVE  IInv'
  <1> PICK r : r = wk[w]
    OBVIOUS
  <1>1. r.pc = "approved"
    BY DEF MarkSubmitted, At
  <1>2. /\ r \in WorkerState /\ r.p \in Plans /\ WorkerOK(r) /\ RowOK(r)
        /\ order[r.p] \in [st : OrderState, id : BOOLEAN, filled : 0..Q]
    BY <1>1, WorkerFacts DEF Loops
  <1>3. CASE CanTransition(r.p, "SUBMITTED")
    <2> DEFINE x == [r EXCEPT !.pc = "send"]
               o == [order[r.p] EXCEPT !.st = "SUBMITTED"]
    <2>1. /\ order' = [order EXCEPT ![r.p].st = "SUBMITTED"] /\ wk' = [wk EXCEPT ![w] = x]
          /\ UNCHANGED <<pos, trade, ex, sl, placed, faults>>
      BY <1>3 DEF MarkSubmitted, SetState, Become
    <2>2. PICK y : y = o
      OBVIOUS
    <2>3. /\ y \in [st : OrderState, id : BOOLEAN, filled : 0..Q] /\ y.st = "SUBMITTED"
          /\ order' = [order EXCEPT ![r.p] = y]
      BY <1>2, <2>1, <2>2 DEF OrderState
    <2>4. x \in WorkerState /\ x.pc = "send" /\ x.p = r.p /\ x.row = r.row
      <3>1. "send" \in PCs
        BY DEF PCs
      <3> QED
        BY <1>2, <3>1, SetPC, Zenon
    <2>5. order'[r.p].st = "SUBMITTED" /\ placed'[r.p] = 0 /\ ex'[r.p] = ex[r.p]
      BY <1>1, <1>2, <2>1, <2>3 DEF IInv, SharedType, WorkerOK
    <2>6. WorkerOK(x)'
      BY <1>1, <1>2, <2>4, <2>5 DEF WorkerOK, RowOK, Rowless
    <2> HIDE DEF x, o
    <2>7. y.st \in ALLOWED_TRANSITIONS[order[r.p].st]
      BY <1>3, <2>3 DEF CanTransition
    <2>8. x.p \in Plans /\ wk[w].pc \in Sending /\ wk[w].p = x.p
      BY <1>1, <1>2, <2>4 DEF Sending
    <2>9. QED
      BY <1>2, <2>1, <2>3, <2>4, <2>6, <2>7, <2>8, OrderAndWorkerMove
  <1>4. CASE ~CanTransition(r.p, "SUBMITTED")
    <2>1. UNCHANGED <<order, pos, trade, ex, sl, placed, faults>> /\ wk' = [wk EXCEPT ![w] = Idle]
      BY <1>4 DEF MarkSubmitted, Become
    <2>2. SharedType' /\ faults' \in 0..MaxFaults
      BY <2>1 DEF IInv, SharedType
    <2>3. QED
      BY <2>1, <2>2, IdleOK, OnlyWorkerMoves
  <1>5. QED
    BY <1>3, <1>4

\* A refusal before place_order sends nothing.
LEMMA ExecuteBlockedStep ==
    ASSUME IInv, NEW w \in Workers, ExecuteBlocked(w)
    PROVE  IInv'
  <1> PICK r : r = wk[w]
    OBVIOUS
  <1>1. r.pc = "send"
    BY DEF ExecuteBlocked, At
  <1>2. r \in WorkerState /\ r.p \in Plans /\ r.row = NoRow
    BY <1>1, WorkerFacts DEF Loops, WorkerOK, Rowless
  <1> DEFINE x == [r EXCEPT !.pc = "rejected"]
  <1>3. /\ UNCHANGED <<order, pos, trade, ex, sl, placed, faults>>
        /\ wk' = [wk EXCEPT ![w] = x]
    BY DEF ExecuteBlocked, Become
  <1>4. SharedType' /\ faults' \in 0..MaxFaults
    BY <1>3 DEF IInv, SharedType
  <1>5. x \in WorkerState /\ x.pc = "rejected" /\ x.p = r.p /\ x.row = NoRow
    <2>1. "rejected" \in PCs
      BY DEF PCs
    <2>2. QED
      BY <1>2, <2>1, SetPC
  <1>6. WorkerOK(x)' /\ x.pc \notin Sending
    BY <1>4, <1>5, RowlessOK DEF Rowless, Sending
  <1> HIDE DEF x
  <1>7. QED
    BY <1>2, <1>3, <1>4, <1>5, <1>6, OnlyWorkerMoves

\* place_order is called by the only worker about to send this plan.
LEMMA ExecutePlaceStep ==
    ASSUME IInv, NEW w \in Workers, ExecutePlace(w)
    PROVE  IInv'
  <1> PICK r : r = wk[w]
    OBVIOUS
  <1>1. r.pc = "send"
    BY DEF ExecutePlace, At
  <1>2. /\ r \in WorkerState /\ r.p \in Plans /\ r.row = NoRow
        /\ placed[r.p] = 0 /\ order[r.p].st \notin {"PLANNED", "APPROVED"}
        /\ ex[r.p] \in [st : ExState, filled : 0..Q, creq : BOOLEAN]
        /\ ex[r.p].st = "none" /\ ex[r.p].filled = 0
    BY <1>1, WorkerFacts DEF Loops, WorkerOK, Rowless, ExchangeOK
  <1> PICK p : p = r.p
    OBVIOUS
  <1>3. /\ placed' = [placed EXCEPT ![p] = placed[p] + 1]
        /\ UNCHANGED <<order, pos, trade, sl, faults>>
    BY DEF ExecutePlace
  <1>4. PICK x : /\ wk' = [wk EXCEPT ![w] = x] /\ x \in WorkerState
                 /\ x.pc \in {"rejected", "acked", "unknown"} /\ x.p = r.p /\ x.row = NoRow
    <2>1. "rejected" \in PCs /\ "unknown" \in PCs /\ "acked" \in PCs
      BY DEF PCs
    <2>2. ASSUME NEW c \in {"rejected", "unknown"}, Become(w, [r EXCEPT !.pc = c])
          PROVE  \E x : /\ wk' = [wk EXCEPT ![w] = x] /\ x \in WorkerState
                        /\ x.pc \in {"rejected", "acked", "unknown"} /\ x.p = r.p /\ x.row = NoRow
      <3> DEFINE x == [r EXCEPT !.pc = c]
      <3>1. x \in WorkerState /\ x.pc = c /\ x.p = r.p /\ x.row = NoRow
        BY <1>2, <2>1, SetPC
      <3>2. wk' = [wk EXCEPT ![w] = x]
        BY <2>2 DEF Become
      <3> HIDE DEF x
      <3>3. QED
        BY <3>1, <3>2
    <2>3. ASSUME NEW id \in BOOLEAN, Become(w, [r EXCEPT !.pc = "acked", !.id = id])
          PROVE  \E x : /\ wk' = [wk EXCEPT ![w] = x] /\ x \in WorkerState
                        /\ x.pc \in {"rejected", "acked", "unknown"} /\ x.p = r.p /\ x.row = NoRow
      <3> DEFINE x == [r EXCEPT !.pc = "acked", !.id = id]
      <3>1. x \in WorkerState
        BY <1>2, <2>1, Zenon DEF WorkerState
      <3>2. x.pc = "acked" /\ x.p = r.p /\ x.row = NoRow
        BY <1>2 DEF WorkerState
      <3>3. wk' = [wk EXCEPT ![w] = x]
        BY <2>3 DEF Become
      <3> HIDE DEF x
      <3>4. QED
        BY <3>1, <3>2, <3>3
    <2>4. QED
      BY <2>2, <2>3 DEF ExecutePlace
  <1>5. SharedType /\ SharedOK
    BY DEF IInv
  <1>6. ex' \in [Plans -> [st : ExState, filled : 0..Q, creq : BOOLEAN]]
        /\ ex'[p].st \in {"none", "live", "transit"} /\ ex'[p].filled = 0
        /\ \A q \in Plans \ {p} : ex'[q] = ex[q]
    <2>1. \/ UNCHANGED ex
          \/ \E st \in {"live", "transit"} : ex' = [ex EXCEPT ![p].st = st]
      BY DEF ExecutePlace
    <2>2. CASE UNCHANGED ex
      BY <1>2, <1>5, <2>2 DEF SharedType
    <2>3. ASSUME NEW st \in {"live", "transit"}, ex' = [ex EXCEPT ![p].st = st]
          PROVE  <1>6!:
      BY <1>2, <1>5, <2>3 DEF SharedType, ExState
    <2>4. QED
      BY <2>1, <2>2, <2>3
  <1>7. /\ SharedType' /\ placed'[p] = 1
        /\ \A q \in Plans \ {p} : placed'[q] = placed[q]
    BY <1>2, <1>3, <1>5, <1>6 DEF SharedType
  <1>8. ASSUME NEW q \in Plans PROVE (ExchangeOK(q) /\ OrderOK(q))'
    <2>1. ExchangeOK(q) /\ OrderOK(q)
      BY DEF IInv, SharedOK
    <2>2. CASE q = p
      BY <1>2, <1>3, <1>5, <1>6, <1>7, <2>1, <2>2, QAssumption DEF ExchangeOK, OrderOK, SharedType, PositionRow
    <2>3. CASE q # p
      BY <1>3, <1>6, <1>7, <2>1, <2>3 DEF ExchangeOK, OrderOK
    <2>4. QED
      BY <2>2, <2>3
  <1>9. ASSUME NEW q \in Plans PROVE OrderKept(q) /\ ExKept(q)
    <2>1. ex[q].filled \in Nat
      BY QAssumption DEF IInv, SharedType
    <2>2. QED
      BY <1>2, <1>3, <1>6, <2>1 DEF OrderKept, ExKept
  <1>10. ASSUME NEW v \in Workers \ {w}, wk[v].pc \in Sending
         PROVE  placed'[wk[v].p] = placed[wk[v].p]
    <2>1. wk[v].p # p
      BY <1>1, <1>10 DEF IInv, WorkersOK, OneSender, Sending
    <2>2. wk[v].p \in Plans
      BY <1>10 DEF IInv, WorkersType, Sending, Loops
    <2>3. QED
      BY <1>7, <2>1, <2>2
  <1>11. WorkerOK(x)' /\ x.pc \notin Sending /\ x.p \in Plans
    BY <1>2, <1>4, <1>7, RowlessOK DEF Rowless, Sending
  <1>12. WorkersType' /\ WorkersOK'
    BY <1>4, <1>7, <1>9, <1>10, <1>11, WorkerMoves
  <1>13. QED
    BY <1>7, <1>8, <1>12 DEF IInv, SharedOK

\* A refused submission is recorded.
LEMMA RecordRejectedStep ==
    ASSUME IInv, NEW w \in Workers, RecordRejected(w)
    PROVE  IInv'
  <1> PICK r : r = wk[w]
    OBVIOUS
  <1>1. r.pc = "rejected"
    BY DEF RecordRejected, At
  <1>2. r \in WorkerState /\ r.p \in Plans
    BY <1>1, WorkerFacts DEF Loops
  <1>3. CASE CanTransition(r.p, "REJECTED")
    <2>1. /\ order' = [order EXCEPT ![r.p].st = "REJECTED"] /\ wk' = [wk EXCEPT ![w] = Idle]
          /\ UNCHANGED <<pos, trade, ex, sl, placed, faults>>
      BY <1>3 DEF RecordRejected, SetState, Become
    <2>2. SharedType'
      BY <1>2, <1>3, <2>1, TransitionType DEF IInv
    <2>3. QED
      BY <1>2, <1>3, <2>1, <2>2, IdleOK, TransitionMoves
  <1>4. CASE ~CanTransition(r.p, "REJECTED")
    <2>1. UNCHANGED <<order, pos, trade, ex, sl, placed, faults>> /\ wk' = [wk EXCEPT ![w] = Idle]
      BY <1>4 DEF RecordRejected, Become
    <2>2. SharedType' /\ faults' \in 0..MaxFaults
      BY <2>1 DEF IInv, SharedType
    <2>3. QED
      BY <2>1, <2>2, IdleOK, OnlyWorkerMoves
  <1>5. QED
    BY <1>3, <1>4

(***************************************************************************)
(* The common shapes of the remaining steps: the worker drops its row, or  *)
(* goes on after a reconcile, with or without one transition_order.        *)
(***************************************************************************)
\* A reconcile ends without writing anything.
LEMMA ContinueMoves ==
    ASSUME IInv, UNCHANGED <<order, pos, trade, ex, sl, placed>>, faults' \in 0..MaxFaults,
           NEW w \in Workers, NEW r, r = wk[w], r.pc \notin Loops,
           NEW x, Continues(r, x), wk' = [wk EXCEPT ![w] = x]
    PROVE  IInv'
  <1>1. SharedType /\ SharedType' /\ SharedOK
    BY DEF IInv, SharedType
  <1>2. r \in WorkerState /\ r.p \in Plans /\ RowOK(r)
    BY WorkerFacts
  <1>3. ExKept(r.p)
    BY <1>1, <1>2, SharedKept
  <1>4. /\ x \in WorkerState /\ (x.pc \notin Loops => x.p \in Plans)
        /\ WorkerOK(x)' /\ x.pc \notin Sending
    BY <1>1, <1>2, <1>3, ContinuesOK
  <1>5. QED
    BY <1>4, OnlyWorkerMoves

\* A worker goes on without a row, nothing is written.
LEMMA RowlessMoves ==
    ASSUME IInv, UNCHANGED <<order, pos, trade, ex, sl, placed>>, faults' \in 0..MaxFaults,
           NEW w \in Workers, NEW x \in WorkerState, x.pc \in Rowless \ Sending,
           x.row = NoRow, x.pc \notin Loops => x.p \in Plans,
           wk' = [wk EXCEPT ![w] = x]
    PROVE  IInv'
  <1>1. SharedType'
    BY DEF IInv, SharedType
  <1>2. WorkerOK(x)'
    BY <1>1, RowlessOK
  <1>3. QED
    BY <1>2, OnlyWorkerMoves

\* A transition to a state that is not terminal, and a worker that goes on
\* without a row or as after a reconcile.
LEMMA TransitionAndGo ==
    ASSUME IInv, NEW w \in Workers, NEW r, r = wk[w], r.pc \notin Loops,
           NEW st, CanTransition(r.p, st),
           st \notin {"CLOSED", "CANCELLED", "FILLED", "POSITION_UNPROTECTED"},
           order' = [order EXCEPT ![r.p].st = st],
           UNCHANGED <<pos, trade, ex, sl, placed, faults>>,
           NEW x, wk' = [wk EXCEPT ![w] = x],
           \/ Continues(r, x)
           \/ /\ x \in WorkerState /\ x.pc \in Rowless \ Sending /\ x.row = NoRow
              /\ x.pc \notin Loops => x.p \in Plans
    PROVE  IInv'
  <1>1. r \in WorkerState /\ r.p \in Plans /\ RowOK(r)
    BY WorkerFacts
  <1>2. SharedType /\ SharedType'
    BY <1>1, TransitionType DEF IInv
  <1>3. /\ x \in WorkerState /\ (x.pc \notin Loops => x.p \in Plans)
        /\ WorkerOK(x)' /\ x.pc \notin Sending
    <2>1. CASE Continues(r, x)
      <3>1. ex[r.p].filled \in Nat
        BY <1>1, <1>2, QAssumption DEF SharedType
      <3>2. ExKept(r.p)
        BY <3>1 DEF ExKept
      <3>3. QED
        BY <1>1, <1>2, <2>1, <3>2, ContinuesOK
    <2>2. CASE /\ x \in WorkerState /\ x.pc \in Rowless \ Sending /\ x.row = NoRow
               /\ x.pc \notin Loops => x.p \in Plans
      BY <1>2, <2>2, RowlessOK
    <2>3. QED
      BY <2>1, <2>2
  <1>4. QED
    BY <1>1, <1>3, TransitionMoves

\* An unanswered submission is recorded as uncertain.
LEMMA RecordUnknownStep ==
    ASSUME IInv, NEW w \in Workers, RecordUnknown(w)
    PROVE  IInv'
  <1> PICK r : r = wk[w]
    OBVIOUS
  <1>1. r.pc = "unknown" /\ r.pc \notin Loops
    BY DEF RecordUnknown, At, Loops
  <1>2. r \in WorkerState /\ r.p \in Plans /\ r.row = NoRow
    BY <1>1, WorkerFacts DEF WorkerOK, Rowless
  <1>3. CASE CanTransition(r.p, "SUBMISSION_UNKNOWN")
    <2> PICK x : x = StartLane(r, "new")
      OBVIOUS
    <2>1. /\ order' = [order EXCEPT ![r.p].st = "SUBMISSION_UNKNOWN"]
          /\ wk' = [wk EXCEPT ![w] = x] /\ UNCHANGED <<pos, trade, ex, sl, placed, faults>>
      BY <1>3 DEF RecordUnknown, SetState, Become
    <2>2. x \in WorkerState /\ x.pc = "lookup" /\ x.row = NoRow /\ x.p = r.p
      BY <1>2, StartLaneType DEF Lanes
    <2>3. x.pc \in Rowless \ Sending /\ x.p \in Plans
      BY <1>2, <2>2 DEF Rowless, Sending
    <2>4. QED
      BY <1>1, <1>3, <2>1, <2>2, <2>3, TransitionAndGo
  <1>4. CASE ~CanTransition(r.p, "SUBMISSION_UNKNOWN")
    <2>1. UNCHANGED <<order, pos, trade, ex, sl, placed, faults>> /\ wk' = [wk EXCEPT ![w] = Idle]
      BY <1>4 DEF RecordUnknown, Become
    <2>2. SharedType' /\ faults' \in 0..MaxFaults
      BY <2>1 DEF IInv, SharedType
    <2>3. QED
      BY <2>1, <2>2, IdleOK, OnlyWorkerMoves
  <1>5. QED
    BY <1>3, <1>4

\* An acknowledged submission is recorded with its exchange id.
LEMMA RecordAckStep ==
    ASSUME IInv, NEW w \in Workers, RecordAck(w)
    PROVE  IInv'
  <1> PICK r : r = wk[w]
    OBVIOUS
  <1>1. r.pc = "acked" /\ r.pc \notin Loops
    BY DEF RecordAck, At, Loops
  <1>2. /\ r \in WorkerState /\ r.p \in Plans /\ r.row = NoRow
        /\ order[r.p] \in [st : OrderState, id : BOOLEAN, filled : 0..Q]
    BY <1>1, WorkerFacts DEF WorkerOK, Rowless
  <1>3. CASE CanTransition(r.p, "SUBMITTED")
    <2> PICK r0 : r0 = [r EXCEPT !.id = FALSE]
      OBVIOUS
    <2> PICK x : x = StartLane(r0, "new")
      OBVIOUS
    <2> PICK o : o = [order[r.p] EXCEPT !.st = "SUBMITTED", !.id = r.id]
      OBVIOUS
    <2>1. r.id \in BOOLEAN
      BY <1>2, Zenon DEF WorkerState
    <2>2. /\ order' = [order EXCEPT ![r.p] = o]
          /\ wk' = [wk EXCEPT ![w] = x] /\ UNCHANGED <<pos, trade, ex, sl, placed, faults>>
      BY <1>3 DEF RecordAck, Become
    <2>3. o \in [st : OrderState, id : BOOLEAN, filled : 0..Q] /\ o.st = "SUBMITTED"
      BY <1>2, <2>1 DEF OrderState
    <2>4. r0 \in WorkerState
      BY <1>2, Zenon DEF WorkerState
    <2>5. r0.row = NoRow /\ r0.p = r.p
      BY <1>2 DEF WorkerState
    <2>6. x \in WorkerState /\ x.pc = "lookup" /\ x.row = NoRow /\ x.p = r.p
      BY <2>4, <2>5, StartLaneType DEF Lanes
    <2>7. o.st \in ALLOWED_TRANSITIONS[order[r.p].st]
      BY <1>3, <2>3 DEF CanTransition
    <2>8. SharedType'
      BY <1>2, <2>2, <2>3 DEF IInv, SharedType
    <2>9. WorkerOK(x)' /\ x.pc \notin Sending /\ x.p \in Plans
      BY <1>2, <2>6, <2>8, RowlessOK DEF Rowless, Sending
    <2>10. QED
      BY <1>2, <2>2, <2>3, <2>6, <2>7, <2>9, OrderAndWorkerMove
  <1>4. CASE ~CanTransition(r.p, "SUBMITTED")
    <2>1. UNCHANGED <<order, pos, trade, ex, sl, placed, faults>> /\ wk' = [wk EXCEPT ![w] = Idle]
      BY <1>4 DEF RecordAck, Become
    <2>2. SharedType' /\ faults' \in 0..MaxFaults
      BY <2>1 DEF IInv, SharedType
    <2>3. QED
      BY <2>1, <2>2, IdleOK, OnlyWorkerMoves
  <1>5. QED
    BY <1>3, <1>4

\* Workers are not touched and no plan is un-approved or un-ended.
LEMMA RejectPlanStep ==
    ASSUME IInv, NEW p \in Plans, RejectPlan(p)
    PROVE  IInv'
  <1>1. SharedType /\ SharedOK /\ WorkersType /\ WorkersOK
    BY DEF IInv
  <1>2. /\ order[p].st = "PLANNED" /\ order' = [order EXCEPT ![p].st = "REJECTED"]
        /\ UNCHANGED <<pos, trade, ex, sl, placed, wk, faults>>
    BY DEF RejectPlan, SetState
  <1>3. /\ order'[p].st = "REJECTED" /\ \A q \in Plans \ {p} : order'[q] = order[q]
    BY <1>1, <1>2 DEF SharedType
  <1>4. SharedType'
    BY <1>1, <1>2 DEF SharedType, OrderState
  <1>5. SharedOK'
    BY <1>1, <1>2, <1>3 DEF SharedOK, ExchangeOK, OrderOK
  <1>6. ASSUME NEW q \in Plans PROVE OrderKept(q) /\ ExKept(q)
    <2>1. ex[q].filled \in Nat
      BY <1>1, QAssumption DEF SharedType
    <2>2. QED
      BY <1>2, <1>3, <2>1 DEF OrderKept, ExKept
  <1>7. ASSUME NEW w \in Workers PROVE WorkerOK(wk[w])'
    <2>1. wk[w] \in WorkerState /\ (wk[w].pc \notin Loops => wk[w].p \in Plans) /\ WorkerOK(wk[w])
      BY <1>1 DEF WorkersType, WorkersOK
    <2>2. QED
      BY <1>1, <1>2, <1>4, <1>6, <2>1, FrameWorker
  <1>8. WorkersType' /\ OneSender'
    BY <1>1, <1>2 DEF WorkersType, WorkersOK, OneSender
  <1>9. QED
    BY <1>4, <1>5, <1>7, <1>8 DEF IInv, WorkersOK

(***************************************************************************)
(* The steps of reconcile_plan and _apply_remote_order.                    *)
(***************************************************************************)
\* A lookup that finds nothing changes no table.
LEMMA LookupMissedStep ==
    ASSUME IInv, NEW w \in Workers, LookupMissed(w)
    PROVE  IInv'
  <1> PICK r : r = wk[w]
    OBVIOUS
  <1>1. r.pc = "lookup" /\ r.pc \notin Loops
    BY DEF LookupMissed, At, Loops
  <1> PICK x : x = AfterReconcile(r, order[r.p].st, "NONE")
    OBVIOUS
  <1>2. UNCHANGED <<order, pos, trade, ex, sl, placed, faults>> /\ wk' = [wk EXCEPT ![w] = x]
    BY DEF LookupMissed, Become
  <1>3. Continues(r, x)
    BY <1>1, WorkerFacts, AfterReconcileType
  <1>4. faults' \in 0..MaxFaults
    BY <1>2 DEF IInv, SharedType
  <1>5. QED
    BY <1>1, <1>2, <1>3, <1>4, ContinueMoves

\* The row that was found is the exchange's present state.
LEMMA LookupFoundStep ==
    ASSUME IInv, NEW w \in Workers, LookupFound(w)
    PROVE  IInv'
  <1> PICK r : r = wk[w]
    OBVIOUS
  <1>1. r.pc = "lookup" /\ r.pc \notin Loops
    BY DEF LookupFound, At, Loops
  <1>2. /\ r \in WorkerState /\ r.p \in Plans
        /\ ex[r.p] \in [st : ExState, filled : 0..Q, creq : BOOLEAN] /\ ExchangeOK(r.p)
    BY <1>1, WorkerFacts
  <1> PICK row : row = [st |-> ex[r.p].st, filled |-> ex[r.p].filled]
    OBVIOUS
  <1> PICK was : was = (order[r.p].st = "CANCEL_REQUESTED")
    OBVIOUS
  <1> DEFINE x == [r EXCEPT !.pc = "apply", !.row = row, !.was = was]
  <1>3. /\ UNCHANGED <<order, pos, trade, ex, sl, placed, faults>>
        /\ wk' = [wk EXCEPT ![w] = x]
        /\ ex[r.p].st \in {"live", "canceled", "filled", "rejected"}
    BY DEF LookupFound, Become
  <1>4. row \in Row /\ "apply" \in PCs /\ was \in BOOLEAN
    BY <1>2, <1>3 DEF Row, PCs
  <1>5. x \in WorkerState
    BY <1>2, <1>4, Zenon DEF WorkerState
  <1>6. x.pc = "apply" /\ x.p = r.p /\ x.row = row
    BY <1>2 DEF WorkerState
  <1> HIDE DEF x
  <1>7. SharedType' /\ faults' \in 0..MaxFaults
    BY <1>3 DEF IInv, SharedType
  <1>8. WorkerOK(x)'
    <2>1. RowOK(x)'
      BY <1>2, <1>3, <1>6 DEF RowOK, ExchangeOK
    <2>2. QED
      BY <1>6, <2>1 DEF WorkerOK, Rowless
  <1>9. x.pc \notin Sending /\ x.p \in Plans
    BY <1>2, <1>6 DEF Sending
  <1>10. QED
    BY <1>3, <1>5, <1>7, <1>8, <1>9, OnlyWorkerMoves

\* A row without a recognised state still tells no more than was filled.
LEMMA LookupUnrecognisedStep ==
    ASSUME IInv, NEW w \in Workers, LookupUnrecognised(w)
    PROVE  IInv'
  <1> PICK r : r = wk[w]
    OBVIOUS
  <1>1. r.pc = "lookup" /\ r.pc \notin Loops
    BY DEF LookupUnrecognised, At, Loops
  <1>2. /\ r \in WorkerState /\ r.p \in Plans
        /\ ex[r.p] \in [st : ExState, filled : 0..Q, creq : BOOLEAN] /\ ExchangeOK(r.p)
    BY <1>1, WorkerFacts
  <1> PICK was : was = (order[r.p].st = "CANCEL_REQUESTED")
    OBVIOUS
  <1>a. PICK f \in {0, ex[r.p].filled} :
          wk' = [wk EXCEPT ![w] = [r EXCEPT !.pc = "apply", !.row = [st |-> "other", filled |-> f],
                                            !.was = was]]
    BY DEF LookupUnrecognised, Become
  <1> PICK row : row = [st |-> "other", filled |-> f]
    OBVIOUS
  <1> DEFINE x == [r EXCEPT !.pc = "apply", !.row = row, !.was = was]
  <1>3. /\ UNCHANGED <<order, pos, trade, ex, sl, placed>>
        /\ wk' = [wk EXCEPT ![w] = x]
        /\ ex[r.p].st \in {"live", "canceled", "filled", "rejected"}
    BY <1>a DEF LookupUnrecognised
  <1>4. row \in Row /\ "apply" \in PCs /\ was \in BOOLEAN
    BY <1>2, QAssumption DEF Row, PCs
  <1>5. x \in WorkerState
    BY <1>2, <1>4, Zenon DEF WorkerState
  <1>6. x.pc = "apply" /\ x.p = r.p /\ x.row = row
    BY <1>2 DEF WorkerState
  <1> HIDE DEF x
  <1>7. faults' \in 0..MaxFaults
    BY MaxFaultsAssumption DEF LookupUnrecognised, IInv, SharedType
  <1>8. WorkerOK(x)'
    <2>1. RowOK(x)'
      BY <1>2, <1>3, <1>6, QAssumption DEF RowOK, ExchangeOK
    <2>2. QED
      BY <1>6, <2>1 DEF WorkerOK, Rowless
  <1>9. x.pc \notin Sending /\ x.p \in Plans
    BY <1>2, <1>6 DEF Sending
  <1>10. QED
    BY <1>3, <1>5, <1>7, <1>8, <1>9, OnlyWorkerMoves

\* The order takes the state of the row, terminal only when the exchange's is.
LEMMA ApplyRemoteOrderStep ==
    ASSUME IInv, NEW w \in Workers, ApplyRemoteOrder(w)
    PROVE  IInv'
  <1> PICK r : r = wk[w]
    OBVIOUS
  <1>1. r.pc = "apply" /\ r.pc \notin Loops
    BY DEF ApplyRemoteOrder, At, Loops
  <1>2. /\ r \in WorkerState /\ r.p \in Plans /\ RowOK(r)
        /\ order[r.p] \in [st : OrderState, id : BOOLEAN, filled : 0..Q]
        /\ ex[r.p] \in [st : ExState, filled : 0..Q, creq : BOOLEAN]
        /\ ExchangeOK(r.p)
    BY <1>1, WorkerFacts
  <1>3. r.row \in Row
    BY <1>2 DEF WorkerState
  <1> PICK st : st = RemoteState(r)
    OBVIOUS
  <1>4. /\ st \in {"CANCELLED", "REJECTED", "FILLED", "PARTIALLY_FILLED", "OPEN", "SUBMITTED"}
        /\ st = "CANCELLED" => ex[r.p].st = "canceled" /\ r.row.filled = ex[r.p].filled
        /\ st = "FILLED" => ex[r.p].st = "filled" /\ r.row.filled = Q
    <2>1. /\ st \in {"CANCELLED", "REJECTED", "FILLED", "PARTIALLY_FILLED", "OPEN", "SUBMITTED"}
          /\ st = "CANCELLED" <=> r.row.st = "canceled"
          /\ st = "FILLED" =>
                 r.row.st \in {"filled", "live", "none", "other"} /\ (r.row.st = "filled" \/ r.row.filled = Q)
      BY <1>3, RemoteStateFacts
    <2>2. CASE st = "FILLED" /\ r.row.st # "filled"
      BY <1>2, <1>3, <2>1, <2>2, QAssumption DEF RowOK, ExchangeOK, Row, ExState
    <2>3. QED
      BY <1>2, <2>1, <2>2 DEF RowOK
  <1>5. CASE CanTransition(r.p, st)
    <2>a. PICK o : o = [st |-> st, id |-> TRUE, filled |-> r.row.filled]
      OBVIOUS
    <2>b. PICK x : x = IF HasManagedFill(r) THEN [r EXCEPT !.pc = "protect"] ELSE EndOfReconcile(r)
      OBVIOUS
    <2>1. /\ order' = [order EXCEPT ![r.p] = o]
          /\ wk' = [wk EXCEPT ![w] = x] /\ UNCHANGED <<pos, trade, ex, sl, placed, faults>>
      BY <1>5, <2>a, <2>b DEF ApplyRemoteOrder, Become
    <2>2. o \in [st : OrderState, id : BOOLEAN, filled : 0..Q] /\ o.st = st /\ o.filled = r.row.filled
      BY <1>3, <1>4, <2>a DEF OrderState, Row
    <2>3. /\ o.st \in ALLOWED_TRANSITIONS[order[r.p].st] /\ o.st # "CLOSED"
          /\ o.st = "CANCELLED" => ex[r.p].st = "canceled" /\ o.filled = ex[r.p].filled
          /\ o.st \in {"FILLED", "POSITION_UNPROTECTED"} => ex[r.p].st = "filled" /\ o.filled = Q
      BY <1>4, <1>5, <2>2 DEF CanTransition
    <2>4. SharedType /\ SharedType'
      BY <1>2, <2>1, <2>2 DEF IInv, SharedType
    <2>5. order'[r.p].st = st
      BY <1>2, <2>1, <2>2, <2>4 DEF SharedType
    <2>6. /\ x \in WorkerState /\ (x.pc \notin Loops => x.p \in Plans)
          /\ WorkerOK(x)' /\ x.pc \notin Sending
      <3>1. ExKept(r.p)
        BY <1>2, <2>1, QAssumption DEF ExKept
      <3>2. CASE HasManagedFill(r)
        <4>1. "protect" \in PCs
          BY DEF PCs
        <4>2. x \in WorkerState /\ x.pc = "protect" /\ x.p = r.p /\ x.row = r.row
          BY <1>2, <2>b, <3>2, <4>1, SetPC
        <4>3. RemoteState(x) = st /\ HasManagedFill(x)
          BY <3>2, <4>2 DEF RemoteState, HasManagedFill
        <4>4. RowOK(x)'
          BY <1>2, <2>1, <4>2 DEF RowOK
        <4>5. WorkerOK(x)'
          BY <2>5, <4>2, <4>3, <4>4 DEF WorkerOK, Rowless
        <4>6. QED
          BY <1>2, <4>2, <4>5 DEF Sending
      <3>3. CASE ~HasManagedFill(r)
        <4>1. Continues(r, x)
          BY <1>2, <2>b, <3>3, EndOfReconcileType
        <4>2. QED
          BY <1>2, <2>4, <3>1, <4>1, ContinuesOK
      <3>4. QED
        BY <3>2, <3>3
    <2>7. QED
      BY <1>2, <2>1, <2>2, <2>3, <2>6, OrderAndWorkerMove
  <1>6. CASE ~CanTransition(r.p, st)
    <2> PICK x : x = Raised(r)
      OBVIOUS
    <2>1. UNCHANGED <<order, pos, trade, ex, sl, placed, faults>> /\ wk' = [wk EXCEPT ![w] = x]
      BY <1>6 DEF ApplyRemoteOrder, Become
    <2>2. Continues(r, x) /\ faults' \in 0..MaxFaults
      BY <1>2, <2>1, RaisedType DEF IInv, SharedType
    <2>3. QED
      BY <1>1, <2>1, <2>2, ContinueMoves
  <1>7. QED
    BY <1>5, <1>6

\* Asking for the protection changes no table.
LEMMA ProtectionStateStep ==
    ASSUME IInv, NEW w \in Workers, ProtectionState(w)
    PROVE  IInv'
  <1> PICK r : r = wk[w]
    OBVIOUS
  <1>1. r.pc = "protect" /\ r.pc \notin Loops
    BY DEF ProtectionState, At, Loops
  <1>2. r \in WorkerState /\ r.p \in Plans /\ WorkerOK(r) /\ RowOK(r)
    BY <1>1, WorkerFacts
  <1>3. PICK prot \in {sl[r.p], FALSE} : wk' = [wk EXCEPT ![w] = [r EXCEPT !.pc = "verify", !.prot = prot]]
    BY DEF ProtectionState, Become
  <1> DEFINE x == [r EXCEPT !.pc = "verify", !.prot = prot]
  <1>4. UNCHANGED <<order, pos, trade, ex, sl, placed, faults>>
    BY DEF ProtectionState
  <1>5. sl[r.p] \in BOOLEAN
    BY <1>2, Zenon DEF IInv, SharedType
  <1>6. "verify" \in PCs /\ prot \in BOOLEAN
    BY <1>3, <1>5 DEF PCs
  <1>7. x \in WorkerState
    BY <1>2, <1>6, Zenon DEF WorkerState
  <1>8. x.pc = "verify" /\ x.p = r.p /\ x.row = r.row
    BY <1>2 DEF WorkerState
  <1> HIDE DEF x
  <1>9. WorkerOK(x)'
    BY <1>1, <1>2, <1>4, <1>8 DEF WorkerOK, RowOK, Rowless, HasManagedFill, RemoteState
  <1>10. x.pc \notin Sending /\ x.p \in Plans /\ faults' \in 0..MaxFaults
    BY <1>2, <1>4, <1>8 DEF Sending, IInv, SharedType
  <1>11. wk' = [wk EXCEPT ![w] = x]
    BY <1>3 DEF x
  <1>12. QED
    BY <1>4, <1>7, <1>9, <1>10, <1>11, OnlyWorkerMoves

\* A broken pipe during that question ends the reconcile.
LEMMA ProtectionRaisedStep ==
    ASSUME IInv, NEW w \in Workers, ProtectionRaised(w)
    PROVE  IInv'
  <1> PICK r : r = wk[w]
    OBVIOUS
  <1> PICK x : x = Raised(r)
    OBVIOUS
  <1>1. r.pc = "protect" /\ r.pc \notin Loops
    BY DEF ProtectionRaised, At, Loops
  <1>2. UNCHANGED <<order, pos, trade, ex, sl, placed>> /\ wk' = [wk EXCEPT ![w] = x]
    BY DEF ProtectionRaised, Become
  <1>3. faults' \in 0..MaxFaults
    BY MaxFaultsAssumption DEF ProtectionRaised, IInv, SharedType
  <1>4. Continues(r, x)
    BY <1>1, WorkerFacts, RaisedType
  <1>5. QED
    BY <1>1, <1>2, <1>3, <1>4, ContinueMoves

\* The second transition stays within the terminal state the first one wrote.
LEMMA RecordProtectionStep ==
    ASSUME IInv, NEW w \in Workers, RecordProtection(w)
    PROVE  IInv'
  <1> PICK r : r = wk[w]
    OBVIOUS
  <1>1. r.pc = "verify" /\ r.pc \notin Loops
    BY DEF RecordProtection, At, Loops
  <1>2. r \in WorkerState /\ r.p \in Plans /\ WorkerOK(r) /\ RowOK(r)
    BY <1>1, WorkerFacts
  <1>3. PICK st : st = LifecycleState(r)
    OBVIOUS
  <1>4. /\ HasManagedFill(r) /\ st # "CLOSED"
        /\ RemoteState(r) = "CANCELLED" => order[r.p].st = "CANCELLED" /\ st = "CANCELLED"
        /\ RemoteState(r) = "FILLED" => st \in {"FILLED", "POSITION_UNPROTECTED"}
        /\ st = "CANCELLED" => order[r.p].st = "CANCELLED"
        /\ st \in {"FILLED", "POSITION_UNPROTECTED"} =>
              order[r.p].st \in {"FILLED", "POSITION_UNPROTECTED"}
    BY <1>1, <1>2, <1>3 DEF WorkerOK, LifecycleState, HasManagedFill
  <1>5. CASE CanTransition(r.p, st)
    <2>a. PICK x : x = [r EXCEPT !.pc = "upsert"]
      OBVIOUS
    <2>1. /\ order' = [order EXCEPT ![r.p].st = st]
          /\ wk' = [wk EXCEPT ![w] = x] /\ UNCHANGED <<pos, trade, ex, sl, placed, faults>>
      BY <1>3, <1>5, <2>a DEF RecordProtection, SetState, Become
    <2>2. "upsert" \in PCs
      BY DEF PCs
    <2>3. x \in WorkerState /\ x.pc = "upsert" /\ x.p = r.p /\ x.row = r.row
      BY <1>2, <2>2, <2>a, SetPC
    <2>4. SharedType' /\ order'[r.p].st = st
      BY <1>2, <1>5, <2>1, TransitionType DEF IInv
    <2>5. RemoteState(x) = RemoteState(r) /\ HasManagedFill(x)
      BY <1>4, <2>3 DEF RemoteState, HasManagedFill
    <2>6. RowOK(x)'
      BY <1>2, <2>1, <2>3 DEF RowOK
    <2>7. WorkerOK(x)'
      BY <1>4, <2>3, <2>4, <2>5, <2>6 DEF WorkerOK, Rowless
    <2>8. x.p \in Plans /\ x.pc \notin Sending
      BY <1>2, <2>3 DEF Sending
    <2>9. QED
      BY <1>2, <1>4, <1>5, <2>1, <2>3, <2>7, <2>8, TransitionMoves
  <1>6. CASE ~CanTransition(r.p, st)
    <2>a. PICK x : x = Raised(r)
      OBVIOUS
    <2>1. UNCHANGED <<order, pos, trade, ex, sl, placed, faults>> /\ wk' = [wk EXCEPT ![w] = x]
      BY <1>3, <1>6, <2>a DEF RecordProtection, Become
    <2>2. Continues(r, x) /\ faults' \in 0..MaxFaults
      BY <1>2, <2>1, <2>a, RaisedType DEF IInv, SharedType
    <2>3. QED
      BY <1>1, <2>1, <2>2, ContinueMoves
  <1>7. QED
    BY <1>5, <1>6

\* The position and the trade of a plan change within what its order filled.
LEMMA PositionMoves ==
    ASSUME IInv, UNCHANGED <<order, ex, sl, placed, faults>>,
           pos' \in [Plans -> PositionRow], trade' \in [Plans -> 0..Q],
           \A q \in Plans : pos'[q].qty <= ex[q].filled /\ trade'[q] <= ex[q].filled,
           NEW w \in Workers, NEW x \in WorkerState, x.pc \notin Loops => x.p \in Plans,
           wk' = [wk EXCEPT ![w] = x],
           WorkerOK(x)', x.pc \notin Sending
    PROVE  IInv'
  <1>1. SharedType /\ SharedOK
    BY DEF IInv
  <1>2. SharedType'
    BY <1>1 DEF SharedType
  <1>3. SharedOK'
    BY <1>1 DEF SharedOK, ExchangeOK, OrderOK
  <1>4. \A q \in Plans : OrderKept(q) /\ ExKept(q)
    BY <1>1, SharedKept
  <1>5. WorkersType' /\ WorkersOK'
    BY <1>2, <1>4, WorkerMoves
  <1>6. QED
    BY <1>2, <1>3, <1>5 DEF IInv

\* The managed quantity becomes that of the row, which is at most what was filled.
LEMMA UpsertManagedPositionStep ==
    ASSUME IInv, NEW w \in Workers, UpsertManagedPosition(w)
    PROVE  IInv'
  <1> PICK r : r = wk[w]
    OBVIOUS
  <1>1. r.pc = "upsert" /\ r.pc \notin Loops
    BY DEF UpsertManagedPosition, At, Loops
  <1>2. r \in WorkerState /\ r.p \in Plans /\ WorkerOK(r) /\ RowOK(r)
    BY <1>1, WorkerFacts
  <1>a. PICK x : x = [r EXCEPT !.pc = "record"]
    OBVIOUS
  <1>b. PICK y : y = [st |-> ManagedState(r), qty |-> r.row.filled, prot |-> r.prot]
    OBVIOUS
  <1>3. /\ pos' = [pos EXCEPT ![r.p] = y] /\ wk' = [wk EXCEPT ![w] = x]
        /\ UNCHANGED <<order, trade, ex, sl, placed, faults>>
    BY <1>a, <1>b DEF UpsertManagedPosition, Become
  <1>4. y \in PositionRow /\ y.qty = r.row.filled
    <2>1. r.prot \in BOOLEAN
      BY <1>2, Zenon DEF WorkerState
    <2>2. r.row.filled \in 0..Q
      BY <1>2 DEF WorkerState, Row
    <2>3. ManagedState(r) \in MANAGED_POSITION_STATES
      BY <1>1, <1>2 DEF WorkerOK, HasManagedFill, ManagedState, MANAGED_POSITION_STATES
    <2>4. QED
      BY <1>b, <2>1, <2>2, <2>3 DEF PositionRow
  <1>5. /\ pos' \in [Plans -> PositionRow] /\ trade' \in [Plans -> 0..Q]
        /\ \A q \in Plans : pos'[q].qty <= ex[q].filled /\ trade'[q] <= ex[q].filled
    BY <1>2, <1>3, <1>4 DEF IInv, SharedType, SharedOK, OrderOK, RowOK
  <1>6. "record" \in PCs
    BY DEF PCs
  <1>7. x \in WorkerState /\ x.pc = "record" /\ x.p = r.p /\ x.row = r.row
    BY <1>2, <1>6, <1>a, SetPC
  <1>8. WorkerOK(x)'
    BY <1>1, <1>2, <1>3, <1>7 DEF WorkerOK, RowOK, Rowless, HasManagedFill, RemoteState
  <1>9. x.p \in Plans /\ x.pc \notin Sending
    BY <1>2, <1>7 DEF Sending
  <1>10. QED
    BY <1>3, <1>5, <1>7, <1>8, <1>9, PositionMoves

\* The traded quantity grows to at most what was filled.
LEMMA RecordEntryFillStep ==
    ASSUME IInv, NEW w \in Workers, RecordEntryFill(w)
    PROVE  IInv'
  <1> PICK r : r = wk[w]
    OBVIOUS
  <1>1. r.pc = "record" /\ r.pc \notin Loops
    BY DEF RecordEntryFill, At, Loops
  <1>2. r \in WorkerState /\ r.p \in Plans /\ RowOK(r)
    BY <1>1, WorkerFacts
  <1>a. PICK x : x = EndOfReconcile(r)
    OBVIOUS
  <1>b. PICK y : y = IF trade[r.p] < r.row.filled THEN r.row.filled ELSE trade[r.p]
    OBVIOUS
  <1>3. /\ trade' = [trade EXCEPT ![r.p] = y] /\ wk' = [wk EXCEPT ![w] = x]
        /\ UNCHANGED <<order, pos, ex, sl, placed, faults>>
    BY <1>a, <1>b DEF RecordEntryFill, Become
  <1>4. SharedType /\ SharedOK
    BY DEF IInv
  <1>5. y \in 0..Q /\ y <= ex[r.p].filled
    <2>1. r.row.filled \in 0..Q
      BY <1>2 DEF WorkerState, Row
    <2>2. QED
      BY <1>2, <1>4, <1>b, <2>1 DEF SharedType, SharedOK, OrderOK, RowOK
  <1>6. /\ pos' \in [Plans -> PositionRow] /\ trade' \in [Plans -> 0..Q]
        /\ \A q \in Plans : pos'[q].qty <= ex[q].filled /\ trade'[q] <= ex[q].filled
    BY <1>2, <1>3, <1>4, <1>5 DEF SharedType, SharedOK, OrderOK
  <1>7. SharedType'
    BY <1>3, <1>4, <1>6 DEF SharedType
  <1>8. ExKept(r.p)
    BY <1>2, <1>3, <1>4, SharedKept
  <1>9. Continues(r, x)
    BY <1>2, <1>a, EndOfReconcileType
  <1>10. /\ x \in WorkerState /\ (x.pc \notin Loops => x.p \in Plans)
         /\ WorkerOK(x)' /\ x.pc \notin Sending
    BY <1>2, <1>4, <1>7, <1>8, <1>9, ContinuesOK
  <1>11. QED
    BY <1>3, <1>6, <1>10, PositionMoves

\* Without an average price nothing is recorded.
LEMMA RecordEntryFillNoAverageStep ==
    ASSUME IInv, NEW w \in Workers, RecordEntryFillNoAverage(w)
    PROVE  IInv'
  <1> PICK r : r = wk[w]
    OBVIOUS
  <1> PICK x : x = EndOfReconcile(r)
    OBVIOUS
  <1>1. r.pc = "record" /\ r.pc \notin Loops
    BY DEF RecordEntryFillNoAverage, At, Loops
  <1>2. UNCHANGED <<order, pos, trade, ex, sl, placed>> /\ wk' = [wk EXCEPT ![w] = x]
    BY DEF RecordEntryFillNoAverage, Become
  <1>3. faults' \in 0..MaxFaults
    BY MaxFaultsAssumption DEF RecordEntryFillNoAverage, IInv, SharedType
  <1>4. Continues(r, x)
    BY <1>1, WorkerFacts, EndOfReconcileType
  <1>5. QED
    BY <1>1, <1>2, <1>3, <1>4, ContinueMoves

\* The cancel request is put back.
LEMMA RestoreCancelRequestStep ==
    ASSUME IInv, NEW w \in Workers, RestoreCancelRequest(w)
    PROVE  IInv'
  <1> PICK r : r = wk[w]
    OBVIOUS
  <1>1. r.pc = "restore" /\ r.pc \notin Loops
    BY DEF RestoreCancelRequest, At, Loops
  <1>2. r \in WorkerState /\ r.p \in Plans
    BY <1>1, WorkerFacts
  <1>3. CASE CanTransition(r.p, "CANCEL_REQUESTED")
    <2>a. PICK x : x = AfterReconcile(r, "CANCEL_REQUESTED", ReportedManagedState(r))
      OBVIOUS
    <2>1. /\ order' = [order EXCEPT ![r.p].st = "CANCEL_REQUESTED"]
          /\ wk' = [wk EXCEPT ![w] = x] /\ UNCHANGED <<pos, trade, ex, sl, placed, faults>>
      BY <1>3, <2>a DEF RestoreCancelRequest, SetState, Become
    <2>2. Continues(r, x)
      BY <1>2, <2>a, AfterReconcileType
    <2>3. QED
      BY <1>1, <1>3, <2>1, <2>2, TransitionAndGo
  <1>4. CASE ~CanTransition(r.p, "CANCEL_REQUESTED")
    <2>a. PICK x : x = Raised(r)
      OBVIOUS
    <2>1. UNCHANGED <<order, pos, trade, ex, sl, placed, faults>> /\ wk' = [wk EXCEPT ![w] = x]
      BY <1>4, <2>a DEF RestoreCancelRequest, Become
    <2>2. Continues(r, x) /\ faults' \in 0..MaxFaults
      BY <1>2, <2>1, <2>a, RaisedType DEF IInv, SharedType
    <2>3. QED
      BY <1>1, <2>1, <2>2, ContinueMoves
  <1>5. QED
    BY <1>3, <1>4

(***************************************************************************)
(* The steps of recover_active_orders, cancel_pending_entries and cancel.  *)
(***************************************************************************)
\* The states a snapshot of the order table holds.
LEMMA SnapshotType ==
    ASSUME SharedType, NEW states
    PROVE  Snapshot(states) \in [Plans -> OrderState \cup {"NONE"}]
  BY DEF Snapshot, SharedType

\* Recovery starts from a snapshot of the active orders.
LEMMA RecoverActiveOrdersStep ==
    ASSUME IInv, NEW w \in Workers, RecoverActiveOrders(w)
    PROVE  IInv'
  <1>1. PICK s : s = Snapshot(ACTIVE_ORDER_STATES)
    OBVIOUS
  <1>2. PICK x : x = [Idle EXCEPT !.pc = "recoverLoop", !.snap = s]
    OBVIOUS
  <1>3. /\ UNCHANGED <<order, pos, trade, ex, sl, placed, faults>> /\ wk' = [wk EXCEPT ![w] = x]
    BY <1>1, <1>2 DEF RecoverActiveOrders, Become
  <1>4. s \in [Plans -> OrderState \cup {"NONE"}] /\ "recoverLoop" \in PCs
    BY <1>1, SnapshotType DEF IInv, PCs
  <1>5. x \in WorkerState
    BY <1>2, <1>4, IdleType, Zenon DEF WorkerState
  <1>6. x.pc = "recoverLoop" /\ x.row = NoRow
    BY <1>2, IdleType DEF WorkerState
  <1>7. x.pc \in Rowless \ Sending /\ x.pc \in Loops /\ faults' \in 0..MaxFaults
    BY <1>3, <1>6 DEF Rowless, Sending, Loops, IInv, SharedType
  <1>8. QED
    BY <1>3, <1>5, <1>6, <1>7, RowlessMoves

\* The cancel pass starts from a snapshot of the pending orders.
LEMMA CancelPendingEntriesStep ==
    ASSUME IInv, NEW w \in Workers, CancelPendingEntries(w)
    PROVE  IInv'
  <1>1. PICK s : s = Snapshot(PENDING_STATES)
    OBVIOUS
  <1>2. PICK x : x = [Idle EXCEPT !.pc = "cancelLoop", !.snap = s]
    OBVIOUS
  <1>3. /\ UNCHANGED <<order, pos, trade, ex, sl, placed, faults>> /\ wk' = [wk EXCEPT ![w] = x]
    BY <1>1, <1>2 DEF CancelPendingEntries, Become
  <1>4. s \in [Plans -> OrderState \cup {"NONE"}] /\ "cancelLoop" \in PCs
    BY <1>1, SnapshotType DEF IInv, PCs
  <1>5. x \in WorkerState
    BY <1>2, <1>4, IdleType, Zenon DEF WorkerState
  <1>6. x.pc = "cancelLoop" /\ x.row = NoRow
    BY <1>2, IdleType DEF WorkerState
  <1>7. x.pc \in Rowless \ Sending /\ x.pc \in Loops /\ faults' \in 0..MaxFaults
    BY <1>3, <1>6 DEF Rowless, Sending, Loops, IInv, SharedType
  <1>8. QED
    BY <1>3, <1>5, <1>6, <1>7, RowlessMoves

\* Taking the next plan of a snapshot.
LEMMA TakePlan ==
    ASSUME NEW r \in WorkerState, NEW p \in Plans
    PROVE  /\ [r EXCEPT !.p = p, !.snap[p] = "NONE"] \in WorkerState
           /\ [r EXCEPT !.p = p, !.snap[p] = "NONE"].p = p
           /\ [r EXCEPT !.p = p, !.snap[p] = "NONE"].row = r.row
  <1>1. PICK s : s = [r.snap EXCEPT ![p] = "NONE"]
    OBVIOUS
  <1>2. r.snap \in [Plans -> OrderState \cup {"NONE"}]
    BY Zenon DEF WorkerState
  <1>3. s \in [Plans -> OrderState \cup {"NONE"}] /\ p \in Plans \cup {NoPlan}
    BY <1>1, <1>2
  <1>4. [r EXCEPT !.p = p, !.snap[p] = "NONE"] = [r EXCEPT !.p = p, !.snap = s]
    BY <1>1
  <1>5. [r EXCEPT !.p = p, !.snap = s] \in WorkerState
    BY <1>3, Zenon DEF WorkerState
  <1>6. QED
    BY <1>4, <1>5 DEF WorkerState

\* Recovery goes to the next order of its snapshot.
LEMMA RecoverNextStep ==
    ASSUME IInv, NEW w \in Workers, RecoverNext(w)
    PROVE  IInv'
  <1> PICK r : r = wk[w]
    OBVIOUS
  <1>1. /\ r.pc = "recoverLoop" /\ UNCHANGED <<order, pos, trade, ex, sl, placed, faults>>
    BY DEF RecoverNext, At
  <1>2. r \in WorkerState /\ r.row = NoRow
    BY <1>1 DEF IInv, WorkersType, WorkersOK, WorkerOK, Rowless
  <1>3. SharedType' /\ faults' \in 0..MaxFaults
    BY <1>1 DEF IInv, SharedType
  <1>4. ASSUME NEW p \in Plans,
               wk' = [wk EXCEPT ![w] = [r EXCEPT !.pc = "lookup", !.p = p, !.lane = "recover",
                                                  !.snap[p] = "NONE"]]
        PROVE  IInv'
    <2>1. PICK y : y = [r EXCEPT !.p = p, !.snap[p] = "NONE"]
      OBVIOUS
    <2>2. PICK x : x = [y EXCEPT !.pc = "lookup", !.lane = "recover"]
      OBVIOUS
    <2>3. wk' = [wk EXCEPT ![w] = x]
      <3>1. x = [r EXCEPT !.pc = "lookup", !.p = p, !.lane = "recover", !.snap[p] = "NONE"]
        BY <1>2, <2>1, <2>2 DEF WorkerState
      <3>2. QED
        BY <1>4, <3>1
    <2>4. y \in WorkerState /\ y.p = p /\ y.row = NoRow
      BY <1>2, <2>1, TakePlan
    <2>5. "lookup" \in PCs /\ "recover" \in Lanes
      BY DEF PCs, Lanes
    <2>6. x \in WorkerState /\ x.pc = "lookup" /\ x.p = p /\ x.row = NoRow
      <3>1. x \in WorkerState
        BY <2>2, <2>4, <2>5, Zenon DEF WorkerState
      <3>2. x.pc = "lookup" /\ x.p = y.p /\ x.row = y.row
        BY <2>2, <2>4 DEF WorkerState
      <3>3. QED
        BY <2>4, <3>1, <3>2
    <2>7. x.pc \in Rowless \ Sending /\ x.p \in Plans
      BY <2>6 DEF Rowless, Sending
    <2>8. QED
      BY <1>1, <1>3, <2>3, <2>6, <2>7, RowlessMoves
  <1>5. CASE wk' = [wk EXCEPT ![w] = Idle]
    BY <1>1, <1>3, <1>5, IdleOK, OnlyWorkerMoves
  <1>6. QED
    BY <1>4, <1>5 DEF RecoverNext, Become

\* One iteration's head; an entry is refused locally only from APPROVED or
\* another state that may still become REJECTED.
LEMMA CancelNextStep ==
    ASSUME IInv, NEW w \in Workers, CancelNext(w)
    PROVE  IInv'
  <1> PICK r : r = wk[w]
    OBVIOUS
  <1>1. /\ r.pc = "cancelLoop" /\ UNCHANGED <<pos, trade, ex, sl, placed, faults>>
    BY DEF CancelNext, At
  <1>2. r \in WorkerState /\ r.row = NoRow
    BY <1>1 DEF IInv, WorkersType, WorkersOK, WorkerOK, Rowless
  <1>3. CASE UNCHANGED order /\ wk' = [wk EXCEPT ![w] = Idle]
    <2>1. SharedType' /\ faults' \in 0..MaxFaults
      BY <1>1, <1>3 DEF IInv, SharedType
    <2>2. QED
      BY <1>1, <1>3, <2>1, IdleOK, OnlyWorkerMoves
  <1>4. ASSUME NEW p \in Plans, NEW y, y = [r EXCEPT !.p = p, !.snap[p] = "NONE"],
               \/ /\ CanTransition(p, "REJECTED") /\ SetState(p, "REJECTED")
                  /\ Become(w, Loop(y, "cancelLoop"))
               \/ /\ UNCHANGED order
                  /\ Become(w, [y EXCEPT !.pc = "lookup", !.lane = "pre"])
               \/ /\ UNCHANGED order
                  /\ Become(w, [y EXCEPT !.pc = "cancel"])
        PROVE  IInv'
    <2>1. y \in WorkerState /\ y.p = p /\ y.row = NoRow
      BY <1>2, <1>4, TakePlan
    <2>2. CASE /\ CanTransition(p, "REJECTED") /\ SetState(p, "REJECTED")
               /\ Become(w, Loop(y, "cancelLoop"))
      <3>1. PICK x : x = Loop(y, "cancelLoop")
        OBVIOUS
      <3>2. order' = [order EXCEPT ![p].st = "REJECTED"] /\ wk' = [wk EXCEPT ![w] = x]
        BY <2>2, <3>1 DEF SetState, Become
      <3>3. x \in WorkerState /\ x.pc = "cancelLoop" /\ x.row = NoRow
        BY <2>1, <3>1, LoopType
      <3>4. SharedType'
        <4>1. SharedType
          BY DEF IInv
        <4>2. QED
          BY <1>1, <2>2, <3>2, <4>1, TransitionType
      <3>5. x.pc \in Rowless \ Sending /\ x.pc \in Loops
        BY <3>3 DEF Rowless, Sending, Loops
      <3>6. WorkerOK(x)'
        BY <3>3, <3>4, <3>5, RowlessOK
      <3>7. QED
        BY <1>1, <2>2, <3>2, <3>3, <3>5, <3>6, TransitionMoves
    <2>3. ASSUME UNCHANGED order, NEW x, wk' = [wk EXCEPT ![w] = x],
                 x \in WorkerState, x.pc \in {"lookup", "cancel"}, x.p = p, x.row = NoRow
          PROVE  IInv'
      <3>1. x.pc \in Rowless \ Sending /\ x.p \in Plans /\ faults' \in 0..MaxFaults
        BY <1>1, <2>3 DEF Rowless, Sending, IInv, SharedType
      <3>2. QED
        BY <1>1, <2>3, <3>1, RowlessMoves
    <2>4. "lookup" \in PCs /\ "cancel" \in PCs /\ "pre" \in Lanes
      BY DEF PCs, Lanes
    <2>5. CASE UNCHANGED order /\ Become(w, [y EXCEPT !.pc = "lookup", !.lane = "pre"])
      <3>1. PICK x : x = [y EXCEPT !.pc = "lookup", !.lane = "pre"]
        OBVIOUS
      <3>2. wk' = [wk EXCEPT ![w] = x]
        BY <2>5, <3>1 DEF Become
      <3>3. x \in WorkerState /\ x.pc = "lookup" /\ x.p = p /\ x.row = NoRow
        <4>1. x \in WorkerState
          BY <2>1, <2>4, <3>1, Zenon DEF WorkerState
        <4>2. x.pc = "lookup" /\ x.p = y.p /\ x.row = y.row
          BY <2>1, <3>1 DEF WorkerState
        <4>3. QED
          BY <2>1, <4>1, <4>2
      <3>4. QED
        BY <2>3, <2>5, <3>2, <3>3
    <2>6. CASE UNCHANGED order /\ Become(w, [y EXCEPT !.pc = "cancel"])
      <3>1. PICK x : x = [y EXCEPT !.pc = "cancel"]
        OBVIOUS
      <3>2. wk' = [wk EXCEPT ![w] = x]
        BY <2>6, <3>1 DEF Become
      <3>3. x \in WorkerState /\ x.pc = "cancel" /\ x.p = p /\ x.row = NoRow
        BY <2>1, <2>4, <3>1, SetPC
      <3>4. QED
        BY <2>3, <2>6, <3>2, <3>3
    <2>7. QED
      BY <1>4, <2>2, <2>5, <2>6
  <1>5. QED
    BY <1>3, <1>4 DEF CancelNext, Become

\* An iteration of the cancel pass that asks the exchange nothing.
LEMMA CancelWithoutRequestStep ==
    ASSUME IInv, NEW w \in Workers, CancelWithoutRequest(w)
    PROVE  IInv'
  <1> PICK r : r = wk[w]
    OBVIOUS
  <1>1. /\ r.pc = "cancel" /\ r.pc \notin Loops
        /\ UNCHANGED <<order, pos, trade, ex, sl, placed, faults>>
    BY DEF CancelWithoutRequest, At, Loops
  <1>2. r \in WorkerState /\ r.p \in Plans /\ r.row = NoRow
    BY <1>1, WorkerFacts DEF WorkerOK, Rowless
  <1>3. PICK x \in {Loop(r, "cancelLoop"), StartLane(r, "cancel")} : wk' = [wk EXCEPT ![w] = x]
    BY DEF CancelWithoutRequest, Become
  <1>4. /\ x \in WorkerState /\ x.row = NoRow
        /\ x.pc \in {"lookup", "cancelLoop"} /\ (x.pc = "lookup" => x.p = r.p)
    BY <1>2, <1>3, LoopType, StartLaneType DEF Lanes
  <1>5. x.pc \in Rowless \ Sending /\ (x.pc \notin Loops => x.p \in Plans) /\ faults' \in 0..MaxFaults
    BY <1>1, <1>2, <1>4 DEF Rowless, Sending, Loops, IInv, SharedType
  <1>6. QED
    BY <1>1, <1>3, <1>4, <1>5, RowlessMoves

\* A cancel request marks a working order; it fills and ends nothing.
LEMMA RequestCancelStep ==
    ASSUME IInv, NEW w \in Workers, NEW p \in Plans, NEW acked, NEW refused,
           RequestCancel(w, p, acked, refused),
           UNCHANGED <<order, pos, trade, sl, placed, faults>>,
           \A x \in {acked, refused} :
              /\ x \in WorkerState /\ x.pc \in Rowless \ Sending /\ x.row = NoRow
              /\ x.pc \notin Loops => x.p \in Plans
    PROVE  IInv'
  <1>1. SharedType /\ SharedOK
    BY DEF IInv
  <1>2. PICK x \in {acked, refused} : wk' = [wk EXCEPT ![w] = x]
    BY DEF RequestCancel, Become
  <1>3. (ex' = [ex EXCEPT ![p].creq = TRUE] /\ ex[p].st = "live") \/ UNCHANGED ex
    BY DEF RequestCancel
  <1>4. /\ ex' \in [Plans -> [st : ExState, filled : 0..Q, creq : BOOLEAN]]
        /\ \A q \in Plans : /\ ex'[q].st = ex[q].st /\ ex'[q].filled = ex[q].filled
                            /\ ex[q].st # "live" => ex'[q] = ex[q]
    <2>1. CASE ex' = [ex EXCEPT ![p].creq = TRUE] /\ ex[p].st = "live"
      BY <1>1, <2>1 DEF SharedType
    <2>2. CASE UNCHANGED ex
      BY <1>1, <2>2 DEF SharedType
    <2>3. QED
      BY <1>3, <2>1, <2>2
  <1>5. SharedType'
    BY <1>1, <1>4 DEF SharedType
  <1>6. SharedOK'
    BY <1>1, <1>4 DEF SharedOK, ExchangeOK, OrderOK
  <1>7. ASSUME NEW q \in Plans PROVE OrderKept(q) /\ ExKept(q)
    <2>1. ex[q].filled \in Nat
      BY <1>1, QAssumption DEF SharedType
    <2>2. QED
      BY <1>4, <2>1 DEF OrderKept, ExKept
  <1>8. WorkerOK(x)'
    BY <1>5, RowlessOK
  <1>9. WorkersType' /\ WorkersOK'
    BY <1>2, <1>5, <1>7, <1>8, WorkerMoves
  <1>10. QED
    BY <1>5, <1>6, <1>9 DEF IInv

\* An iteration of the cancel pass that asks the exchange to cancel.
LEMMA CancelEntryStep ==
    ASSUME IInv, NEW w \in Workers, CancelEntry(w)
    PROVE  IInv'
  <1> PICK r : r = wk[w]
    OBVIOUS
  <1>1. r.pc = "cancel" /\ r.pc \notin Loops
    BY DEF CancelEntry, At, Loops
  <1>2. r \in WorkerState /\ r.p \in Plans /\ r.row = NoRow
    BY <1>1, WorkerFacts DEF WorkerOK, Rowless
  <1>3. PICK y : y = [r EXCEPT !.pc = "cancelAcked"]
    OBVIOUS
  <1>4. PICK z : z = Loop(r, "cancelLoop")
    OBVIOUS
  <1>5. RequestCancel(w, r.p, y, z) /\ UNCHANGED <<order, pos, trade, sl, placed, faults>>
    BY <1>3, <1>4 DEF CancelEntry
  <1>6. "cancelAcked" \in PCs
    BY DEF PCs
  <1>7. y \in WorkerState /\ y.pc = "cancelAcked" /\ y.p = r.p /\ y.row = NoRow
    BY <1>2, <1>3, <1>6, SetPC
  <1>8. z \in WorkerState /\ z.pc = "cancelLoop" /\ z.row = NoRow
    BY <1>2, <1>4, LoopType
  <1>9. \A x \in {y, z} : /\ x \in WorkerState /\ x.pc \in Rowless \ Sending /\ x.row = NoRow
                          /\ x.pc \notin Loops => x.p \in Plans
    BY <1>2, <1>7, <1>8 DEF Rowless, Sending, Loops
  <1>10. QED
    BY <1>2, <1>5, <1>9, RequestCancelStep

\* The cancel of a single order.
LEMMA CancelStep ==
    ASSUME IInv, NEW w \in Workers, NEW p \in Plans, Cancel(w, p)
    PROVE  IInv'
  <1>1. PICK y : y = [Idle EXCEPT !.pc = "cancelAcked", !.p = p]
    OBVIOUS
  <1>2. RequestCancel(w, p, y, Idle) /\ UNCHANGED <<order, pos, trade, sl, placed, faults>>
    BY <1>1 DEF Cancel
  <1>3. "cancelAcked" \in PCs /\ p \in Plans \cup {NoPlan}
    BY DEF PCs
  <1>4. y \in WorkerState
    BY <1>1, <1>3, IdleType, Zenon DEF WorkerState
  <1>5. y.pc = "cancelAcked" /\ y.p = p /\ y.row = NoRow
    BY <1>1, IdleType DEF WorkerState
  <1>6. \A x \in {y, Idle} : /\ x \in WorkerState /\ x.pc \in Rowless \ Sending /\ x.row = NoRow
                             /\ x.pc \notin Loops => x.p \in Plans
    BY <1>4, <1>5, IdleType DEF Rowless, Sending, Loops
  <1>7. QED
    BY <1>2, <1>6, RequestCancelStep

\* An acknowledged cancel is recorded.
LEMMA RecordCancelAckStep ==
    ASSUME IInv, NEW w \in Workers, RecordCancelAck(w)
    PROVE  IInv'
  <1> PICK r : r = wk[w]
    OBVIOUS
  <1>1. r.pc = "cancelAcked" /\ r.pc \notin Loops
    BY DEF RecordCancelAck, At, Loops
  <1>2. r \in WorkerState /\ r.p \in Plans /\ r.row = NoRow
    BY <1>1, WorkerFacts DEF WorkerOK, Rowless
  <1>3. CASE CanTransition(r.p, "CANCEL_REQUESTED")
    <2>1. PICK x : x = StartLane(r, "cancel")
      OBVIOUS
    <2>2. /\ order' = [order EXCEPT ![r.p].st = "CANCEL_REQUESTED"]
          /\ wk' = [wk EXCEPT ![w] = x] /\ UNCHANGED <<pos, trade, ex, sl, placed, faults>>
      BY <1>3, <2>1 DEF RecordCancelAck, SetState, Become
    <2>3. x \in WorkerState /\ x.pc = "lookup" /\ x.p = r.p /\ x.row = NoRow
      BY <1>2, <2>1, StartLaneType DEF Lanes
    <2>4. x.pc \in Rowless \ Sending /\ x.p \in Plans
      BY <1>2, <2>3 DEF Rowless, Sending
    <2>5. QED
      BY <1>1, <1>3, <2>2, <2>3, <2>4, TransitionAndGo
  <1>4. CASE ~CanTransition(r.p, "CANCEL_REQUESTED")
    <2>1. PICK x : x = Loop(r, "cancelLoop")
      OBVIOUS
    <2>2. UNCHANGED <<order, pos, trade, ex, sl, placed, faults>> /\ wk' = [wk EXCEPT ![w] = x]
      BY <1>4, <2>1 DEF RecordCancelAck, Become
    <2>3. x \in WorkerState /\ x.pc = "cancelLoop" /\ x.row = NoRow
      BY <1>2, <2>1, LoopType
    <2>4. x.pc \in Rowless \ Sending /\ x.pc \in Loops /\ faults' \in 0..MaxFaults
      BY <2>2, <2>3 DEF Rowless, Sending, Loops, IInv, SharedType
    <2>5. QED
      BY <2>2, <2>3, <2>4, RowlessMoves
  <1>5. QED
    BY <1>3, <1>4

\* The cancel lane runs out with the order still working.
LEMMA CancelLaneExhaustedStep ==
    ASSUME IInv, NEW w \in Workers, CancelLaneExhausted(w)
    PROVE  IInv'
  <1> PICK r : r = wk[w]
    OBVIOUS
  <1>1. r.pc = "exhausted" /\ r.pc \notin Loops
    BY DEF CancelLaneExhausted, At, Loops
  <1>2. r \in WorkerState /\ r.p \in Plans
        /\ order[r.p] \in [st : OrderState, id : BOOLEAN, filled : 0..Q]
    BY <1>1, WorkerFacts
  <1>3. PICK x : x = Loop(r, "cancelLoop")
    OBVIOUS
  <1>4. wk' = [wk EXCEPT ![w] = x] /\ UNCHANGED <<pos, trade, ex, sl, placed, faults>>
    BY <1>3 DEF CancelLaneExhausted, Become
  <1>5. x \in WorkerState /\ x.pc = "cancelLoop" /\ x.row = NoRow
    BY <1>2, <1>3, LoopType
  <1>6. x.pc \in Rowless \ Sending /\ x.pc \in Loops /\ faults' \in 0..MaxFaults
    BY <1>4, <1>5 DEF Rowless, Sending, Loops, IInv, SharedType
  <1>7. CASE order[r.p].st \in {"SUBMITTED", "OPEN", "PARTIALLY_FILLED", "CANCEL_REQUESTED"}
    <2>1. order' = [order EXCEPT ![r.p].st = "CANCEL_REQUESTED"]
      BY <1>7 DEF CancelLaneExhausted, SetState
    <2>2. CanTransition(r.p, "CANCEL_REQUESTED")
      BY <1>7 DEF CanTransition, ALLOWED_TRANSITIONS, OrderState
    <2>3. QED
      BY <1>1, <1>4, <1>5, <1>6, <2>1, <2>2, TransitionAndGo
  <1>8. CASE order[r.p].st \notin {"SUBMITTED", "OPEN", "PARTIALLY_FILLED", "CANCEL_REQUESTED"}
    <2>1. UNCHANGED order
      BY <1>8 DEF CancelLaneExhausted
    <2>2. QED
      BY <1>4, <1>5, <1>6, <2>1, RowlessMoves
  <1>9. QED
    BY <1>7, <1>8

(***************************************************************************)
(* A process dies; the exchange moves.                                     *)
(***************************************************************************)
\* A process dies and forgets what it was doing, never what it wrote.
LEMMA CrashStep ==
    ASSUME IInv, NEW w \in Workers, Crash(w)
    PROVE  IInv'
  <1>1. UNCHANGED <<order, pos, trade, ex, sl, placed>> /\ wk' = [wk EXCEPT ![w] = Idle]
    BY DEF Crash, Become
  <1>2. faults' \in 0..MaxFaults
    BY MaxFaultsAssumption DEF Crash, IInv, SharedType
  <1>3. SharedType'
    BY <1>1, <1>2 DEF IInv, SharedType
  <1>4. QED
    BY <1>1, <1>2, <1>3, IdleOK, OnlyWorkerMoves

\* A step of the exchange fills at most one lot more and changes no order that ended.
LEMMA ExchangeStep ==
    ASSUME IInv, NEW p \in Plans, Exchange(p)
    PROVE  IInv'
  <1>1. SharedType
    BY DEF IInv
  <1>2. /\ ex[p] \in [st : ExState, filled : 0..Q, creq : BOOLEAN] /\ ExchangeOK(p)
        /\ sl \in [Plans -> BOOLEAN]
    BY DEF IInv, SharedType, SharedOK
  <1>3. ex[p].filled \in 0..Q
    BY <1>2
  <1>4. CASE ExArrive(p)
    <2>1. PICK st \in {"live", "none"} : ex' = [ex EXCEPT ![p].st = st]
      BY <1>4 DEF ExArrive
    <2>2. PICK e : e = [ex[p] EXCEPT !.st = st]
      OBVIOUS
    <2>3. /\ ex[p].st = "transit" /\ UNCHANGED <<order, pos, trade, sl, placed, wk, faults>>
          /\ ex' = [ex EXCEPT ![p] = e]
      BY <1>4, <2>1, <2>2 DEF ExArrive
    <2>4. /\ e \in [st : ExState, filled : 0..Q, creq : BOOLEAN]
          /\ e.st = st /\ e.filled = ex[p].filled /\ e.filled = 0
      BY <1>2, <2>2, <2>3 DEF ExState, ExchangeOK
    <2>5. placed[p] = 0 => e.st = "none"
      BY <1>2, <2>3 DEF ExchangeOK
    <2>6. /\ sl' \in [Plans -> BOOLEAN] /\ ex[p].filled <= e.filled
          /\ e.st \in {"live", "none"} /\ e.filled < Q
      BY <1>2, <1>3, <2>1, <2>3, <2>4, QAssumption
    <2>7. QED
      BY <2>3, <2>4, <2>5, <2>6, ExchangeMoves
  <1>5. CASE ExFill(p)
    <2>a. PICK st \in {"filled", "live"} : st = IF ex[p].filled + 1 = Q THEN "filled" ELSE "live"
      OBVIOUS
    <2>1. PICK e : e = [ex[p] EXCEPT !.filled = ex[p].filled + 1, !.st = st]
      OBVIOUS
    <2>2. /\ ex[p].st = "live" /\ UNCHANGED <<order, pos, trade, placed, wk, faults>>
          /\ ex' = [ex EXCEPT ![p] = e] /\ sl' = [sl EXCEPT ![p] = FALSE]
      BY <1>5, <2>1, <2>a DEF ExFill
    <2>3. ex[p].filled < Q
      BY <1>2, <2>2 DEF ExchangeOK
    <2>4. /\ e \in [st : ExState, filled : 0..Q, creq : BOOLEAN]
          /\ e.filled = ex[p].filled + 1 /\ e.st = st
      <3>1. st \in ExState /\ ex[p].filled + 1 \in 0..Q
        BY <1>3, <2>3, QAssumption DEF ExState
      <3>2. QED
        BY <1>2, <2>1, <3>1
    <2>5. placed[p] # 0 /\ sl' \in [Plans -> BOOLEAN]
      BY <1>2, <2>2 DEF ExchangeOK
    <2>6. /\ ex[p].filled <= e.filled /\ e.st \in {"live", "filled"}
          /\ (e.st = "live" => e.filled < Q) /\ (e.st = "filled" => e.filled = Q)
      BY <1>3, <2>3, <2>4, <2>a, QAssumption
    <2>7. QED
      BY <2>2, <2>4, <2>5, <2>6, ExchangeMoves
  <1>6. CASE ExCancel(p) \/ ExReject(p)
    <2>1. PICK st \in {"canceled", "rejected"} :
              ex' = [ex EXCEPT ![p].st = st] /\ (st = "rejected" => ex[p].filled = 0)
      BY <1>6 DEF ExCancel, ExReject
    <2>2. PICK e : e = [ex[p] EXCEPT !.st = st]
      OBVIOUS
    <2>3. /\ ex[p].st = "live" /\ UNCHANGED <<order, pos, trade, sl, placed, wk, faults>>
          /\ ex' = [ex EXCEPT ![p] = e]
      BY <1>6, <2>1, <2>2 DEF ExCancel, ExReject
    <2>4. /\ e \in [st : ExState, filled : 0..Q, creq : BOOLEAN]
          /\ e.st = st /\ e.filled = ex[p].filled
      BY <1>2, <2>1, <2>2 DEF ExState
    <2>5. placed[p] # 0
      BY <1>2, <2>3 DEF ExchangeOK
    <2>6. /\ sl' \in [Plans -> BOOLEAN] /\ ex[p].filled <= e.filled
          /\ e.st \in {"canceled", "rejected"} /\ (e.st = "rejected" => e.filled = 0)
          /\ e.filled < Q
      BY <1>2, <1>3, <2>1, <2>3, <2>4, QAssumption DEF ExchangeOK
    <2>7. QED
      BY <2>3, <2>4, <2>5, <2>6, ExchangeMoves
  <1>7. CASE ExProtect(p)
    <2>1. PICK e : e = ex[p]
      OBVIOUS
    <2>2. /\ UNCHANGED <<order, pos, trade, placed, wk, faults>>
          /\ ex' = [ex EXCEPT ![p] = e] /\ sl' = [sl EXCEPT ![p] = ~sl[p]]
      BY <1>1, <1>7, <2>1 DEF ExProtect, SharedType
    <2>3. sl' \in [Plans -> BOOLEAN]
      BY <1>2, <2>2
    <2>4. /\ e \in [st : ExState, filled : 0..Q, creq : BOOLEAN] /\ ex[p].filled <= e.filled
          /\ (placed[p] = 0 => e.st = "none")
          /\ (e.st \in {"none", "transit", "rejected"} => e.filled = 0)
          /\ (e.st \in {"live", "canceled"} => e.filled < Q) /\ (e.st = "filled" => e.filled = Q)
      BY <1>2, <1>3, <2>1, QAssumption DEF ExchangeOK
    <2>5. QED
      BY <2>1, <2>2, <2>3, <2>4, ExchangeMoves
  <1>8. QED
    BY <1>4, <1>5, <1>6, <1>7 DEF Exchange

(***************************************************************************)
(* The invariant and what follows from it.                                 *)
(***************************************************************************)
\* The empty database satisfies the invariant.
LEMMA InitIInv == Init => IInv
  <1> SUFFICES ASSUME Init PROVE IInv
    OBVIOUS
  <1>1. SharedType
    BY QAssumption, MaxFaultsAssumption DEF Init, SharedType, OrderState, PositionRow, ExState
  <1>2. SharedOK
    BY QAssumption DEF Init, SharedOK, ExchangeOK, OrderOK
  <1>3. \A w \in Workers : wk[w] = Idle
    BY DEF Init
  <1>4. WorkersType
    BY <1>3, IdleType DEF Init, WorkersType, Loops
  <1>5. WorkersOK
    BY <1>3, IdleType, NoPlanAssumption DEF WorkersOK, WorkerOK, OneSender, Rowless
  <1>6. QED
    BY <1>1, <1>2, <1>4, <1>5 DEF IInv

\* Every step of every worker and of the exchange preserves the invariant.
LEMMA NextIInv == IInv /\ [Next]_vars => IInv'
  <1> SUFFICES ASSUME IInv, [Next]_vars PROVE IInv'
    OBVIOUS
  <1>1. ASSUME NEW w \in Workers, WorkerStep(w) PROVE IInv'
    BY <1>1, MarkSubmittedStep, ExecuteBlockedStep, ExecutePlaceStep, RecordRejectedStep,
       RecordUnknownStep, RecordAckStep, LookupMissedStep, LookupFoundStep,
       ApplyRemoteOrderStep, ProtectionStateStep, RecordProtectionStep,
       UpsertManagedPositionStep, RecordEntryFillStep, RestoreCancelRequestStep,
       RecoverNextStep, CancelNextStep, CancelWithoutRequestStep, CancelEntryStep,
       RecordCancelAckStep, CancelLaneExhaustedStep
    DEF WorkerStep
  <1>2. ASSUME NEW w \in Workers, Task(w) PROVE IInv'
    BY <1>2, RecoverActiveOrdersStep, CancelPendingEntriesStep, SubmitStep, CancelStep DEF Task
  <1>3. ASSUME NEW w \in Workers, Failure(w) PROVE IInv'
    BY <1>3, LookupUnrecognisedStep, ProtectionRaisedStep, RecordEntryFillNoAverageStep, CrashStep
    DEF Failure
  <1>4. ASSUME NEW p \in Plans, RejectPlan(p) \/ Exchange(p) PROVE IInv'
    BY <1>4, RejectPlanStep, ExchangeStep
  <1>5. CASE UNCHANGED vars
    BY <1>5 DEF vars, IInv, SharedType, WorkersType, SharedOK, WorkersOK, ExchangeOK,
       OrderOK, WorkerOK, RowOK, OneSender
  <1>6. QED
    BY <1>1, <1>2, <1>3, <1>4, <1>5 DEF Next

\* The inductive invariant: what the tables, the exchange and every process in
\* the middle of a call have in common.
THEOREM Invariance == Spec => []IInv
  BY InitIInv, NextIInv, PTL DEF Spec

\* Type correctness of the tables and of every worker.
THEOREM TypeCorrect == Spec => []TypeOK
  <1>1. IInv => TypeOK
    BY DEF IInv, SharedType, WorkersType, Loops, TypeOK
  <1>2. QED
    BY <1>1, Invariance, PTL

\* However many processes share the database and wherever they die, an entry is
\* sent to the exchange at most once.
THEOREM EntryPlacedOnce == Spec => []PlacedOnce
  <1>1. IInv => PlacedOnce
    BY DEF IInv, SharedOK, OrderOK, PlacedOnce
  <1>2. QED
    BY <1>1, Invariance, PTL

\* CANCELLED, FILLED and POSITION_UNPROTECTED are written only for an order the
\* exchange has ended that way, with the quantity it filled.
THEOREM TerminalStatesAreRemote == Spec => []TerminalIsRemote
  <1>1. IInv => TerminalIsRemote
    BY DEF IInv, SharedOK, OrderOK, TerminalIsRemote
  <1>2. QED
    BY <1>1, Invariance, PTL

\* A managed position and its trade never exceed what the entry bought.
THEOREM PositionsWithinFills == Spec => []ManagedWithinFills
  <1>1. IInv => ManagedWithinFills
    BY DEF IInv, SharedOK, OrderOK, ManagedWithinFills
  <1>2. QED
    BY <1>1, Invariance, PTL

(***************************************************************************)
(* Part two: one process.                                                  *)
(***************************************************************************)
\* One core thread: service.py's ThreadPoolExecutor(max_workers=1).
OneProcess == \A v, w \in Workers : v = w

\* Between the first write of _apply_remote_order and its last.
Busy == {"protect", "verify", "upsert", "record"}

\* States of a worker that owes a plan nothing.
Quiet == {"idle", "recoverLoop", "cancelLoop", "lookup", "cancel", "exhausted"}

(***************************************************************************)
(* The inductive invariant of one process, on top of IInv.                 *)
(***************************************************************************)
\* An order row is behind the exchange, never ahead of it, and REJECTED only
\* for an order the exchange does not have.
TableOK(p) ==
    /\ order[p].st \in {"PLANNED", "APPROVED", "REJECTED"} => order[p].filled = 0
    /\ order[p].st = "REJECTED" => ex[p].st \in {"none", "rejected"}
    /\ order[p].st = "PARTIALLY_FILLED" => order[p].filled > 0
    /\ order[p].filled <= ex[p].filled

\* _submit: the row is where its only writer left it.
SubmitOK(r) ==
    /\ r.pc = "approved" => order[r.p].st = "APPROVED"
    /\ r.pc \in {"send", "rejected", "unknown", "acked"} =>
          order[r.p].st = "SUBMITTED" /\ order[r.p].filled = 0
    /\ r.pc = "rejected" => ex[r.p].st = "none"

\* A row just looked up is at least as new as the three tables, unless it came
\* without a recognised state and without fills.
FreshOK(r) ==
    r.pc = "apply" =>
        /\ order[r.p].st \notin {"PLANNED", "APPROVED"}
        /\ order[r.p].st \in {"FILLED", "POSITION_UNPROTECTED"} => r.row.st \in {"filled", "other"}
        /\ order[r.p].st = "CANCELLED" => r.row.st \in {"canceled", "other"}
        /\ order[r.p].st = "REJECTED" =>
              r.row.st = "rejected" \/ (r.row.st = "other" /\ r.row.filled = 0)
        /\ r.row.st = "rejected" => ex[r.p].st = "rejected"
        /\ r.row.st # "none"
        /\ r.row.st # "other" \/ r.row.filled > 0 =>
              /\ order[r.p].filled <= r.row.filled
              /\ pos[r.p].qty <= r.row.filled /\ trade[r.p] <= r.row.filled

\* _apply_remote_order: the order table has the row, the other tables follow.
ApplyOK(r) ==
    /\ r.pc \in Busy => /\ order[r.p].filled = r.row.filled
                        /\ trade[r.p] <= r.row.filled /\ pos[r.p].qty <= r.row.filled
    /\ r.pc \in {"protect", "verify"} => order[r.p].st = RemoteState(r)
    /\ r.pc \in {"upsert", "record"} => order[r.p].st = LifecycleState(r)
    /\ r.pc = "record" => pos[r.p].qty = r.row.filled /\ pos[r.p].prot = r.prot

\* The cancel side: what a cancel that is being recorded, or that was found
\* recorded, says of the row.
CancelOK(r) ==
    /\ r.pc = "restore" => order[r.p].st \in {"SUBMITTED", "OPEN", "PARTIALLY_FILLED"}
    /\ r.pc = "cancelAcked" =>
          order[r.p].st \in (ACTIVE_ORDER_STATES \ {"APPROVED"}) \cup {"CLOSED"}
    /\ r.was = TRUE /\ r.pc = "apply" => order[r.p].st = "CANCEL_REQUESTED"
    /\ r.was = TRUE => r.pc \in Busy \cup {"apply", "restore", "exhausted"}
    /\ r.was = TRUE /\ r.pc = "exhausted" =>
          order[r.p].st \notin {"PLANNED", "APPROVED", "SUBMISSION_UNKNOWN"}

\* What store.active_orders() said of an unsent entry is still true.
SnapOK(r) ==
    /\ \A p \in Plans : r.snap[p] = "APPROVED" => order[p].st = "APPROVED"
    /\ r.p \in Plans => r.snap[r.p] # "APPROVED"

\* All of it about one worker.
CallerOK(r) == SubmitOK(r) /\ FreshOK(r) /\ ApplyOK(r) /\ CancelOK(r) /\ SnapOK(r)

\* The three tables agree about a plan.
Managed(p) ==
    /\ order[p].filled > 0 => pos[p].qty = order[p].filled /\ trade[p] = order[p].filled
    /\ order[p].st = "FILLED" => pos[p].prot = TRUE
    /\ order[p].st = "POSITION_UNPROTECTED" => pos[p].prot = FALSE

\* They do, as long as nothing failed, except while one of them is written.
ManagedOK ==
    faults = 0 =>
        \A p \in Plans : \/ Managed(p)
                         \/ \E w \in Workers : wk[w].pc \in Busy /\ wk[w].p = p

\* The tables follow the exchange, and the workers their tables.
FollowInv ==
    /\ \A p \in Plans : TableOK(p)
    /\ \A w \in Workers : CallerOK(wk[w])
    /\ ManagedOK

\* Nobody is in the middle of a row that is CLOSED: a row is closed while the
\* process is idle, and none is taken up afterwards, except by the operator's
\* cancel of an order that the exchange still works on.  An idle process has
\* no plan and no list.
OpenOK(r) ==
    /\ \A p \in Plans : r.snap[p] # "NONE" => order[p].st # "CLOSED"
    /\ r.p \in Plans /\ r.pc # "cancelAcked" => order[r.p].st # "CLOSED"
    /\ r.pc = "idle" => r.p = NoPlan /\ r.snap = NoSnap

\* What one process alone keeps, beside IInv.
SoloInv ==
    /\ FollowInv
    /\ \A w \in Workers : OpenOK(wk[w])

(***************************************************************************)
(* How a step keeps it.                                                    *)
(***************************************************************************)
\* One worker takes the record x.
LEMMA SoloMoves ==
    ASSUME IInv, SoloInv, OneProcess, NEW w \in Workers, NEW x,
           wk' = [wk EXCEPT ![w] = x],
           \A p \in Plans : TableOK(p)', CallerOK(x)',
           faults' = 0 => \A p \in Plans : Managed(p)' \/ (x.pc \in Busy /\ x.p = p)
    PROVE  FollowInv'
<1>1. wk'[w] = x
  BY DEF IInv, WorkersType
<1>2. \A v \in Workers : v = w
  BY DEF OneProcess
<1>3. \A v \in Workers : CallerOK(wk[v])'
  <2> SUFFICES ASSUME NEW v \in Workers PROVE CallerOK(wk[v])'
    OBVIOUS
  <2>1. wk'[v] = x
    BY <1>1, <1>2
  <2> QED
    BY <2>1 DEF CallerOK, SubmitOK, FreshOK, ApplyOK, CancelOK, SnapOK
<1>4. ManagedOK'
  BY <1>1 DEF ManagedOK
<1> QED
  BY <1>3, <1>4 DEF SoloInv, FollowInv

\* What is known of the worker.
LEMMA SoloFacts ==
    ASSUME IInv, SoloInv, OneProcess, NEW w \in Workers, NEW r, r = wk[w]
    PROVE  /\ r \in WorkerState /\ CallerOK(r)
           /\ \A p \in Plans : TableOK(p)
           /\ faults = 0 => \A p \in Plans : Managed(p) \/ (r.pc \in Busy /\ r.p = p)
<1>1. r \in WorkerState
  BY DEF IInv, WorkersType
<1>2. CallerOK(r) /\ \A p \in Plans : TableOK(p)
  BY DEF SoloInv, FollowInv
<1>3. faults = 0 => \A p \in Plans : Managed(p) \/ (r.pc \in Busy /\ r.p = p)
  BY DEF SoloInv, FollowInv, ManagedOK, OneProcess
<1> QED
  BY <1>1, <1>2, <1>3

\* A record that owes nothing needs only a true snapshot.
LEMMA QuietCaller ==
    ASSUME NEW x, x.pc \in Quiet,
           x.was = TRUE => x.pc = "exhausted"
                    /\ order'[x.p].st \notin {"PLANNED", "APPROVED", "SUBMISSION_UNKNOWN"},
           SnapOK(x)'
    PROVE  CallerOK(x)'
<1>1. /\ x.pc \notin Busy
      /\ x.pc \notin {"approved", "send", "rejected", "unknown", "acked", "apply", "restore",
                      "cancelAcked", "protect", "verify", "upsert", "record"}
  BY DEF Quiet, Busy
<1>2. (SubmitOK(x) /\ FreshOK(x))'
  BY <1>1 DEF SubmitOK, FreshOK
<1>3. ApplyOK(x)'
  BY <1>1 DEF ApplyOK
<1>4. CancelOK(x)'
  BY <1>1 DEF CancelOK
<1> QED
  BY <1>2, <1>3, <1>4 DEF CallerOK

\* No table moves.
LEMMA QuietMoves ==
    ASSUME IInv, SoloInv, OneProcess, NEW w \in Workers, NEW x,
           wk' = [wk EXCEPT ![w] = x], UNCHANGED <<order, pos, trade, ex>>, CallerOK(x)',
           faults' = 0 => /\ faults = 0
                          /\ wk[w].pc \in Busy => x.pc \in Busy /\ x.p = wk[w].p
    PROVE  FollowInv'
<1>1. /\ \A p \in Plans : TableOK(p)
      /\ faults = 0 => \A p \in Plans : Managed(p) \/ (wk[w].pc \in Busy /\ wk[w].p = p)
  BY SoloFacts
<1>2. \A p \in Plans : TableOK(p)'
  BY <1>1 DEF TableOK
<1>3. \A p \in Plans : Managed(p) => Managed(p)'
  BY DEF Managed
<1>4. faults' = 0 => \A p \in Plans : Managed(p)' \/ (x.pc \in Busy /\ x.p = p)
  BY <1>1, <1>3
<1> QED
  BY <1>2, <1>4, SoloMoves

\* One order row changes its state, to one that says nothing of protection.
LEMMA StateMoves ==
    ASSUME IInv, SoloInv, OneProcess, NEW w \in Workers, NEW x,
           wk' = [wk EXCEPT ![w] = x], wk[w].pc \notin Busy, CallerOK(x)',
           UNCHANGED <<pos, trade, ex, faults>>, NEW p \in Plans,
           \A q \in Plans \ {p} : order'[q] = order[q],
           order'[p].filled = order[p].filled,
           order'[p].st \notin {"PLANNED", "FILLED", "POSITION_UNPROTECTED",
                                "PARTIALLY_FILLED"},
           order'[p].st \in {"APPROVED", "REJECTED"} => order[p].filled = 0,
           order'[p].st = "REJECTED" => ex[p].st \in {"none", "rejected"}
    PROVE  FollowInv'
<1>1. /\ \A q \in Plans : TableOK(q)
      /\ faults = 0 => \A q \in Plans : Managed(q)
  BY SoloFacts
<1>2. ASSUME NEW q \in Plans PROVE TableOK(q)'
  <2>1. CASE q = p
    BY <1>1, <2>1 DEF TableOK
  <2>2. CASE q # p
    BY <1>1, <2>2 DEF TableOK
  <2> QED
    BY <2>1, <2>2
<1>3. ASSUME NEW q \in Plans, Managed(q) PROVE Managed(q)'
  <2>1. CASE q = p
    BY <1>3, <2>1 DEF Managed
  <2>2. CASE q # p
    BY <1>3, <2>2 DEF Managed
  <2> QED
    BY <2>1, <2>2
<1> QED
  BY <1>1, <1>2, <1>3, SoloMoves

\* transition_order's UPDATE changes the state of one row.
LEMMA StateSet ==
    ASSUME SharedType, NEW p \in Plans, NEW st, order' = [order EXCEPT ![p].st = st]
    PROVE  /\ order'[p].st = st /\ order'[p].filled = order[p].filled
           /\ order'[p].id = order[p].id
           /\ \A q \in Plans \ {p} : order'[q] = order[q]
<1>1. order[p] \in [st : OrderState, id : BOOLEAN, filled : 0..Q]
  BY DEF SharedType
<1> QED
  BY <1>1 DEF SharedType

\* A snapshot stays true when the row that changes is none of its.
LEMMA SnapMoves ==
    ASSUME NEW r, NEW x, SnapOK(r), NEW p \in Plans,
           \A q \in Plans \ {p} : order'[q] = order[q],
           x.snap[p] # "APPROVED" \/ order'[p].st = "APPROVED",
           \A q \in Plans : x.snap[q] = "APPROVED" => r.snap[q] = "APPROVED",
           x.p \in Plans => x.snap[x.p] # "APPROVED"
    PROVE  SnapOK(x)'
<1>1. \A q \in Plans : x.snap[q] = "APPROVED" => order'[q].st = "APPROVED"
  <2> SUFFICES ASSUME NEW q \in Plans, x.snap[q] = "APPROVED" PROVE order'[q].st = "APPROVED"
    OBVIOUS
  <2>1. CASE q = p
    BY <2>1
  <2>2. CASE q # p
    BY <2>2 DEF SnapOK
  <2> QED
    BY <2>1, <2>2
<1> QED
  BY <1>1 DEF SnapOK

(***************************************************************************)
(* The end of a reconcile.                                                 *)
(***************************************************************************)
\* A worker that leaves or repeats a reconcile forgets the cancel request it
\* found, or goes to the end of the cancel lane with it.
Leaves(r, x) ==
    /\ x.pc \in Quiet
    /\ x.was = TRUE => x.pc = "exhausted" /\ r.was = TRUE /\ x.p = r.p
    /\ x.snap = r.snap \/ x.snap = NoSnap
    /\ x.p = r.p \/ x.p = NoPlan
    /\ x.pc = "idle" => x.p = NoPlan /\ x.snap = NoSnap

\* An idle worker has left everything.
LEMMA IdleLeaves ==
    ASSUME NEW r
    PROVE  Leaves(r, Idle)
<1>1. /\ Idle.pc = "idle" /\ Idle.was = FALSE /\ Idle.snap = NoSnap /\ Idle.p = NoPlan
  BY DEF Idle
<1> QED
  BY <1>1 DEF Leaves, Quiet

\* So has one between two plans of its pass, which keeps its list.
LEMMA LoopLeaves ==
    ASSUME NEW r \in WorkerState, NEW pc \in {"recoverLoop", "cancelLoop"}
    PROVE  /\ Leaves(r, Loop(r, pc)) /\ Loop(r, pc).was = FALSE /\ Loop(r, pc).pc = pc
           /\ Loop(r, pc).p = NoPlan /\ Loop(r, pc).snap = r.snap
<1>1. PICK x : x = [Idle EXCEPT !.pc = pc, !.snap = r.snap]
  OBVIOUS
<1>2. x.pc = pc /\ x.was = FALSE /\ x.snap = r.snap /\ x.p = NoPlan
  BY <1>1 DEF Idle
<1>3. Loop(r, pc) = x
  BY <1>1 DEF Loop
<1> QED
  BY <1>2, <1>3 DEF Leaves, Quiet

\* The next lookup starts afresh.
LEMMA AgainLeaves ==
    ASSUME NEW r \in WorkerState, NEW x, Leaves(r, x)
    PROVE  Leaves(r, AgainOr(r, x))
<1>1. CASE r.n > 1
  <2>1. PICK y : y = [r EXCEPT !.pc = "lookup", !.n = r.n - 1, !.row = NoRow,
                               !.was = FALSE, !.prot = FALSE]
    OBVIOUS
  <2>2. y.pc = "lookup" /\ y.was = FALSE /\ y.snap = r.snap /\ y.p = r.p
    BY <2>1 DEF WorkerState
  <2>3. AgainOr(r, x) = y
    BY <1>1, <2>1 DEF AgainOr
  <2> QED
    BY <2>2, <2>3 DEF Leaves, Quiet
<1>2. CASE ~(r.n > 1)
  BY <1>2 DEF AgainOr
<1> QED
  BY <1>1, <1>2

\* Whatever reconcile_plan returned, its caller goes on like this.
LEMMA AfterReconcileLeaves ==
    ASSUME NEW r \in WorkerState, NEW st, NEW mng
    PROVE  Leaves(r, AfterReconcile(r, st, mng))
<1>1. Leaves(r, Idle) /\ Leaves(r, Loop(r, "cancelLoop")) /\ Leaves(r, Loop(r, "recoverLoop"))
  BY IdleLeaves, LoopLeaves
<1>2. Leaves(r, [r EXCEPT !.pc = "exhausted"])
  <2>1. PICK y : y = [r EXCEPT !.pc = "exhausted"]
    OBVIOUS
  <2>2. y.pc = "exhausted" /\ y.was = r.was /\ y.snap = r.snap /\ y.p = r.p
    BY <2>1 DEF WorkerState
  <2> QED
    BY <2>1, <2>2 DEF Leaves, Quiet
<1>3. Leaves(r, [r EXCEPT !.pc = "cancel", !.lane = "none", !.row = NoRow,
                          !.was = FALSE, !.prot = FALSE])
  <2>1. PICK y : y = [r EXCEPT !.pc = "cancel", !.lane = "none", !.row = NoRow,
                               !.was = FALSE, !.prot = FALSE]
    OBVIOUS
  <2>2. y.pc = "cancel" /\ y.was = FALSE /\ y.snap = r.snap /\ y.p = r.p
    BY <2>1 DEF WorkerState
  <2> QED
    BY <2>1, <2>2 DEF Leaves, Quiet
<1>4. Leaves(r, AgainOr(r, Idle))
  BY <1>1, AgainLeaves
<1>5. Leaves(r, AgainOr(r, IF st \in Settled \cup {"POSITION_UNPROTECTED"}
                           THEN Loop(r, "cancelLoop")
                           ELSE [r EXCEPT !.pc = "exhausted"]))
  BY <1>1, <1>2, AgainLeaves
<1> QED
  BY <1>1, <1>3, <1>4, <1>5, Zenon DEF AfterReconcile

\* A reconcile that raised is left like one that ended.
LEMMA RaisedLeaves ==
    ASSUME NEW r \in WorkerState
    PROVE  Leaves(r, Raised(r))
  BY AfterReconcileLeaves, IdleLeaves, Zenon DEF Raised

\* Who leaves a reconcile owes nothing.
LEMMA LeavesOK ==
    ASSUME IInv, SoloInv, OneProcess, NEW w \in Workers, NEW r, r = wk[w], r.p \in Plans,
           NEW x, Leaves(r, x),
           \A q \in Plans \ {r.p} : order'[q] = order[q],
           r.was = TRUE => order'[r.p].st \notin {"PLANNED", "APPROVED", "SUBMISSION_UNKNOWN"}
    PROVE  CallerOK(x)'
<1>1. r \in WorkerState /\ SnapOK(r)
  BY SoloFacts DEF CallerOK
<1>2. \A q \in Plans : NoSnap[q] = "NONE"
  BY DEF NoSnap
<1>3. \A q \in Plans : x.snap[q] = "APPROVED" => r.snap[q] = "APPROVED"
  BY <1>2 DEF Leaves
<1>4. r.snap[r.p] # "APPROVED"
  BY <1>1 DEF SnapOK
<1>5. x.p \in Plans => x.p = r.p
  BY NoPlanAssumption DEF Leaves
<1>6. x.p \in Plans => x.snap[x.p] # "APPROVED"
  BY <1>3, <1>4, <1>5
<1>7. x.snap[r.p] # "APPROVED"
  BY <1>3, <1>4
<1>8. SnapOK(x)'
  BY <1>1, <1>3, <1>6, <1>7, SnapMoves
<1> QED
  BY <1>8, QuietCaller DEF Leaves

(***************************************************************************)
(* _submit.                                                                *)
(***************************************************************************)
\* The approval's compare-and-set makes the worker the row's only writer.
LEMMA SubmitSolo ==
    ASSUME IInv, SoloInv, OneProcess, NEW w \in Workers, NEW p \in Plans, Submit(w, p)
    PROVE  FollowInv'
<1>1. /\ wk[w].pc = "idle" /\ order[p].st = "PLANNED"
      /\ order' = [order EXCEPT ![p].st = "APPROVED"]
      /\ wk' = [wk EXCEPT ![w] = [Idle EXCEPT !.pc = "approved", !.p = p]]
      /\ UNCHANGED <<pos, trade, ex, faults>>
  BY DEF Submit, At, SetState, Become
<1>2. /\ order'[p].st = "APPROVED" /\ order'[p].filled = order[p].filled
      /\ \A q \in Plans \ {p} : order'[q] = order[q]
  BY <1>1, StateSet DEF IInv
<1>3. TableOK(p)
  BY SoloFacts
<1>4. PICK x : x = [Idle EXCEPT !.pc = "approved", !.p = p]
  OBVIOUS
<1>5. x.pc = "approved" /\ x.p = p /\ x.was = FALSE /\ x.snap = NoSnap
  BY <1>4 DEF Idle
<1>6. \A q \in Plans : x.snap[q] = "NONE"
  BY <1>5 DEF NoSnap
<1>7. CallerOK(x)'
  BY <1>2, <1>5, <1>6 DEF CallerOK, SubmitOK, FreshOK, ApplyOK, CancelOK, SnapOK, Busy
<1>8. wk[w].pc \notin Busy
  BY <1>1 DEF Busy
<1> QED
  BY <1>1, <1>2, <1>3, <1>4, <1>7, <1>8, StateMoves DEF TableOK

\* The row is SUBMITTED before anything is sent.
LEMMA MarkSubmittedSolo ==
    ASSUME IInv, SoloInv, OneProcess, NEW w \in Workers, MarkSubmitted(w)
    PROVE  FollowInv'
<1>1. PICK r : r = wk[w]
  OBVIOUS
<1>2. r.pc = "approved" /\ wk[w].pc \notin Busy
  BY <1>1 DEF MarkSubmitted, At, Busy
<1>3. /\ r \in WorkerState /\ r.p \in Plans /\ CallerOK(r) /\ TableOK(r.p)
  BY <1>1, <1>2, WorkerFacts, SoloFacts DEF Loops
<1>4. order[r.p].st = "APPROVED" /\ order[r.p].filled = 0
  BY <1>2, <1>3 DEF CallerOK, SubmitOK, TableOK
<1>5. UNCHANGED <<pos, trade, ex, faults>>
  BY DEF MarkSubmitted
<1>6. CASE CanTransition(r.p, "SUBMITTED")
  <2>1. /\ order' = [order EXCEPT ![r.p].st = "SUBMITTED"]
        /\ wk' = [wk EXCEPT ![w] = [r EXCEPT !.pc = "send"]]
    BY <1>1, <1>6 DEF MarkSubmitted, SetState, Become
  <2>2. /\ order'[r.p].st = "SUBMITTED" /\ order'[r.p].filled = 0
        /\ \A q \in Plans \ {r.p} : order'[q] = order[q]
    BY <1>3, <1>4, <2>1, StateSet DEF IInv
  <2>3. PICK x : x = [r EXCEPT !.pc = "send"]
    OBVIOUS
  <2>4. x.pc = "send" /\ x.p = r.p /\ x.was = r.was /\ x.snap = r.snap
    BY <1>3, <2>3 DEF WorkerState
  <2>5. r.was # TRUE
    BY <1>2, <1>3 DEF CallerOK, CancelOK, Busy
  <2>6. SnapOK(x)'
    BY <1>3, <2>2, <2>4, SnapMoves DEF CallerOK, SnapOK
  <2>7. CallerOK(x)'
    BY <2>2, <2>4, <2>5, <2>6 DEF CallerOK, SubmitOK, FreshOK, ApplyOK, CancelOK, Busy
  <2> QED
    BY <1>2, <1>3, <1>4, <1>5, <2>1, <2>2, <2>3, <2>7, StateMoves
<1>7. CASE ~CanTransition(r.p, "SUBMITTED")
  <2>1. UNCHANGED order /\ wk' = [wk EXCEPT ![w] = Idle]
    BY <1>1, <1>7 DEF MarkSubmitted, Become
  <2>2. CallerOK(Idle)'
    <3>1. r.was # TRUE
      BY <1>2, <1>3 DEF CallerOK, CancelOK, Busy
    <3> QED
      BY <1>1, <1>3, <2>1, <3>1, IdleLeaves, LeavesOK
  <2> QED
    BY <1>2, <1>5, <2>1, <2>2, QuietMoves
<1> QED
  BY <1>6, <1>7

\* A worker that takes another step of _submit, order row untouched.
LEMMA SubmitCaller ==
    ASSUME IInv, SoloInv, OneProcess, NEW w \in Workers, NEW r, r = wk[w],
           r.pc = "send", NEW x, x.p = r.p, x.was = FALSE, x.snap = r.snap,
           x.pc \in {"rejected", "unknown", "acked"}, order' = order,
           x.pc = "rejected" => ex'[r.p].st = "none"
    PROVE  CallerOK(x)'
<1>1. r \in WorkerState /\ r.p \in Plans /\ CallerOK(r)
  BY WorkerFacts, SoloFacts DEF Loops
<1>2. SnapOK(x)'
  BY <1>1 DEF CallerOK, SnapOK
<1>3. SubmitOK(x)'
  BY <1>1 DEF CallerOK, SubmitOK
<1> QED
  BY <1>2, <1>3 DEF CallerOK, FreshOK, ApplyOK, CancelOK, Busy

\* A refusal before place_order leaves the exchange without the order.
LEMMA ExecuteBlockedSolo ==
    ASSUME IInv, SoloInv, OneProcess, NEW w \in Workers, ExecuteBlocked(w)
    PROVE  FollowInv'
<1>1. PICK r, x : r = wk[w] /\ x = [r EXCEPT !.pc = "rejected"]
  OBVIOUS
<1>2. /\ r.pc = "send" /\ wk' = [wk EXCEPT ![w] = x]
      /\ UNCHANGED <<order, pos, trade, ex, faults>>
  BY <1>1 DEF ExecuteBlocked, At, Become
<1>3. r \in WorkerState /\ r.p \in Plans /\ CallerOK(r) /\ WorkerOK(r) /\ ExchangeOK(r.p)
  BY <1>1, <1>2, WorkerFacts, SoloFacts DEF Loops
<1>4. ex[r.p].st = "none" /\ r.was # TRUE /\ r.was \in BOOLEAN
  BY <1>2, <1>3 DEF WorkerOK, ExchangeOK, CallerOK, CancelOK, Busy, WorkerState
<1>5. x.pc = "rejected" /\ x.p = r.p /\ x.was = r.was /\ x.snap = r.snap
  BY <1>1, <1>3 DEF WorkerState
<1>6. x.was = FALSE
  BY <1>4, <1>5, Zenon
<1>7. CallerOK(x)'
  BY <1>1, <1>2, <1>4, <1>5, <1>6, SubmitCaller
<1>8. wk[w].pc \notin Busy
  BY <1>1, <1>2 DEF Busy
<1> QED
  BY <1>2, <1>7, <1>8, QuietMoves

\* place_order is called for a row that is SUBMITTED and has no fills.
LEMMA ExecutePlaceSolo ==
    ASSUME IInv, SoloInv, OneProcess, NEW w \in Workers, ExecutePlace(w)
    PROVE  FollowInv'
<1>1. PICK r, p : r = wk[w] /\ p = r.p
  OBVIOUS
<1>2. /\ r.pc = "send" /\ UNCHANGED <<order, pos, trade, faults>>
      /\ \/ /\ wk' = [wk EXCEPT ![w] = [r EXCEPT !.pc = "rejected"]]
            /\ UNCHANGED ex
         \/ \E id \in BOOLEAN :
              /\ wk' = [wk EXCEPT ![w] = [r EXCEPT !.pc = "acked", !.id = id]]
              /\ ex' = [ex EXCEPT ![p].st = "live"]
         \/ /\ wk' = [wk EXCEPT ![w] = [r EXCEPT !.pc = "unknown"]]
            /\ ex' = [ex EXCEPT ![p].st = "transit"]
  BY <1>1 DEF ExecutePlace, At, Become
<1>3. /\ r \in WorkerState /\ p \in Plans /\ CallerOK(r) /\ WorkerOK(r) /\ ExchangeOK(p)
      /\ \A q \in Plans : TableOK(q)
      /\ ex[p] \in [st : ExState, filled : 0..Q, creq : BOOLEAN]
  BY <1>1, <1>2, WorkerFacts, SoloFacts DEF Loops
<1>4. /\ ex[p].st = "none" /\ r.was # TRUE /\ r.was \in BOOLEAN
      /\ order[p].st = "SUBMITTED" /\ order[p].filled = 0
  BY <1>1, <1>2, <1>3 DEF WorkerOK, ExchangeOK, CallerOK, SubmitOK, CancelOK, Busy, WorkerState
<1>5. wk[w].pc \notin Busy
  BY <1>1, <1>2 DEF Busy
<1>6. PICK x : /\ wk' = [wk EXCEPT ![w] = x] /\ x.pc \in {"rejected", "acked", "unknown"}
               /\ x.p = p /\ x.was = r.was /\ x.snap = r.snap
               /\ x.pc = "rejected" => ex' = ex
  <2>1. CASE wk' = [wk EXCEPT ![w] = [r EXCEPT !.pc = "rejected"]] /\ UNCHANGED ex
    <3>1. PICK x : x = [r EXCEPT !.pc = "rejected"]
      OBVIOUS
    <3>2. x.pc = "rejected" /\ x.p = r.p /\ x.was = r.was /\ x.snap = r.snap
      BY <1>3, <3>1 DEF WorkerState
    <3> QED
      BY <1>1, <2>1, <3>1, <3>2
  <2>2. ASSUME NEW id \in BOOLEAN, wk' = [wk EXCEPT ![w] = [r EXCEPT !.pc = "acked", !.id = id]]
        PROVE  \E x : /\ wk' = [wk EXCEPT ![w] = x] /\ x.pc = "acked"
                      /\ x.p = p /\ x.was = r.was /\ x.snap = r.snap
    <3>1. PICK x : x = [r EXCEPT !.pc = "acked", !.id = id]
      OBVIOUS
    <3>2. x.pc = "acked" /\ x.p = r.p /\ x.was = r.was /\ x.snap = r.snap
      BY <1>3, <3>1 DEF WorkerState
    <3> QED
      BY <1>1, <2>2, <3>1, <3>2
  <2>3. CASE wk' = [wk EXCEPT ![w] = [r EXCEPT !.pc = "unknown"]]
    <3>1. PICK x : x = [r EXCEPT !.pc = "unknown"]
      OBVIOUS
    <3>2. x.pc = "unknown" /\ x.p = r.p /\ x.was = r.was /\ x.snap = r.snap
      BY <1>3, <3>1 DEF WorkerState
    <3> QED
      BY <1>1, <2>3, <3>1, <3>2
  <2> QED
    BY <1>2, <2>1, <2>2, <2>3
<1>7. x.was = FALSE
  BY <1>4, <1>6, Zenon
<1>8. CallerOK(x)'
  <2>1. x.p = r.p /\ order' = order /\ (x.pc = "rejected" => ex'[r.p].st = "none")
    BY <1>1, <1>2, <1>4, <1>6
  <2>2. x.snap = r.snap /\ x.pc \in {"rejected", "unknown", "acked"} /\ r = wk[w] /\ r.pc = "send"
    BY <1>1, <1>2, <1>6
  <2> QED
    BY <1>7, <2>1, <2>2, SubmitCaller
<1>9. ex'[p].filled = ex[p].filled /\ \A q \in Plans \ {p} : ex'[q] = ex[q]
  BY <1>2, <1>3, ZenonT(30) DEF IInv, SharedType
<1>10. \A q \in Plans : TableOK(q)'
  <2> SUFFICES ASSUME NEW q \in Plans PROVE TableOK(q)'
    OBVIOUS
  <2>1. CASE q = p
    BY <1>2, <1>3, <1>4, <1>9, <2>1 DEF TableOK
  <2>2. CASE q # p
    BY <1>2, <1>3, <1>9, <2>2 DEF TableOK
  <2> QED
    BY <2>1, <2>2
<1>11. faults = 0 => \A q \in Plans : Managed(q)
  BY <1>5, SoloFacts
<1>12. \A q \in Plans : Managed(q) => Managed(q)'
  BY <1>2 DEF Managed
<1> QED
  BY <1>2, <1>6, <1>8, <1>10, <1>11, <1>12, SoloMoves

\* A worker leaves _submit or a reconcile, and may set the state of its row.
LEMMA StateAndGo ==
    ASSUME IInv, SoloInv, OneProcess, NEW w \in Workers, NEW r, r = wk[w], r.p \in Plans,
           r.pc \notin Busy, NEW x, Leaves(r, x), wk' = [wk EXCEPT ![w] = x],
           UNCHANGED <<pos, trade, ex, faults>>,
           NEW st \in {"SUBMITTED", "SUBMISSION_UNKNOWN", "CANCEL_REQUESTED", "REJECTED"},
           order' = order \/ order' = [order EXCEPT ![r.p].st = st],
           st = "REJECTED" => order[r.p].filled = 0 /\ ex[r.p].st \in {"none", "rejected"},
           r.was = TRUE => order'[r.p].st \notin {"PLANNED", "APPROVED", "SUBMISSION_UNKNOWN"}
    PROVE  FollowInv'
<1>1. CASE order' = order
  <2>1. CallerOK(x)'
    BY <1>1, LeavesOK
  <2> QED
    BY <1>1, <2>1, QuietMoves
<1>2. CASE order' = [order EXCEPT ![r.p].st = st]
  <2>1. /\ order'[r.p].st = st /\ order'[r.p].filled = order[r.p].filled
        /\ \A q \in Plans \ {r.p} : order'[q] = order[q]
    BY <1>2, StateSet DEF IInv
  <2>2. CallerOK(x)'
    BY <2>1, LeavesOK
  <2> QED
    BY <2>1, <2>2, StateMoves
<1> QED
  BY <1>1, <1>2

\* A fast lane starts with no cancel request found yet.
LEMMA StartLaneLeaves ==
    ASSUME NEW r \in WorkerState, r.was # TRUE, NEW lane
    PROVE  Leaves(r, StartLane(r, lane))
<1>1. PICK y : y = [r EXCEPT !.pc = "lookup", !.lane = lane, !.n = Lookups]
  OBVIOUS
<1>2. y.pc = "lookup" /\ y.was = r.was /\ y.snap = r.snap /\ y.p = r.p
  BY <1>1 DEF WorkerState
<1>3. StartLane(r, lane) = y
  BY <1>1 DEF StartLane
<1> QED
  BY <1>2, <1>3 DEF Leaves, Quiet

\* What is known of a worker outside reconcile_plan's last steps.
LEMMA NoRequestFound ==
    ASSUME IInv, SoloInv, OneProcess, NEW w \in Workers, NEW r, r = wk[w],
           r.pc \notin Busy \cup {"apply", "restore", "exhausted"}
    PROVE  r.was # TRUE
  BY SoloFacts DEF CallerOK, CancelOK

\* A refused submission: the exchange has no order.
LEMMA RecordRejectedSolo ==
    ASSUME IInv, SoloInv, OneProcess, NEW w \in Workers, RecordRejected(w)
    PROVE  FollowInv'
<1>1. PICK r : r = wk[w]
  OBVIOUS
<1>2. /\ r.pc = "rejected" /\ UNCHANGED <<pos, trade, ex, faults>>
      /\ wk' = [wk EXCEPT ![w] = Idle]
      /\ order' = order \/ order' = [order EXCEPT ![r.p].st = "REJECTED"]
  BY <1>1 DEF RecordRejected, At, Become, SetState
<1>3. r \in WorkerState /\ r.p \in Plans /\ CallerOK(r)
  BY <1>1, <1>2, WorkerFacts, SoloFacts DEF Loops
<1>4. ex[r.p].st = "none" /\ order[r.p].filled = 0
  BY <1>2, <1>3 DEF CallerOK, SubmitOK
<1>5. r.was # TRUE /\ r.pc \notin Busy
  BY <1>1, <1>2, NoRequestFound DEF Busy
<1> QED
  BY <1>1, <1>2, <1>3, <1>4, <1>5, IdleLeaves, StateAndGo

\* A submission whose outcome is unknown goes to the fast lane.
LEMMA RecordUnknownSolo ==
    ASSUME IInv, SoloInv, OneProcess, NEW w \in Workers, RecordUnknown(w)
    PROVE  FollowInv'
<1>1. PICK r : r = wk[w]
  OBVIOUS
<1>2. PICK x : /\ r.pc = "unknown" /\ UNCHANGED <<pos, trade, ex, faults>>
               /\ wk' = [wk EXCEPT ![w] = x] /\ x \in {Idle, StartLane(r, "new")}
               /\ order' = order \/ order' = [order EXCEPT ![r.p].st = "SUBMISSION_UNKNOWN"]
  BY <1>1 DEF RecordUnknown, At, Become, SetState
<1>3. r \in WorkerState /\ r.p \in Plans
  BY <1>1, <1>2, WorkerFacts DEF Loops
<1>4. r.was # TRUE /\ r.pc \notin Busy
  BY <1>1, <1>2, NoRequestFound DEF Busy
<1>5. Leaves(r, x)
  BY <1>2, <1>3, <1>4, IdleLeaves, StartLaneLeaves
<1> QED
  BY <1>1, <1>2, <1>3, <1>4, <1>5, StateAndGo

\* An acknowledged submission keeps the row SUBMITTED.
LEMMA RecordAckSolo ==
    ASSUME IInv, SoloInv, OneProcess, NEW w \in Workers, RecordAck(w)
    PROVE  FollowInv'
<1>1. PICK r : r = wk[w]
  OBVIOUS
<1>2. r.pc = "acked" /\ UNCHANGED <<pos, trade, ex, faults>>
  BY <1>1 DEF RecordAck, At
<1>3. r \in WorkerState /\ r.p \in Plans
  BY <1>1, <1>2, WorkerFacts DEF Loops
<1>4. r.was # TRUE /\ r.pc \notin Busy
  BY <1>1, <1>2, NoRequestFound DEF Busy
<1>5. CASE CanTransition(r.p, "SUBMITTED")
  <2>1. /\ order' = [order EXCEPT ![r.p].st = "SUBMITTED", ![r.p].id = r.id]
        /\ wk' = [wk EXCEPT ![w] = StartLane([r EXCEPT !.id = FALSE], "new")]
    BY <1>1, <1>5 DEF RecordAck, Become
  <2>2. order[r.p] \in [st : OrderState, id : BOOLEAN, filled : 0..Q]
    BY <1>3 DEF IInv, SharedType
  <2>3. /\ order'[r.p].st = "SUBMITTED" /\ order'[r.p].filled = order[r.p].filled
        /\ \A q \in Plans \ {r.p} : order'[q] = order[q]
    BY <1>3, <2>1, <2>2 DEF IInv, SharedType
  <2>4. PICK y : y = [r EXCEPT !.id = FALSE]
    OBVIOUS
  <2>5. y \in WorkerState /\ y.was = r.was /\ y.snap = r.snap /\ y.p = r.p
    <3>1. y \in WorkerState
      BY <1>3, <2>4, Zenon DEF WorkerState
    <3> QED
      BY <1>3, <2>4, <3>1 DEF WorkerState
  <2>6. Leaves(y, StartLane(y, "new"))
    BY <1>4, <2>5, StartLaneLeaves
  <2>7. Leaves(r, StartLane(y, "new"))
    BY <2>5, <2>6 DEF Leaves
  <2>8. CallerOK(StartLane(y, "new"))'
    BY <1>1, <1>3, <1>4, <2>3, <2>7, LeavesOK
  <2>9. wk' = [wk EXCEPT ![w] = StartLane(y, "new")]
    BY <2>1, <2>4
  <2> QED
    BY <1>1, <1>2, <1>3, <1>4, <2>3, <2>8, <2>9, StateMoves
<1>6. CASE ~CanTransition(r.p, "SUBMITTED")
  <2>1. order' = order /\ wk' = [wk EXCEPT ![w] = Idle]
    BY <1>1, <1>6 DEF RecordAck, Become
  <2> QED
    BY <1>1, <1>2, <1>3, <1>4, <2>1, IdleLeaves, StateAndGo
<1> QED
  BY <1>5, <1>6

(***************************************************************************)
(* reconcile_plan and _apply_remote_order.                                 *)
(***************************************************************************)
\* Nothing was found: the reconcile ends with what the table says.
LEMMA LookupMissedSolo ==
    ASSUME IInv, SoloInv, OneProcess, NEW w \in Workers, LookupMissed(w)
    PROVE  FollowInv'
<1>1. PICK r : r = wk[w]
  OBVIOUS
<1>2. PICK x : /\ r.pc = "lookup" /\ UNCHANGED <<order, pos, trade, ex, faults>>
               /\ wk' = [wk EXCEPT ![w] = x]
               /\ x = AfterReconcile(r, order[r.p].st, "NONE")
  BY <1>1 DEF LookupMissed, At, Become
<1>3. r \in WorkerState /\ r.p \in Plans
  BY <1>1, <1>2, WorkerFacts DEF Loops
<1>4. r.was # TRUE /\ r.pc \notin Busy
  BY <1>1, <1>2, NoRequestFound DEF Busy
<1>5. Leaves(r, x)
  BY <1>2, <1>3, AfterReconcileLeaves
<1> QED
  BY <1>1, <1>2, <1>3, <1>4, <1>5, StateAndGo

\* A row read from the exchange is as new as the exchange.
LEMMA LookupFoundSolo ==
    ASSUME IInv, SoloInv, OneProcess, NEW w \in Workers, LookupFound(w)
    PROVE  FollowInv'
<1>1. PICK r, row : r = wk[w] /\ row = [st |-> ex[r.p].st, filled |-> ex[r.p].filled]
  OBVIOUS
<1>2. PICK x : x = [r EXCEPT !.pc = "apply", !.row = row, !.was = (order[r.p].st = "CANCEL_REQUESTED")]
  OBVIOUS
<1>3. /\ r.pc = "lookup" /\ UNCHANGED <<order, pos, trade, ex, faults>>
      /\ wk' = [wk EXCEPT ![w] = x]
      /\ ex[r.p].st \in {"live", "canceled", "filled", "rejected"}
  BY <1>1, <1>2 DEF LookupFound, At, Become
<1>4. /\ r \in WorkerState /\ r.p \in Plans /\ CallerOK(r) /\ TableOK(r.p)
      /\ ExchangeOK(r.p) /\ OrderOK(r.p)
      /\ ex[r.p] \in [st : ExState, filled : 0..Q, creq : BOOLEAN]
  BY <1>1, <1>3, WorkerFacts, SoloFacts DEF Loops
<1>5. /\ x.pc = "apply" /\ x.p = r.p /\ x.snap = r.snap
      /\ x.row.st = ex[r.p].st /\ x.row.filled = ex[r.p].filled
      /\ x.was = TRUE => order[r.p].st = "CANCEL_REQUESTED"
  BY <1>1, <1>2, <1>4 DEF WorkerState
<1>6. FreshOK(x)'
  BY <1>3, <1>4, <1>5 DEF FreshOK, TableOK, OrderOK, ExchangeOK
<1>7. SnapOK(x)'
  BY <1>3, <1>4, <1>5 DEF CallerOK, SnapOK
<1>8. CallerOK(x)'
  BY <1>3, <1>5, <1>6, <1>7 DEF CallerOK, SubmitOK, ApplyOK, CancelOK, Busy
<1>9. wk[w].pc \notin Busy
  BY <1>1, <1>3 DEF Busy
<1> QED
  BY <1>3, <1>8, <1>9, QuietMoves

\* A row without a recognised state has the exchange's fills, or none.
LEMMA LookupUnrecognisedSolo ==
    ASSUME IInv, SoloInv, OneProcess, NEW w \in Workers, LookupUnrecognised(w)
    PROVE  FollowInv'
<1>1. PICK r : r = wk[w]
  OBVIOUS
<1>2. PICK f \in {0, ex[r.p].filled} :
         wk' = [wk EXCEPT ![w] = [r EXCEPT !.pc = "apply", !.row = [st |-> "other", filled |-> f],
                                           !.was = (order[r.p].st = "CANCEL_REQUESTED")]]
  BY <1>1 DEF LookupUnrecognised, Become
<1>a. PICK x : x = [r EXCEPT !.pc = "apply", !.row = [st |-> "other", filled |-> f],
                             !.was = (order[r.p].st = "CANCEL_REQUESTED")]
  OBVIOUS
<1>3. /\ r.pc = "lookup" /\ UNCHANGED <<order, pos, trade, ex>> /\ faults' = faults + 1
      /\ wk' = [wk EXCEPT ![w] = x]
      /\ ex[r.p].st \in {"live", "canceled", "filled", "rejected"}
  BY <1>1, <1>2, <1>a DEF LookupUnrecognised, At
<1>4. /\ r \in WorkerState /\ r.p \in Plans /\ CallerOK(r) /\ TableOK(r.p)
      /\ ExchangeOK(r.p) /\ OrderOK(r.p)
      /\ ex[r.p] \in [st : ExState, filled : 0..Q, creq : BOOLEAN]
  BY <1>1, <1>3, WorkerFacts, SoloFacts DEF Loops
<1>5. /\ x.pc = "apply" /\ x.p = r.p /\ x.snap = r.snap
      /\ x.row.st = "other" /\ x.row.filled = f
      /\ x.was = TRUE => order[r.p].st = "CANCEL_REQUESTED"
  BY <1>a, <1>4 DEF WorkerState
<1>6. FreshOK(x)'
  <2>1. order[r.p].st = "REJECTED" => f = 0
    BY <1>2, <1>4 DEF TableOK, ExchangeOK
  <2>2. f > 0 => f = ex[r.p].filled
    BY <1>2
  <2> QED
    BY <1>3, <1>4, <1>5, <2>1, <2>2 DEF FreshOK, TableOK, OrderOK, ExchangeOK
<1>7. SnapOK(x)'
  BY <1>3, <1>4, <1>5 DEF CallerOK, SnapOK
<1>8. CallerOK(x)'
  BY <1>3, <1>5, <1>6, <1>7 DEF CallerOK, SubmitOK, ApplyOK, CancelOK, Busy
<1>9. faults' # 0
  BY <1>3, MaxFaultsAssumption DEF IInv, SharedType
<1> QED
  BY <1>3, <1>8, <1>9, QuietMoves

\* transition_order accepts the state a fresh row stands for.
LEMMA RowAccepted ==
    ASSUME IInv, SoloInv, OneProcess, NEW w \in Workers, NEW r, r = wk[w], r.pc = "apply",
           r.row.st # "other"
    PROVE  CanTransition(r.p, RemoteState(r))
<1>1. /\ r \in WorkerState /\ r.p \in Plans /\ CallerOK(r) /\ TableOK(r.p)
      /\ ExchangeOK(r.p) /\ RowOK(r)
      /\ order[r.p] \in [st : OrderState, id : BOOLEAN, filled : 0..Q]
      /\ ex[r.p] \in [st : ExState, filled : 0..Q, creq : BOOLEAN]
  BY WorkerFacts, SoloFacts DEF Loops
<1>2. r.row \in Row
  BY <1>1 DEF WorkerState
<1>3. FreshOK(r)
  BY <1>1 DEF CallerOK
<1>4. PICK s : s = RemoteState(r)
  OBVIOUS
<1>5. s \in {"CANCELLED", "REJECTED", "FILLED", "PARTIALLY_FILLED", "OPEN"}
  <2>1. s # "SUBMITTED"
    BY <1>2, <1>3, <1>4 DEF RemoteState, MapState, Row, FreshOK
  <2> QED
    BY <1>2, <1>4, <2>1, RemoteStateFacts
<1>6. /\ r.row.st = "filled" => s = "FILLED"
      /\ r.row.st = "canceled" => s = "CANCELLED"
      /\ r.row.st = "rejected" => s = "REJECTED"
      /\ s = "REJECTED" => r.row.st = "rejected"
      /\ s = "OPEN" => ~(r.row.filled > 0)
  BY <1>2, <1>4 DEF RemoteState, MapState, Row
<1>7. order[r.p].st = "PARTIALLY_FILLED" => s # "OPEN" /\ s # "REJECTED"
  <2> SUFFICES ASSUME order[r.p].st = "PARTIALLY_FILLED" PROVE s # "OPEN" /\ s # "REJECTED"
    OBVIOUS
  <2>1. order[r.p].filled > 0 /\ order[r.p].filled <= r.row.filled
    BY <1>1, <1>3 DEF TableOK, FreshOK
  <2>2. order[r.p].filled \in Nat /\ r.row.filled \in Nat
    BY <1>1, <1>2, QAssumption DEF Row
  <2>3. r.row.filled > 0
    BY <2>1, <2>2
  <2>4. s # "OPEN"
    BY <1>6, <2>3
  <2>5. s = "REJECTED" => ex[r.p].filled = 0 /\ r.row.filled <= ex[r.p].filled
    BY <1>1, <1>3, <1>6 DEF FreshOK, ExchangeOK, RowOK
  <2> QED
    BY <2>2, <2>3, <2>4, <2>5
<1>8. /\ order[r.p].st \in {"FILLED", "POSITION_UNPROTECTED"} => s = "FILLED"
      /\ order[r.p].st = "CANCELLED" => s = "CANCELLED"
      /\ order[r.p].st = "REJECTED" => s = "REJECTED"
      /\ order[r.p].st \notin {"PLANNED", "APPROVED", "CLOSED"}
  <2>1. order[r.p].st # "CLOSED"
    BY <1>1 DEF SoloInv, OpenOK
  <2> QED
    BY <1>1, <1>3, <1>6, <2>1 DEF FreshOK
<1>9. order[r.p].st \in OrderState
  BY <1>1
<1>10. s \in ALLOWED_TRANSITIONS[order[r.p].st]
  BY <1>5, <1>7, <1>8, <1>9 DEF OrderState, ALLOWED_TRANSITIONS
<1> QED
  BY <1>4, <1>10 DEF CanTransition

\* What _apply_remote_order writes follows from the row.
LEMMA LifecycleFacts ==
    ASSUME NEW r, r.row \in Row
    PROVE  /\ LifecycleState(r) \in {"CANCELLED", "REJECTED", "FILLED", "PARTIALLY_FILLED",
                                     "OPEN", "SUBMITTED", "POSITION_UNPROTECTED"}
           /\ LifecycleState(r) \in {"SUBMITTED", "OPEN", "PARTIALLY_FILLED"} =>
                 LifecycleState(r) = RemoteState(r)
           /\ LifecycleState(r) = "REJECTED" => RemoteState(r) = "REJECTED"
           /\ LifecycleState(r) = "PARTIALLY_FILLED" => r.row.filled > 0
           /\ LifecycleState(r) = "FILLED" => r.prot
           /\ LifecycleState(r) = "POSITION_UNPROTECTED" => ~r.prot
           /\ HasManagedFill(r) => r.row.filled > 0 /\ RemoteState(r) # "REJECTED"
           /\ ~HasManagedFill(r) => /\ r.row.filled = 0 \/ RemoteState(r) = "REJECTED"
                                    /\ LifecycleState(r) = RemoteState(r)
                                       \/ (r.row.st = "filled" /\ r.row.filled = 0)
<1>1. RemoteState(r) \in {"CANCELLED", "REJECTED", "FILLED", "PARTIALLY_FILLED", "OPEN", "SUBMITTED"}
  BY RemoteStateFacts
<1>2. r.row.filled \in Nat
  BY QAssumption DEF Row
<1>3. /\ RemoteState(r) = "PARTIALLY_FILLED" => r.row.filled > 0
      /\ RemoteState(r) \in {"OPEN", "SUBMITTED"} => r.row.filled = 0
      /\ RemoteState(r) = "FILLED" => r.row.filled > 0 \/ r.row.st = "filled"
  BY <1>2, QAssumption DEF RemoteState, MapState
<1>4. LifecycleState(r) = RemoteState(r) \/
         (RemoteState(r) = "FILLED" /\ ~r.prot /\ LifecycleState(r) = "POSITION_UNPROTECTED")
  BY DEF LifecycleState
<1>5. /\ LifecycleState(r) = "FILLED" => r.prot
      /\ LifecycleState(r) = "POSITION_UNPROTECTED" => ~r.prot
  BY <1>1, Zenon DEF LifecycleState
<1>6. /\ LifecycleState(r) = RemoteState(r)
         \/ (RemoteState(r) = "FILLED" /\ LifecycleState(r) = "POSITION_UNPROTECTED")
  BY <1>4
<1>7. /\ LifecycleState(r) \in {"CANCELLED", "REJECTED", "FILLED", "PARTIALLY_FILLED",
                                "OPEN", "SUBMITTED", "POSITION_UNPROTECTED"}
      /\ LifecycleState(r) \in {"SUBMITTED", "OPEN", "PARTIALLY_FILLED"} =>
            LifecycleState(r) = RemoteState(r)
      /\ LifecycleState(r) = "REJECTED" => RemoteState(r) = "REJECTED"
      /\ LifecycleState(r) = "PARTIALLY_FILLED" => r.row.filled > 0
  BY <1>1, <1>3, <1>6
<1>8. CASE HasManagedFill(r)
  <2>1. r.row.filled > 0 /\ RemoteState(r) \in {"PARTIALLY_FILLED", "FILLED", "CANCELLED"}
    BY <1>8 DEF HasManagedFill
  <2> QED
    BY <1>5, <1>8, <1>7, <2>1
<1>9. CASE ~HasManagedFill(r)
  <2>1. ~(r.row.filled > 0) \/ RemoteState(r) \notin {"PARTIALLY_FILLED", "FILLED", "CANCELLED"}
    BY <1>9 DEF HasManagedFill
  <2>2. r.row.filled = 0 \/ RemoteState(r) = "REJECTED"
    BY <1>1, <1>2, <1>3, <2>1
  <2>3. RemoteState(r) = "FILLED" => r.row.st = "filled" /\ r.row.filled = 0
    BY <1>2, <1>3, <2>2
  <2>4. LifecycleState(r) = RemoteState(r) \/ (r.row.st = "filled" /\ r.row.filled = 0)
    BY <1>6, <2>3
  <2> QED
    BY <1>5, <1>9, <1>7, <2>2, <2>4, Zenon
<1> QED
  BY <1>8, <1>9

\* After the last write of a reconcile the worker restores a cancel request,
\* or leaves with the order in a state of the exchange.
LEMMA EndCaller ==
    ASSUME IInv, SoloInv, OneProcess, NEW w \in Workers, NEW r, r = wk[w],
           r.pc \in Busy \cup {"apply"},
           \A q \in Plans \ {r.p} : order'[q] = order[q],
           order'[r.p].st = LifecycleState(r)
    PROVE  /\ CallerOK(EndOfReconcile(r))'
           /\ EndOfReconcile(r).pc \notin Busy
<1>1. r \in WorkerState /\ r.p \in Plans /\ CallerOK(r)
  BY WorkerFacts, SoloFacts DEF Loops, Busy
<1>2. r.row \in Row
  BY <1>1 DEF WorkerState
<1>3. LifecycleState(r) \in {"CANCELLED", "REJECTED", "FILLED", "PARTIALLY_FILLED",
                             "OPEN", "SUBMITTED", "POSITION_UNPROTECTED"}
  BY <1>2, LifecycleFacts
<1>4. CASE r.was /\ LifecycleState(r) \in {"SUBMITTED", "OPEN", "PARTIALLY_FILLED"}
  <2>1. PICK y : y = [r EXCEPT !.pc = "restore"]
    OBVIOUS
  <2>2. y.pc = "restore" /\ y.p = r.p /\ y.snap = r.snap
    BY <1>1, <2>1 DEF WorkerState
  <2>3. EndOfReconcile(r) = y
    BY <1>4, <2>1, Zenon DEF EndOfReconcile
  <2>4. r.snap[r.p] # "APPROVED" /\ SnapOK(r)
    BY <1>1 DEF CallerOK, SnapOK
  <2>5. SnapOK(y)'
    BY <1>1, <2>2, <2>4, SnapMoves
  <2>6. order'[y.p].st \in {"SUBMITTED", "OPEN", "PARTIALLY_FILLED"}
    BY <1>3, <1>4, <2>2
  <2>7. CallerOK(y)'
    BY <2>2, <2>5, <2>6 DEF CallerOK, SubmitOK, FreshOK, ApplyOK, CancelOK, Busy
  <2> QED
    BY <2>2, <2>3, <2>7 DEF Busy
<1>5. CASE ~(r.was /\ LifecycleState(r) \in {"SUBMITTED", "OPEN", "PARTIALLY_FILLED"})
  <2>1. PICK y : y = AfterReconcile(r, LifecycleState(r), ReportedManagedState(r))
    OBVIOUS
  <2>2. EndOfReconcile(r) = y
    BY <1>5, <2>1, Zenon DEF EndOfReconcile
  <2>3. Leaves(r, y)
    BY <1>1, <2>1, AfterReconcileLeaves
  <2>4. CallerOK(y)'
    BY <1>1, <1>3, <2>3, LeavesOK
  <2>5. y.pc \notin Busy
    BY <2>3 DEF Leaves, Quiet, Busy
  <2> QED
    BY <2>2, <2>4, <2>5
<1> QED
  BY <1>4, <1>5

\* A refused row leaves the tables as they are.
LEMMA RefusedRowSolo ==
    ASSUME IInv, SoloInv, OneProcess, NEW w \in Workers, ApplyRemoteOrder(w),
           ~CanTransition(wk[w].p, RemoteState(wk[w]))
    PROVE  FollowInv' /\ wk[w].was # TRUE
<1>1. PICK r, x : r = wk[w] /\ x = Raised(r)
  OBVIOUS
<1>2. /\ r.pc = "apply" /\ UNCHANGED <<order, pos, trade, ex, faults>>
      /\ wk' = [wk EXCEPT ![w] = x]
  BY <1>1 DEF ApplyRemoteOrder, At, Become
<1>3. /\ r \in WorkerState /\ r.p \in Plans /\ CallerOK(r) /\ r.row \in Row
      /\ order[r.p] \in [st : OrderState, id : BOOLEAN, filled : 0..Q]
  BY <1>1, <1>2, WorkerFacts, SoloFacts DEF Loops, WorkerState
<1>4. Leaves(r, x)
  BY <1>1, <1>3, RaisedLeaves
<1>5. /\ order[r.p].st \notin {"PLANNED", "APPROVED"}
      /\ r.was = TRUE => order[r.p].st = "CANCEL_REQUESTED"
  BY <1>2, <1>3 DEF CallerOK, FreshOK, CancelOK
<1>6. order[r.p].st \notin {"SUBMISSION_UNKNOWN", "CANCEL_REQUESTED"}
  <2>1. /\ RemoteState(r) \in {"CANCELLED", "REJECTED", "FILLED", "PARTIALLY_FILLED", "OPEN",
                               "SUBMITTED"}
        /\ RemoteState(r) \notin ALLOWED_TRANSITIONS[order[r.p].st]
    BY <1>1, <1>3, RemoteStateFacts DEF CanTransition
  <2>2. order[r.p].st \in OrderState
    BY <1>3
  <2> QED
    BY <2>1, <2>2 DEF OrderState, ALLOWED_TRANSITIONS
<1>7. CallerOK(x)'
  BY <1>1, <1>2, <1>3, <1>4, <1>5, <1>6, LeavesOK
<1>8. wk[w].pc \notin Busy
  BY <1>1, <1>2 DEF Busy
<1> QED
  BY <1>1, <1>2, <1>5, <1>6, <1>7, <1>8, QuietMoves

\* The row is written; what it filled goes on to the other two tables.
LEMMA AppliedRowSolo ==
    ASSUME IInv, SoloInv, OneProcess, NEW w \in Workers, ApplyRemoteOrder(w),
           CanTransition(wk[w].p, RemoteState(wk[w]))
    PROVE  FollowInv'
<1>1. PICK r : r = wk[w]
  OBVIOUS
<1>2. r.pc = "apply" /\ r.pc \notin Busy /\ UNCHANGED <<pos, trade, ex, faults>>
  BY <1>1 DEF ApplyRemoteOrder, At, Busy
<1>3. /\ r \in WorkerState /\ r.p \in Plans /\ CallerOK(r) /\ RowOK(r) /\ ExchangeOK(r.p)
      /\ r.row \in Row /\ FreshOK(r)
      /\ \A q \in Plans : TableOK(q)
      /\ faults = 0 => \A q \in Plans : Managed(q)
      /\ ex[r.p] \in [st : ExState, filled : 0..Q, creq : BOOLEAN]
  BY <1>1, <1>2, WorkerFacts, SoloFacts DEF Loops, CallerOK, WorkerState
<1>4. /\ order' = [order EXCEPT ![r.p] =
                      [st |-> RemoteState(r), id |-> TRUE, filled |-> r.row.filled]]
      /\ wk' = [wk EXCEPT ![w] = IF HasManagedFill(r) THEN [r EXCEPT !.pc = "protect"]
                                 ELSE EndOfReconcile(r)]
  BY <1>1 DEF ApplyRemoteOrder, Become
<1>5. /\ order'[r.p].st = RemoteState(r) /\ order'[r.p].filled = r.row.filled
      /\ \A q \in Plans \ {r.p} : order'[q] = order[q]
  BY <1>3, <1>4 DEF IInv, SharedType
<1>6. /\ RemoteState(r) \in {"CANCELLED", "REJECTED", "FILLED", "PARTIALLY_FILLED", "OPEN",
                             "SUBMITTED"}
      /\ RemoteState(r) = "REJECTED" => r.row.st = "rejected"
      /\ RemoteState(r) = "PARTIALLY_FILLED" => r.row.filled > 0
  BY <1>3, RemoteStateFacts DEF RemoteState, MapState
<1>7. RemoteState(r) = "REJECTED" => ex[r.p].st = "rejected" /\ r.row.filled = 0
  <2>1. r.row.filled \in Nat /\ r.row.filled <= ex[r.p].filled
    BY <1>3, QAssumption DEF RowOK, Row
  <2> QED
    BY <1>2, <1>3, <1>6, <2>1 DEF FreshOK, ExchangeOK
<1>8. r.row.filled <= ex[r.p].filled
  BY <1>3 DEF RowOK
<1>9. ASSUME NEW q \in Plans PROVE TableOK(q)'
  <2>1. CASE q = r.p
    BY <1>2, <1>5, <1>6, <1>7, <1>8, <2>1 DEF TableOK
  <2>2. CASE q # r.p
    BY <1>2, <1>3, <1>5, <2>2 DEF TableOK
  <2> QED
    BY <2>1, <2>2
<1>10. \A q \in Plans \ {r.p} : Managed(q) => Managed(q)'
  BY <1>2, <1>5 DEF Managed
<1>11. CASE HasManagedFill(r)
  <2>1. PICK x : x = [r EXCEPT !.pc = "protect"]
    OBVIOUS
  <2>2. x.pc = "protect" /\ x.p = r.p /\ x.snap = r.snap /\ x.row = r.row /\ x.was = r.was
    BY <1>3, <2>1 DEF WorkerState
  <2>3. wk' = [wk EXCEPT ![w] = x]
    BY <1>4, <1>11, <2>1
  <2>4. RemoteState(x) = RemoteState(r)
    BY <2>2 DEF RemoteState
  <2>5. ApplyOK(x)'
    <3>1. r.row.filled > 0
      BY <1>11 DEF HasManagedFill
    <3> QED
      BY <1>2, <1>3, <1>5, <2>2, <2>4, <3>1 DEF ApplyOK, FreshOK, Busy
  <2>6. SnapOK(x)'
    BY <1>3, <1>5, <2>2, SnapMoves DEF CallerOK, SnapOK
  <2>7. CallerOK(x)'
    BY <2>2, <2>5, <2>6 DEF CallerOK, SubmitOK, FreshOK, CancelOK, Busy
  <2>8. x.pc \in Busy
    BY <2>2 DEF Busy
  <2> QED
    BY <1>2, <1>3, <1>9, <1>10, <2>2, <2>3, <2>7, <2>8, SoloMoves
<1>12. CASE ~HasManagedFill(r)
  <2>1. PICK x : x = EndOfReconcile(r)
    OBVIOUS
  <2>2. wk' = [wk EXCEPT ![w] = x]
    BY <1>4, <1>12, <2>1
  <2>3. r.row.filled = 0
    BY <1>3, <1>7, <1>12, LifecycleFacts
  <2>4. LifecycleState(r) = RemoteState(r)
    <3>1. r.row.st = "filled" => r.row.filled = Q
      BY <1>3 DEF RowOK
    <3> QED
      BY <1>3, <1>12, <2>3, <3>1, LifecycleFacts, QAssumption
  <2>5. CallerOK(x)'
    BY <1>1, <1>2, <1>5, <2>1, <2>4, EndCaller
  <2>6. Managed(r.p)'
    <3>1. RemoteState(r) \notin {"FILLED", "POSITION_UNPROTECTED"}
      <4>1. RemoteState(r) = "FILLED" => r.row.st = "filled" \/ r.row.filled = Q
        BY <1>3, RemoteStateFacts
      <4>2. r.row.st = "filled" => r.row.filled = Q
        BY <1>3 DEF RowOK
      <4> QED
        BY <1>6, <2>3, <4>1, <4>2, QAssumption
    <3> QED
      BY <1>5, <2>3, <3>1 DEF Managed
  <2> QED
    BY <1>2, <1>3, <1>9, <1>10, <2>2, <2>5, <2>6, SoloMoves
<1> QED
  BY <1>11, <1>12

\* A row is written or refused.
LEMMA ApplyRemoteOrderSolo ==
    ASSUME IInv, SoloInv, OneProcess, NEW w \in Workers, ApplyRemoteOrder(w)
    PROVE  FollowInv'
  BY AppliedRowSolo, RefusedRowSolo

\* The exchange's answer about TP/SL, or none.
LEMMA ProtectionStateSolo ==
    ASSUME IInv, SoloInv, OneProcess, NEW w \in Workers, ProtectionState(w)
    PROVE  FollowInv'
<1>1. PICK r : r = wk[w]
  OBVIOUS
<1>2. PICK prot : /\ r.pc = "protect" /\ UNCHANGED <<order, pos, trade, ex, faults>>
                  /\ wk' = [wk EXCEPT ![w] = [r EXCEPT !.pc = "verify", !.prot = prot]]
  BY <1>1 DEF ProtectionState, At, Become
<1>3. r \in WorkerState /\ r.p \in Plans /\ CallerOK(r)
  BY <1>1, <1>2, WorkerFacts, SoloFacts DEF Loops
<1>4. PICK x : x = [r EXCEPT !.pc = "verify", !.prot = prot]
  OBVIOUS
<1>5. x.pc = "verify" /\ x.p = r.p /\ x.snap = r.snap /\ x.row = r.row
  BY <1>3, <1>4 DEF WorkerState
<1>6. RemoteState(x) = RemoteState(r)
  BY <1>5 DEF RemoteState
<1>7. CallerOK(x)'
  BY <1>2, <1>3, <1>5, <1>6
  DEF CallerOK, SubmitOK, FreshOK, ApplyOK, CancelOK, SnapOK, Busy
<1>8. x.pc \in Busy /\ x.p = wk[w].p
  BY <1>1, <1>5 DEF Busy
<1> QED
  BY <1>2, <1>4, <1>7, <1>8, QuietMoves

\* A broken pipe leaves the other two tables behind: a fault.
LEMMA ProtectionRaisedSolo ==
    ASSUME IInv, SoloInv, OneProcess, NEW w \in Workers, ProtectionRaised(w)
    PROVE  FollowInv'
<1>1. PICK r, x : r = wk[w] /\ x = Raised(r)
  OBVIOUS
<1>2. /\ r.pc = "protect" /\ UNCHANGED <<order, pos, trade, ex>>
      /\ faults' = faults + 1 /\ wk' = [wk EXCEPT ![w] = x]
  BY <1>1 DEF ProtectionRaised, At, Become
<1>3. r \in WorkerState /\ r.p \in Plans /\ CallerOK(r)
  BY <1>1, <1>2, WorkerFacts, SoloFacts DEF Loops
<1>4. Leaves(r, x)
  BY <1>1, <1>3, RaisedLeaves
<1>5. order[r.p].st \notin {"PLANNED", "APPROVED", "SUBMISSION_UNKNOWN"}
  <2>1. order[r.p].st = RemoteState(r) /\ r.row \in Row
    BY <1>2, <1>3 DEF CallerOK, ApplyOK, WorkerState
  <2> QED
    BY <2>1, RemoteStateFacts
<1>6. CallerOK(x)'
  BY <1>1, <1>2, <1>3, <1>4, <1>5, LeavesOK
<1>7. faults' # 0
  BY <1>2, MaxFaultsAssumption DEF IInv, SharedType
<1> QED
  BY <1>2, <1>6, <1>7, QuietMoves

\* transition_order accepts what the protection makes of the state.
LEMMA VerdictAccepted ==
    ASSUME IInv, SoloInv, OneProcess, NEW w \in Workers, NEW r, r = wk[w], r.pc = "verify"
    PROVE  /\ CanTransition(r.p, LifecycleState(r)) /\ RemoteState(r) # "REJECTED"
           /\ r.row.filled > 0
<1>1. r \in WorkerState /\ r.p \in Plans /\ CallerOK(r) /\ WorkerOK(r) /\ r.row \in Row
  BY WorkerFacts, SoloFacts DEF Loops, WorkerState
<1>2. order[r.p].st = RemoteState(r) /\ HasManagedFill(r)
  BY <1>1 DEF CallerOK, ApplyOK, WorkerOK
<1>3. r.row.filled > 0 /\ RemoteState(r) \in {"PARTIALLY_FILLED", "FILLED", "CANCELLED"}
  BY <1>2 DEF HasManagedFill
<1>4. LifecycleState(r) = RemoteState(r)
        \/ (RemoteState(r) = "FILLED" /\ LifecycleState(r) = "POSITION_UNPROTECTED")
  BY DEF LifecycleState
<1>5. LifecycleState(r) \in ALLOWED_TRANSITIONS[order[r.p].st]
  BY <1>2, <1>3, <1>4 DEF OrderState, ALLOWED_TRANSITIONS
<1> QED
  BY <1>3, <1>5 DEF CanTransition

\* FILLED or POSITION_UNPROTECTED, as the protection was verified.
LEMMA RecordProtectionSolo ==
    ASSUME IInv, SoloInv, OneProcess, NEW w \in Workers, RecordProtection(w)
    PROVE  FollowInv'
<1>1. PICK r : r = wk[w]
  OBVIOUS
<1>2. r.pc = "verify" /\ UNCHANGED <<pos, trade, ex, faults>>
  BY <1>1 DEF RecordProtection, At
<1>3. /\ r \in WorkerState /\ r.p \in Plans /\ CallerOK(r) /\ r.row \in Row
      /\ \A q \in Plans : TableOK(q)
      /\ faults = 0 => \A q \in Plans \ {r.p} : Managed(q)
  BY <1>1, <1>2, WorkerFacts, SoloFacts DEF Loops, WorkerState
<1>4. /\ CanTransition(r.p, LifecycleState(r)) /\ RemoteState(r) # "REJECTED"
      /\ r.row.filled > 0
  BY <1>1, <1>2, VerdictAccepted
<1>5. PICK x : x = [r EXCEPT !.pc = "upsert"]
  OBVIOUS
<1>6. order' = [order EXCEPT ![r.p].st = LifecycleState(r)] /\ wk' = [wk EXCEPT ![w] = x]
  BY <1>1, <1>4, <1>5 DEF RecordProtection, SetState, Become
<1>7. /\ order'[r.p].st = LifecycleState(r) /\ order'[r.p].filled = order[r.p].filled
      /\ \A q \in Plans \ {r.p} : order'[q] = order[q]
  BY <1>3, <1>6, StateSet DEF IInv
<1>8. order[r.p].filled = r.row.filled
  BY <1>2, <1>3 DEF CallerOK, ApplyOK, Busy
<1>9. LifecycleState(r) \in {"CANCELLED", "FILLED", "PARTIALLY_FILLED", "OPEN", "SUBMITTED",
                             "POSITION_UNPROTECTED"}
  BY <1>3, <1>4, LifecycleFacts
<1>10. ASSUME NEW q \in Plans PROVE TableOK(q)'
  <2>1. CASE q = r.p
    BY <1>2, <1>3, <1>4, <1>7, <1>8, <1>9, <2>1 DEF TableOK
  <2>2. CASE q # r.p
    BY <1>2, <1>3, <1>7, <2>2 DEF TableOK
  <2> QED
    BY <2>1, <2>2
<1>11. /\ x.pc = "upsert" /\ x.p = r.p /\ x.snap = r.snap /\ x.row = r.row /\ x.prot = r.prot
  BY <1>3, <1>5 DEF WorkerState
<1>12. LifecycleState(x) = LifecycleState(r)
  BY <1>11 DEF LifecycleState, RemoteState
<1>13. ApplyOK(x)'
  BY <1>2, <1>3, <1>7, <1>8, <1>11, <1>12 DEF CallerOK, ApplyOK, Busy
<1>14. SnapOK(x)'
  BY <1>3, <1>7, <1>11, SnapMoves DEF CallerOK, SnapOK
<1>15. CallerOK(x)'
  BY <1>11, <1>13, <1>14 DEF CallerOK, SubmitOK, FreshOK, CancelOK, Busy
<1>16. \A q \in Plans \ {r.p} : Managed(q) => Managed(q)'
  BY <1>2, <1>7 DEF Managed
<1>17. x.pc \in Busy
  BY <1>11 DEF Busy
<1> QED
  BY <1>2, <1>3, <1>6, <1>10, <1>11, <1>15, <1>16, <1>17, SoloMoves

\* The position takes what the row filled.
LEMMA UpsertManagedPositionSolo ==
    ASSUME IInv, SoloInv, OneProcess, NEW w \in Workers, UpsertManagedPosition(w)
    PROVE  FollowInv'
<1>1. PICK r, x : r = wk[w] /\ x = [r EXCEPT !.pc = "record"]
  OBVIOUS
<1>2. /\ r.pc = "upsert" /\ UNCHANGED <<order, trade, ex, faults>>
      /\ wk' = [wk EXCEPT ![w] = x]
      /\ pos' = [pos EXCEPT ![r.p] =
                    [st |-> ManagedState(r), qty |-> r.row.filled, prot |-> r.prot]]
  BY <1>1 DEF UpsertManagedPosition, At, Become
<1>3. /\ r \in WorkerState /\ r.p \in Plans /\ CallerOK(r)
      /\ \A q \in Plans : TableOK(q)
      /\ faults = 0 => \A q \in Plans \ {r.p} : Managed(q)
      /\ r.row.filled \in Nat
  BY <1>1, <1>2, WorkerFacts, SoloFacts, QAssumption DEF Loops, WorkerState, Row
<1>4. /\ pos'[r.p].qty = r.row.filled /\ pos'[r.p].prot = r.prot
      /\ \A q \in Plans \ {r.p} : pos'[q] = pos[q]
  BY <1>2, <1>3 DEF IInv, SharedType
<1>5. /\ x.pc = "record" /\ x.p = r.p /\ x.snap = r.snap /\ x.row = r.row /\ x.prot = r.prot
  BY <1>1, <1>3 DEF WorkerState
<1>6. LifecycleState(x) = LifecycleState(r)
  BY <1>5 DEF LifecycleState, RemoteState
<1>7. ApplyOK(x)'
  BY <1>2, <1>3, <1>4, <1>5, <1>6 DEF CallerOK, ApplyOK, Busy
<1>8. CallerOK(x)'
  BY <1>2, <1>3, <1>5, <1>7 DEF CallerOK, SubmitOK, FreshOK, CancelOK, SnapOK, Busy
<1>9. \A q \in Plans : TableOK(q)'
  BY <1>2, <1>3 DEF TableOK
<1>10. \A q \in Plans \ {r.p} : Managed(q) => Managed(q)'
  BY <1>2, <1>4 DEF Managed
<1>11. x.pc \in Busy
  BY <1>5 DEF Busy
<1> QED
  BY <1>2, <1>3, <1>5, <1>8, <1>9, <1>10, <1>11, SoloMoves

\* The trade follows, and the three tables agree again.
LEMMA RecordEntryFillSolo ==
    ASSUME IInv, SoloInv, OneProcess, NEW w \in Workers, RecordEntryFill(w)
    PROVE  FollowInv'
<1>1. PICK r, x : r = wk[w] /\ x = EndOfReconcile(r)
  OBVIOUS
<1>2. /\ r.pc = "record" /\ r.pc \in Busy /\ UNCHANGED <<order, pos, ex, faults>>
      /\ wk' = [wk EXCEPT ![w] = x]
      /\ trade' = [trade EXCEPT ![r.p] =
                      IF trade[r.p] < r.row.filled THEN r.row.filled ELSE trade[r.p]]
  BY <1>1 DEF RecordEntryFill, At, Become, Busy
<1>3. /\ r \in WorkerState /\ r.p \in Plans /\ CallerOK(r) /\ r.row \in Row
      /\ \A q \in Plans : TableOK(q)
      /\ faults = 0 => \A q \in Plans \ {r.p} : Managed(q)
      /\ trade[r.p] \in Nat /\ r.row.filled \in Nat
  <2>1. /\ r \in WorkerState /\ r.p \in Plans /\ CallerOK(r)
        /\ \A q \in Plans : TableOK(q)
        /\ faults = 0 => \A q \in Plans \ {r.p} : Managed(q)
    BY <1>1, <1>2, WorkerFacts, SoloFacts DEF Loops
  <2>2. r.row \in Row /\ r.row.filled \in Nat
    BY <2>1, QAssumption DEF WorkerState, Row
  <2>3. trade[r.p] \in Nat
    BY <2>1, QAssumption DEF IInv, SharedType
  <2> QED
    BY <2>1, <2>2, <2>3
<1>4. /\ order[r.p].filled = r.row.filled /\ trade[r.p] <= r.row.filled
      /\ order[r.p].st = LifecycleState(r)
      /\ pos[r.p].qty = r.row.filled /\ pos[r.p].prot = r.prot
  BY <1>2, <1>3 DEF CallerOK, ApplyOK
<1>5. trade'[r.p] = r.row.filled /\ \A q \in Plans \ {r.p} : trade'[q] = trade[q]
  <2>1. (IF trade[r.p] < r.row.filled THEN r.row.filled ELSE trade[r.p]) = r.row.filled
    BY <1>3, <1>4
  <2>2. trade' = [trade EXCEPT ![r.p] = r.row.filled]
    BY <1>2, <2>1
  <2> QED
    BY <1>3, <2>2 DEF IInv, SharedType
<1>6. CallerOK(x)'
  BY <1>1, <1>2, <1>3, <1>4, EndCaller
<1>7. \A q \in Plans : TableOK(q)'
  BY <1>2, <1>3 DEF TableOK
<1>8. Managed(r.p)'
  <2>1. r.prot \in BOOLEAN
    BY <1>3 DEF WorkerState
  <2>2. /\ LifecycleState(r) = "FILLED" => r.prot = TRUE
        /\ LifecycleState(r) = "POSITION_UNPROTECTED" => r.prot = FALSE
    BY <1>3, <2>1, LifecycleFacts
  <2> QED
    BY <1>2, <1>4, <1>5, <2>2 DEF Managed
<1>9. \A q \in Plans \ {r.p} : Managed(q) => Managed(q)'
  BY <1>2, <1>5 DEF Managed
<1> QED
  BY <1>2, <1>3, <1>6, <1>7, <1>8, <1>9, SoloMoves

\* A fill without an average price leaves the trade behind: a fault.
LEMMA RecordEntryFillNoAverageSolo ==
    ASSUME IInv, SoloInv, OneProcess, NEW w \in Workers, RecordEntryFillNoAverage(w)
    PROVE  FollowInv'
<1>1. PICK r, x : r = wk[w] /\ x = EndOfReconcile(r)
  OBVIOUS
<1>2. /\ r.pc = "record" /\ r.pc \in Busy /\ UNCHANGED <<order, pos, trade, ex>>
      /\ faults' = faults + 1 /\ wk' = [wk EXCEPT ![w] = x]
  BY <1>1 DEF RecordEntryFillNoAverage, At, Become, Busy
<1>3. /\ r \in WorkerState /\ r.p \in Plans /\ CallerOK(r)
  BY <1>1, <1>2, WorkerFacts, SoloFacts DEF Loops
<1>4. order[r.p].st = LifecycleState(r)
  BY <1>2, <1>3 DEF CallerOK, ApplyOK
<1>5. CallerOK(x)'
  BY <1>1, <1>2, <1>3, <1>4, EndCaller
<1>6. faults' # 0
  BY <1>2, MaxFaultsAssumption DEF IInv, SharedType
<1> QED
  BY <1>2, <1>5, <1>6, QuietMoves

\* The cancel request is recorded again.
LEMMA RestoreCancelRequestSolo ==
    ASSUME IInv, SoloInv, OneProcess, NEW w \in Workers, RestoreCancelRequest(w)
    PROVE  FollowInv'
<1>1. PICK r : r = wk[w]
  OBVIOUS
<1>2. PICK x : /\ r.pc = "restore" /\ UNCHANGED <<pos, trade, ex, faults>>
               /\ wk' = [wk EXCEPT ![w] = x]
               /\ \/ x = AfterReconcile(r, "CANCEL_REQUESTED", ReportedManagedState(r))
                  \/ x = Raised(r)
               /\ order' = order \/ order' = [order EXCEPT ![r.p].st = "CANCEL_REQUESTED"]
  BY <1>1 DEF RestoreCancelRequest, At, Become, SetState
<1>3. /\ r \in WorkerState /\ r.p \in Plans /\ CallerOK(r) /\ r.pc \notin Busy
  BY <1>1, <1>2, WorkerFacts, SoloFacts DEF Loops, Busy
<1>4. Leaves(r, x)
  BY <1>2, <1>3, AfterReconcileLeaves, RaisedLeaves
<1>5. order'[r.p].st \notin {"PLANNED", "APPROVED", "SUBMISSION_UNKNOWN"}
  <2>1. CASE order' = order
    BY <1>2, <1>3, <2>1 DEF CallerOK, CancelOK
  <2>2. CASE order' = [order EXCEPT ![r.p].st = "CANCEL_REQUESTED"]
    <3>1. order'[r.p].st = "CANCEL_REQUESTED"
      BY <1>3, <2>2, StateSet DEF IInv
    <3> QED
      BY <3>1
  <2> QED
    BY <1>2, <2>1, <2>2
<1> QED
  BY <1>1, <1>2, <1>3, <1>4, <1>5, StateAndGo

(***************************************************************************)
(* recover_active_orders, cancel_pending_entries and cancel.               *)
(***************************************************************************)
\* store.active_orders() says what the table says.
LEMMA SnapshotSolo ==
    ASSUME IInv, SoloInv, OneProcess, NEW w \in Workers, wk[w].pc = "idle", NEW states,
           NEW pc \in {"recoverLoop", "cancelLoop"},
           wk' = [wk EXCEPT ![w] = [Idle EXCEPT !.pc = pc, !.snap = Snapshot(states)]],
           UNCHANGED <<order, pos, trade, ex, faults>>
    PROVE  FollowInv'
<1>1. PICK x : x = [Idle EXCEPT !.pc = pc, !.snap = Snapshot(states)]
  OBVIOUS
<1>2. x.pc = pc /\ x.p = NoPlan /\ x.was = FALSE /\ x.snap = Snapshot(states)
  BY <1>1 DEF Idle
<1>3. \A q \in Plans : Snapshot(states)[q] = "APPROVED" => order[q].st = "APPROVED"
  BY DEF Snapshot
<1>4. SnapOK(x)'
  BY <1>2, <1>3, NoPlanAssumption DEF SnapOK
<1>5. CallerOK(x)'
  <2>1. x.pc \in Quiet /\ x.was # TRUE
    BY <1>2 DEF Quiet
  <2> QED
    BY <1>4, <2>1, QuietCaller
<1>6. wk[w].pc \notin Busy
  BY DEF Busy
<1> QED
  BY <1>1, <1>5, <1>6, QuietMoves

\* The two passes over the active orders begin.
LEMMA PassesSolo ==
    ASSUME IInv, SoloInv, OneProcess, NEW w \in Workers,
           RecoverActiveOrders(w) \/ CancelPendingEntries(w)
    PROVE  FollowInv'
<1>1. CASE RecoverActiveOrders(w)
  BY <1>1, SnapshotSolo DEF RecoverActiveOrders, At, Become
<1>2. CASE CancelPendingEntries(w)
  BY <1>2, SnapshotSolo DEF CancelPendingEntries, At, Become
<1> QED
  BY <1>1, <1>2

\* A pass takes a plan off its list.
LEMMA TakesPlan ==
    ASSUME IInv, SoloInv, OneProcess, NEW w \in Workers, NEW r, r = wk[w], NEW p \in Plans,
           NEW x, x.pc \in Quiet, x.was # TRUE, x.p = p, x.snap = [r.snap EXCEPT ![p] = "NONE"],
           UNCHANGED order
    PROVE  CallerOK(x)'
<1>1. r \in WorkerState /\ SnapOK(r)
  BY SoloFacts DEF CallerOK
<1>2. r.snap \in [Plans -> OrderState \cup {"NONE"}]
  BY <1>1 DEF WorkerState
<1>3. x.snap[p] = "NONE" /\ \A q \in Plans \ {p} : x.snap[q] = r.snap[q]
  BY <1>2
<1>4. \A q \in Plans : x.snap[q] = "APPROVED" => r.snap[q] = "APPROVED"
  BY <1>3
<1>5. x.snap[x.p] # "APPROVED"
  BY <1>3
<1>6. SnapOK(x)'
  BY <1>1, <1>4, <1>5 DEF SnapOK
<1> QED
  BY <1>6, QuietCaller

\* The recovery pass looks up the next order, or ends.
LEMMA RecoverNextSolo ==
    ASSUME IInv, SoloInv, OneProcess, NEW w \in Workers, RecoverNext(w)
    PROVE  FollowInv'
<1>1. PICK r : r = wk[w]
  OBVIOUS
<1>2. r.pc = "recoverLoop" /\ UNCHANGED <<order, pos, trade, ex, faults>>
  BY <1>1 DEF RecoverNext, At
<1>3. r \in WorkerState /\ r.was # TRUE /\ wk[w].pc \notin Busy /\ r.pc \notin Busy
  BY <1>1, <1>2, SoloFacts, NoRequestFound DEF Busy
<1>4. ASSUME NEW p \in Plans,
             wk' = [wk EXCEPT ![w] = [r EXCEPT !.pc = "lookup", !.p = p, !.lane = "recover",
                                               !.snap[p] = "NONE"]]
      PROVE  FollowInv'
  <2>1. PICK x : x = [r EXCEPT !.pc = "lookup", !.p = p, !.lane = "recover",
                               !.snap = [r.snap EXCEPT ![p] = "NONE"]]
    OBVIOUS
  <2>2. x.pc = "lookup" /\ x.p = p /\ x.was = r.was /\ x.snap = [r.snap EXCEPT ![p] = "NONE"]
    BY <1>3, <2>1 DEF WorkerState
  <2>3. wk' = [wk EXCEPT ![w] = x]
    BY <1>4, <2>1
  <2>4. CallerOK(x)'
    <3>1. x.pc \in Quiet /\ x.was # TRUE
      BY <1>3, <2>2 DEF Quiet
    <3> QED
      BY <1>1, <1>2, <2>2, <3>1, TakesPlan
  <2> QED
    BY <1>2, <1>3, <2>3, <2>4, QuietMoves
<1>5. CASE wk' = [wk EXCEPT ![w] = Idle]
  <2>1. Idle.pc = "idle" /\ Idle.was = FALSE /\ Idle.p = NoPlan /\ Idle.snap = NoSnap
    BY DEF Idle
  <2>2. SnapOK(Idle)'
    BY <2>1, NoPlanAssumption DEF SnapOK, NoSnap
  <2>3. CallerOK(Idle)'
    <3>1. Idle.pc \in Quiet /\ Idle.was # TRUE
      BY <2>1 DEF Quiet
    <3> QED
      BY <2>2, <3>1, QuietCaller
  <2> QED
    BY <1>2, <1>3, <1>5, <2>3, QuietMoves
<1> QED
  BY <1>1, <1>4, <1>5 DEF RecoverNext, Become

\* The cancel pass refuses an unsent entry locally, goes on with a sent one,
\* or ends.
LEMMA CancelNextSolo ==
    ASSUME IInv, SoloInv, OneProcess, NEW w \in Workers, CancelNext(w)
    PROVE  FollowInv'
<1>1. PICK r : r = wk[w]
  OBVIOUS
<1>2. r.pc = "cancelLoop" /\ UNCHANGED <<pos, trade, ex, faults>>
  BY <1>1 DEF CancelNext, At
<1>3. /\ r \in WorkerState /\ r.was # TRUE /\ wk[w].pc \notin Busy /\ r.pc \notin Busy
      /\ SnapOK(r) /\ r.snap \in [Plans -> OrderState \cup {"NONE"}]
  BY <1>1, <1>2, SoloFacts, NoRequestFound DEF Busy, CallerOK, WorkerState
<1>4. CASE order' = order /\ wk' = [wk EXCEPT ![w] = Idle]
  <2>1. Idle.pc = "idle" /\ Idle.was = FALSE /\ Idle.p = NoPlan /\ Idle.snap = NoSnap
    BY DEF Idle
  <2>2. SnapOK(Idle)'
    BY <2>1, NoPlanAssumption DEF SnapOK, NoSnap
  <2>3. CallerOK(Idle)'
    <3>1. Idle.pc \in Quiet /\ Idle.was # TRUE
      BY <2>1 DEF Quiet
    <3> QED
      BY <2>2, <3>1, QuietCaller
  <2> QED
    BY <1>2, <1>3, <1>4, <2>3, QuietMoves
<1>5. ASSUME NEW p \in Plans, NEW y, y = [r EXCEPT !.p = p, !.snap[p] = "NONE"],
             \/ /\ r.snap[p] = "APPROVED" /\ order' = [order EXCEPT ![p].st = "REJECTED"]
                /\ wk' = [wk EXCEPT ![w] = Loop(y, "cancelLoop")]
             \/ /\ order' = order
                /\ wk' = [wk EXCEPT ![w] = [y EXCEPT !.pc = "lookup", !.lane = "pre"]]
             \/ /\ order' = order
                /\ wk' = [wk EXCEPT ![w] = [y EXCEPT !.pc = "cancel"]]
      PROVE  FollowInv'
  <2>1. /\ y = [r EXCEPT !.p = p, !.snap = [r.snap EXCEPT ![p] = "NONE"]]
        /\ [r.snap EXCEPT ![p] = "NONE"] \in [Plans -> OrderState \cup {"NONE"}]
    BY <1>3, <1>5
  <2>2. y \in WorkerState
    BY <1>3, <2>1, Zenon DEF WorkerState
  <2>3. y.p = p /\ y.was = r.was /\ y.snap = [r.snap EXCEPT ![p] = "NONE"]
    BY <1>3, <2>1 DEF WorkerState
  <2>4. CASE /\ r.snap[p] = "APPROVED" /\ order' = [order EXCEPT ![p].st = "REJECTED"]
             /\ wk' = [wk EXCEPT ![w] = Loop(y, "cancelLoop")]
    <3>1. PICK x : x = Loop(y, "cancelLoop")
      OBVIOUS
    <3>2. x.pc = "cancelLoop" /\ x.was = FALSE /\ x.p = NoPlan
          /\ x.snap = [r.snap EXCEPT ![p] = "NONE"]
      BY <2>2, <2>3, <3>1, LoopLeaves
    <3>3. x.snap[p] = "NONE" /\ \A q \in Plans \ {p} : x.snap[q] = r.snap[q]
      BY <1>3, <3>2
    <3>4. /\ order'[p].st = "REJECTED" /\ order'[p].filled = order[p].filled
          /\ \A q \in Plans \ {p} : order'[q] = order[q]
      BY <2>4, StateSet DEF IInv
    <3>5. SnapOK(x)'
      <4>1. \A q \in Plans : x.snap[q] = "APPROVED" => r.snap[q] = "APPROVED"
        BY <3>3
      <4> QED
        BY <1>3, <3>2, <3>3, <3>4, <4>1, SnapMoves, NoPlanAssumption
    <3>6. CallerOK(x)'
      <4>1. x.pc \in Quiet /\ x.was # TRUE
        BY <3>2 DEF Quiet
      <4> QED
        BY <3>5, <4>1, QuietCaller
    <3>7. order[p].filled = 0 /\ ex[p].st = "none"
      <4>1. order[p].st = "APPROVED" /\ TableOK(p) /\ OrderOK(p) /\ ExchangeOK(p)
        BY <1>1, <1>3, <2>4, SoloFacts DEF SnapOK, IInv, SharedOK
      <4> QED
        BY <4>1 DEF TableOK, OrderOK, ExchangeOK
    <3> QED
      BY <1>2, <1>3, <2>4, <3>1, <3>4, <3>6, <3>7, StateMoves
  <2>5. CASE /\ order' = order
             /\ wk' = [wk EXCEPT ![w] = [y EXCEPT !.pc = "lookup", !.lane = "pre"]]
    <3>1. PICK x : x = [y EXCEPT !.pc = "lookup", !.lane = "pre"]
      OBVIOUS
    <3>2. x.pc = "lookup" /\ x.was = r.was /\ x.p = p /\ x.snap = [r.snap EXCEPT ![p] = "NONE"]
      BY <2>2, <2>3, <3>1 DEF WorkerState
    <3>3. x.pc \in Quiet /\ x.was # TRUE
      BY <1>3, <3>2 DEF Quiet
    <3>4. CallerOK(x)'
      BY <1>1, <2>5, <3>2, <3>3, TakesPlan
    <3> QED
      BY <1>2, <1>3, <2>5, <3>1, <3>4, QuietMoves
  <2>6. CASE order' = order /\ wk' = [wk EXCEPT ![w] = [y EXCEPT !.pc = "cancel"]]
    <3>1. PICK x : x = [y EXCEPT !.pc = "cancel"]
      OBVIOUS
    <3>2. x.pc = "cancel" /\ x.was = r.was /\ x.p = p /\ x.snap = [r.snap EXCEPT ![p] = "NONE"]
      BY <2>2, <2>3, <3>1 DEF WorkerState
    <3>3. x.pc \in Quiet /\ x.was # TRUE
      BY <1>3, <3>2 DEF Quiet
    <3>4. CallerOK(x)'
      BY <1>1, <2>6, <3>2, <3>3, TakesPlan
    <3> QED
      BY <1>2, <1>3, <2>6, <3>1, <3>4, QuietMoves
  <2> QED
    BY <1>5, <2>4, <2>5, <2>6
<1> QED
  BY <1>1, <1>4, <1>5 DEF CancelNext, Become, SetState

\* Nothing to cancel, or the cancel is requested already.
LEMMA CancelWithoutRequestSolo ==
    ASSUME IInv, SoloInv, OneProcess, NEW w \in Workers, CancelWithoutRequest(w)
    PROVE  FollowInv'
<1>1. PICK r : r = wk[w]
  OBVIOUS
<1>2. PICK x : /\ r.pc = "cancel" /\ UNCHANGED <<order, pos, trade, ex, faults>>
               /\ wk' = [wk EXCEPT ![w] = x]
               /\ x = Loop(r, "cancelLoop") \/ x = StartLane(r, "cancel")
  BY <1>1 DEF CancelWithoutRequest, At, Become
<1>3. r \in WorkerState /\ r.p \in Plans
  BY <1>1, <1>2, WorkerFacts DEF Loops
<1>4. r.was # TRUE /\ r.pc \notin Busy
  BY <1>1, <1>2, NoRequestFound DEF Busy
<1>5. Leaves(r, x)
  BY <1>2, <1>3, <1>4, LoopLeaves, StartLaneLeaves
<1> QED
  BY <1>1, <1>2, <1>3, <1>4, <1>5, StateAndGo

\* A cancel request ends nothing by itself; only a working order's is acknowledged.
LEMMA RequestCancelSolo ==
    ASSUME IInv, SoloInv, OneProcess, NEW w \in Workers, NEW p \in Plans,
           NEW acked, NEW refused, RequestCancel(w, p, acked, refused),
           UNCHANGED <<order, pos, trade, faults>>, wk[w].pc \notin Busy,
           acked.pc = "cancelAcked", acked.p = p, acked.was # TRUE, SnapOK(acked),
           CallerOK(refused)'
    PROVE  FollowInv'
<1>1. PICK x \in {acked, refused} : /\ wk' = [wk EXCEPT ![w] = x]
                                    /\ x = refused \/ ex[p].st = "live"
  BY DEF RequestCancel, Become
<1>2. \A q \in Plans : ex'[q].st = ex[q].st /\ ex'[q].filled = ex[q].filled
  <2>1. CASE ex' = [ex EXCEPT ![p].creq = TRUE]
    BY <2>1 DEF IInv, SharedType
  <2>2. CASE ex' = ex
    BY <2>2
  <2> QED
    BY <2>1, <2>2 DEF RequestCancel
<1>3. /\ TableOK(p) /\ OrderOK(p) /\ ExchangeOK(p) /\ \A q \in Plans : TableOK(q)
      /\ faults = 0 => \A q \in Plans : Managed(q)
      /\ order[p].st \in OrderState
  BY SoloFacts DEF IInv, SharedOK, SharedType
<1>4. ex[p].st = "live" => order[p].st \in (ACTIVE_ORDER_STATES \ {"APPROVED"}) \cup {"CLOSED"}
  BY <1>3 DEF TableOK, OrderOK, ExchangeOK, OrderState, ACTIVE_ORDER_STATES
<1>5. SnapOK(acked)'
  BY DEF SnapOK
<1>6. ex[p].st = "live" => CallerOK(acked)'
  BY <1>4, <1>5 DEF CallerOK, SubmitOK, FreshOK, ApplyOK, CancelOK, Busy
<1>7. CallerOK(x)'
  BY <1>1, <1>6
<1>8. \A q \in Plans : TableOK(q)'
  BY <1>2, <1>3 DEF TableOK
<1>9. \A q \in Plans : Managed(q) => Managed(q)'
  BY DEF Managed
<1> QED
  BY <1>1, <1>3, <1>7, <1>8, <1>9, SoloMoves

\* An iteration of the cancel pass that asks the exchange.
LEMMA CancelEntrySolo ==
    ASSUME IInv, SoloInv, OneProcess, NEW w \in Workers, CancelEntry(w)
    PROVE  FollowInv'
<1>1. PICK r, y : r = wk[w] /\ y = [r EXCEPT !.pc = "cancelAcked"]
  OBVIOUS
<1>2. /\ r.pc = "cancel" /\ UNCHANGED <<order, pos, trade, faults>>
      /\ RequestCancel(w, r.p, y, Loop(r, "cancelLoop"))
  BY <1>1 DEF CancelEntry, At
<1>3. /\ r \in WorkerState /\ r.p \in Plans /\ SnapOK(r) /\ r.was # TRUE
      /\ wk[w].pc \notin Busy
  BY <1>1, <1>2, WorkerFacts, SoloFacts, NoRequestFound DEF Loops, Busy, CallerOK
<1>4. y.pc = "cancelAcked" /\ y.p = r.p /\ y.was = r.was /\ y.snap = r.snap
  BY <1>1, <1>3 DEF WorkerState
<1>5. SnapOK(y)
  BY <1>3, <1>4 DEF SnapOK
<1>6. CallerOK(Loop(r, "cancelLoop"))'
  BY <1>1, <1>2, <1>3, LoopLeaves, LeavesOK
<1> QED
  BY <1>2, <1>3, <1>4, <1>5, <1>6, RequestCancelSolo

\* The operator's cancel of one order.
LEMMA CancelSolo ==
    ASSUME IInv, SoloInv, OneProcess, NEW w \in Workers, NEW p \in Plans, Cancel(w, p)
    PROVE  FollowInv'
<1>1. PICK y : y = [Idle EXCEPT !.pc = "cancelAcked", !.p = p]
  OBVIOUS
<1>2. /\ wk[w].pc = "idle" /\ UNCHANGED <<order, pos, trade, faults>>
      /\ RequestCancel(w, p, y, Idle)
  BY <1>1 DEF Cancel, At
<1>3. y.pc = "cancelAcked" /\ y.p = p /\ y.was = FALSE /\ y.snap = NoSnap
  BY <1>1 DEF Idle
<1>4. SnapOK(y)
  BY <1>3 DEF SnapOK, NoSnap
<1>5. Idle.pc = "idle" /\ Idle.was = FALSE /\ Idle.p = NoPlan /\ Idle.snap = NoSnap
  BY DEF Idle
<1>6. SnapOK(Idle)'
  BY <1>5, NoPlanAssumption DEF SnapOK, NoSnap
<1>7. CallerOK(Idle)'
  <2>1. Idle.pc \in Quiet /\ Idle.was # TRUE
    BY <1>5 DEF Quiet
  <2> QED
    BY <1>6, <2>1, QuietCaller
<1>8. wk[w].pc \notin Busy /\ y.was # TRUE
  BY <1>2, <1>3 DEF Busy
<1> QED
  BY <1>2, <1>3, <1>4, <1>7, <1>8, RequestCancelSolo

\* An acknowledged cancel is recorded and followed.
LEMMA RecordCancelAckSolo ==
    ASSUME IInv, SoloInv, OneProcess, NEW w \in Workers, RecordCancelAck(w)
    PROVE  FollowInv'
<1>1. PICK r : r = wk[w]
  OBVIOUS
<1>2. PICK x : /\ r.pc = "cancelAcked" /\ UNCHANGED <<pos, trade, ex, faults>>
               /\ wk' = [wk EXCEPT ![w] = x]
               /\ x = Loop(r, "cancelLoop") \/ x = StartLane(r, "cancel")
               /\ order' = order \/ order' = [order EXCEPT ![r.p].st = "CANCEL_REQUESTED"]
  BY <1>1 DEF RecordCancelAck, At, Become, SetState
<1>3. r \in WorkerState /\ r.p \in Plans
  BY <1>1, <1>2, WorkerFacts DEF Loops
<1>4. r.was # TRUE /\ r.pc \notin Busy
  BY <1>1, <1>2, NoRequestFound DEF Busy
<1>5. Leaves(r, x)
  <2>1. Leaves(r, Loop(r, "cancelLoop")) /\ Leaves(r, StartLane(r, "cancel"))
    BY <1>3, <1>4, LoopLeaves, StartLaneLeaves
  <2> QED
    BY <1>2, <2>1
<1> QED
  BY <1>1, <1>2, <1>3, <1>4, <1>5, StateAndGo

\* The cancel lane ran out; the request stays recorded.
LEMMA CancelLaneExhaustedSolo ==
    ASSUME IInv, SoloInv, OneProcess, NEW w \in Workers, CancelLaneExhausted(w)
    PROVE  FollowInv'
<1>1. PICK r, x : r = wk[w] /\ x = Loop(r, "cancelLoop")
  OBVIOUS
<1>2. /\ r.pc = "exhausted" /\ UNCHANGED <<pos, trade, ex, faults>>
      /\ wk' = [wk EXCEPT ![w] = x]
      /\ order' = order \/ order' = [order EXCEPT ![r.p].st = "CANCEL_REQUESTED"]
  BY <1>1 DEF CancelLaneExhausted, At, Become, SetState
<1>3. r \in WorkerState /\ r.p \in Plans /\ CallerOK(r) /\ r.pc \notin Busy
  BY <1>1, <1>2, WorkerFacts, SoloFacts DEF Loops, Busy
<1>4. Leaves(r, x)
  BY <1>1, <1>3, LoopLeaves
<1>5. r.was = TRUE => order'[r.p].st \notin {"PLANNED", "APPROVED", "SUBMISSION_UNKNOWN"}
  <2>1. CASE order' = order
    BY <1>2, <1>3, <2>1 DEF CallerOK, CancelOK
  <2>2. CASE order' = [order EXCEPT ![r.p].st = "CANCEL_REQUESTED"]
    <3>1. order'[r.p].st = "CANCEL_REQUESTED"
      BY <1>3, <2>2, StateSet DEF IInv
    <3> QED
      BY <3>1
  <2> QED
    BY <1>2, <2>1, <2>2
<1> QED
  BY <1>1, <1>2, <1>3, <1>4, <1>5, StateAndGo

(***************************************************************************)
(* Failures, the exchange, and plans that are rejected unsent.             *)
(***************************************************************************)
\* A crash leaves the tables as they are, and is a fault.
LEMMA CrashSolo ==
    ASSUME IInv, SoloInv, OneProcess, NEW w \in Workers, Crash(w)
    PROVE  FollowInv'
<1>1. /\ UNCHANGED <<order, pos, trade, ex>> /\ faults' = faults + 1
      /\ wk' = [wk EXCEPT ![w] = Idle]
  BY DEF Crash, Become
<1>2. Idle.pc = "idle" /\ Idle.was = FALSE /\ Idle.p = NoPlan /\ Idle.snap = NoSnap
  BY DEF Idle
<1>3. SnapOK(Idle)'
  BY <1>2, NoPlanAssumption DEF SnapOK, NoSnap
<1>4. CallerOK(Idle)'
  <2>1. Idle.pc \in Quiet /\ Idle.was # TRUE
    BY <1>2 DEF Quiet
  <2> QED
    BY <1>3, <2>1, QuietCaller
<1>5. faults' # 0
  BY <1>1, MaxFaultsAssumption DEF IInv, SharedType
<1> QED
  BY <1>1, <1>4, <1>5, QuietMoves

\* What a step of the exchange does to one order.
LEMMA ExchangeMovesSolo ==
    ASSUME IInv, SoloInv, NEW p \in Plans,
           UNCHANGED <<order, pos, trade, wk, faults>>,
           \A q \in Plans \ {p} : ex'[q] = ex[q],
           ex[p].filled <= ex'[p].filled, ex'[p].filled \in Nat,
           ex[p].st \in {"none", "rejected"} => ex'[p].st = ex[p].st
    PROVE  FollowInv'
<1>1. /\ \A q \in Plans : /\ TableOK(q) /\ order[q].filled \in Nat /\ ex[q].filled \in Nat
      /\ \A w \in Workers : CallerOK(wk[w]) /\ (wk[w].pc \notin Loops => wk[w].p \in Plans)
      /\ ManagedOK
  BY QAssumption DEF SoloInv, FollowInv, IInv, SharedType, WorkersType
<1>2. \A q \in Plans : /\ ex'[q].filled \in Nat /\ ex[q].filled <= ex'[q].filled
                       /\ ex[q].st \in {"none", "rejected"} => ex'[q].st = ex[q].st
  BY <1>1
<1>3. ASSUME NEW q \in Plans PROVE TableOK(q)'
  <2>1. order[q].filled <= ex'[q].filled
    <3>1. order[q].filled <= ex[q].filled
      BY <1>1 DEF TableOK
    <3> QED
      BY <1>1, <1>2, <3>1
  <2> QED
    BY <1>1, <1>2, <2>1 DEF TableOK
<1>4. ASSUME NEW w \in Workers PROVE CallerOK(wk[w])'
  <2>1. PICK r : r = wk[w]
    OBVIOUS
  <2>2. CallerOK(r) /\ (r.pc \notin Loops => r.p \in Plans)
    BY <1>1, <2>1
  <2>3. SubmitOK(r)'
    BY <1>2, <2>2 DEF CallerOK, SubmitOK, Loops
  <2>4. FreshOK(r)'
    BY <1>2, <2>2 DEF CallerOK, FreshOK, Loops
  <2>5. ApplyOK(r)'
    BY <2>2 DEF CallerOK, ApplyOK
  <2>6. CancelOK(r)' /\ SnapOK(r)'
    BY <2>2 DEF CallerOK, CancelOK, SnapOK
  <2>7. CallerOK(r)'
    BY <2>3, <2>4, <2>5, <2>6 DEF CallerOK
  <2>8. wk'[w] = r
    BY <2>1
  <2> QED
    BY <2>7, <2>8 DEF CallerOK, SubmitOK, FreshOK, ApplyOK, CancelOK, SnapOK
<1>5. ManagedOK'
  BY <1>1 DEF ManagedOK, Managed
<1> QED
  BY <1>3, <1>4, <1>5 DEF SoloInv, FollowInv

\* The exchange fills and ends what works, nothing else.
LEMMA ExchangeSolo ==
    ASSUME IInv, SoloInv, NEW p \in Plans, Exchange(p)
    PROVE  FollowInv'
<1>1. /\ ex \in [Plans -> [st : ExState, filled : 0..Q, creq : BOOLEAN]]
      /\ ex[p] \in [st : ExState, filled : 0..Q, creq : BOOLEAN]
      /\ ex[p].filled \in Nat
  BY QAssumption DEF IInv, SharedType
<1>2. UNCHANGED <<order, pos, trade, wk, faults>>
  BY DEF Exchange, ExArrive, ExFill, ExCancel, ExReject, ExProtect
<1>3. CASE ExArrive(p) \/ ExCancel(p) \/ ExReject(p)
  <2>1. PICK st : ex' = [ex EXCEPT ![p].st = st] /\ ex[p].st \in {"transit", "live"}
    BY <1>3 DEF ExArrive, ExCancel, ExReject
  <2>2. ex'[p].filled = ex[p].filled /\ \A q \in Plans \ {p} : ex'[q] = ex[q]
    BY <1>1, <2>1
  <2> QED
    BY <1>1, <1>2, <2>1, <2>2, ExchangeMovesSolo
<1>4. CASE ExFill(p)
  <2>1. PICK st : /\ ex' = [ex EXCEPT ![p].filled = ex[p].filled + 1, ![p].st = st]
                  /\ ex[p].st = "live"
    BY <1>4 DEF ExFill
  <2>2. ex'[p].filled = ex[p].filled + 1 /\ \A q \in Plans \ {p} : ex'[q] = ex[q]
    BY <1>1, <2>1
  <2> QED
    BY <1>1, <1>2, <2>1, <2>2, ExchangeMovesSolo
<1>5. CASE ExProtect(p)
  <2>1. ex' = ex
    BY <1>5 DEF ExProtect
  <2> QED
    BY <1>1, <1>2, <2>1, ExchangeMovesSolo
<1> QED
  BY <1>3, <1>4, <1>5 DEF Exchange

\* store.reject_plan touches no order a worker has taken.
LEMMA RejectPlanSolo ==
    ASSUME IInv, SoloInv, NEW p \in Plans, RejectPlan(p)
    PROVE  FollowInv'
<1>1. /\ order[p].st = "PLANNED" /\ order' = [order EXCEPT ![p].st = "REJECTED"]
      /\ UNCHANGED <<pos, trade, ex, wk, faults>>
  BY DEF RejectPlan, SetState
<1>2. /\ order'[p].st = "REJECTED" /\ order'[p].filled = order[p].filled
      /\ \A q \in Plans \ {p} : order'[q] = order[q]
  BY <1>1, StateSet DEF IInv
<1>3. /\ \A q \in Plans : TableOK(q)
      /\ \A w \in Workers : CallerOK(wk[w]) /\ WorkerOK(wk[w]) /\ wk[w] \in WorkerState
      /\ ManagedOK /\ ExchangeOK(p) /\ OrderOK(p)
  BY DEF SoloInv, FollowInv, IInv, WorkersOK, SharedOK, WorkersType
<1>4. ASSUME NEW q \in Plans PROVE TableOK(q)'
  <2>1. CASE q = p
    BY <1>1, <1>2, <1>3, <2>1 DEF TableOK, ExchangeOK, OrderOK
  <2>2. CASE q # p
    BY <1>1, <1>2, <1>3, <2>2 DEF TableOK
  <2> QED
    BY <2>1, <2>2
<1>5. ASSUME NEW w \in Workers PROVE CallerOK(wk[w])'
  <2>1. PICK r : r = wk[w]
    OBVIOUS
  <2>2. CallerOK(r) /\ r \in WorkerState
    BY <1>3, <2>1
  <2>3. r.p \in Plans \/ r.pc \in Loops
    BY <2>1 DEF IInv, WorkersType
  <2>4. SnapOK(r)'
    BY <1>1, <1>2, <2>2 DEF CallerOK, SnapOK
  <2>5. CASE r.p = p
    <3>1. r.row \in Row
      BY <2>2 DEF WorkerState
    <3>2. /\ RemoteState(r) # "PLANNED" /\ LifecycleState(r) # "PLANNED"
      BY <3>1, RemoteStateFacts, LifecycleFacts
    <3>3. r.pc \notin {"approved", "send", "rejected", "unknown", "acked", "apply", "protect",
                       "verify", "upsert", "record", "restore", "cancelAcked"}
      BY <1>1, <2>2, <2>5, <3>2
      DEF CallerOK, SubmitOK, FreshOK, ApplyOK, CancelOK, ACTIVE_ORDER_STATES
    <3>4. r.was # TRUE
      BY <1>1, <2>2, <2>5, <3>3 DEF CallerOK, CancelOK, Busy
    <3>5. CallerOK(r)'
      BY <2>4, <3>3, <3>4 DEF CallerOK, SubmitOK, FreshOK, ApplyOK, CancelOK, Busy
    <3> QED
      BY <1>1, <2>1, <3>5 DEF CallerOK, SubmitOK, FreshOK, ApplyOK, CancelOK, SnapOK
  <2>6. CASE r.p # p
    <3>1. r.p \in Plans => order'[r.p] = order[r.p]
      BY <1>2, <2>6
    <3>2. SubmitOK(r)' /\ FreshOK(r)'
      BY <1>1, <2>2, <2>3, <3>1 DEF CallerOK, SubmitOK, FreshOK, Loops
    <3>3. ApplyOK(r)'
      BY <1>1, <2>2, <2>3, <3>1 DEF CallerOK, ApplyOK, Loops, Busy
    <3>4. CancelOK(r)'
      BY <1>1, <2>2, <2>3, <3>1 DEF CallerOK, CancelOK, Loops, Busy
    <3>5. CallerOK(r)'
      BY <2>4, <3>2, <3>3, <3>4 DEF CallerOK
    <3> QED
      BY <1>1, <2>1, <3>5 DEF CallerOK, SubmitOK, FreshOK, ApplyOK, CancelOK, SnapOK
  <2> QED
    BY <2>5, <2>6
<1>6. \A q \in Plans : Managed(q) => Managed(q)'
  <2> SUFFICES ASSUME NEW q \in Plans, Managed(q) PROVE Managed(q)'
    OBVIOUS
  <2>1. CASE q = p
    BY <1>1, <1>2, <2>1 DEF Managed
  <2>2. CASE q # p
    BY <1>1, <1>2, <2>2 DEF Managed
  <2> QED
    BY <2>1, <2>2
<1>7. ManagedOK'
  BY <1>1, <1>3, <1>6 DEF ManagedOK
<1> QED
  BY <1>4, <1>5, <1>7 DEF SoloInv, FollowInv

(***************************************************************************)
(* No step closes a row, and nobody takes up a closed one.                 *)
(***************************************************************************)
\* What a step other than an approval may do to an order row: a closed row
\* stays as it is, none is closed, and an unapproved or rejected plan gets no
\* order.
RowStep(p) ==
    \/ order'[p] = order[p]
    \/ /\ order[p].st # "CLOSED" /\ order'[p].st # "CLOSED"
       /\ order[p].st \in {"PLANNED", "REJECTED"} => order'[p].st = "REJECTED"

\* transition_order, to any state but CLOSED, is such a step.
LEMMA RowSet ==
    ASSUME SharedType, NEW p \in Plans, NEW st, st # "CLOSED", CanTransition(p, st),
           order'[p].st = st, \A q \in Plans \ {p} : order'[q] = order[q]
    PROVE  \A q \in Plans : RowStep(q)
<1>1. order[p].st \in OrderState
  BY DEF SharedType
<1>2. /\ order[p].st # "CLOSED" /\ order[p].st # "PLANNED"
      /\ order[p].st = "REJECTED" => st = "REJECTED"
  BY <1>1 DEF CanTransition, ALLOWED_TRANSITIONS, OrderState
<1>3. RowStep(p)
  BY <1>2 DEF RowStep
<1>4. \A q \in Plans \ {p} : RowStep(q)
  BY DEF RowStep
<1> QED
  BY <1>3, <1>4

\* The same, or nothing.
LEMMA RowSetOrNot ==
    ASSUME SharedType, NEW p \in Plans, NEW st, st # "CLOSED",
           order' = order \/ (CanTransition(p, st) /\ order' = [order EXCEPT ![p].st = st])
    PROVE  \A q \in Plans : RowStep(q)
<1>1. CASE order' = order
  BY <1>1 DEF RowStep
<1>2. CASE CanTransition(p, st) /\ order' = [order EXCEPT ![p].st = st]
  <2>1. order'[p].st = st /\ \A q \in Plans \ {p} : order'[q] = order[q]
    BY <1>2, StateSet
  <2> QED
    BY <1>2, <2>1, RowSet
<1> QED
  BY <1>1, <1>2

\* The writes of _submit and of the cancel pass.
LEMMA WorkerRows ==
    ASSUME IInv, NEW w \in Workers, WorkerStep(w)
    PROVE  \A p \in Plans : RowStep(p)
<1>1. PICK r : r = wk[w]
  OBVIOUS
<1>2. SharedType
  BY DEF IInv
<1>3. r \in WorkerState /\ (r.pc \notin Loops => r.p \in Plans)
  BY <1>1 DEF IInv, WorkersType
<1>4. r.row \in Row
  BY <1>3 DEF WorkerState
<1>5. RemoteState(r) # "CLOSED" /\ LifecycleState(r) # "CLOSED"
  BY <1>4, RemoteStateFacts, LifecycleFacts
<1>6. CASE \/ ExecuteBlocked(w) \/ ExecutePlace(w) \/ LookupMissed(w) \/ LookupFound(w)
           \/ ProtectionState(w) \/ UpsertManagedPosition(w) \/ RecordEntryFill(w)
           \/ RecoverNext(w) \/ CancelWithoutRequest(w) \/ CancelEntry(w)
  <2>1. order' = order
    BY <1>6 DEF ExecuteBlocked, ExecutePlace, LookupMissed, LookupFound, ProtectionState,
       UpsertManagedPosition, RecordEntryFill, RecoverNext, CancelWithoutRequest, CancelEntry
  <2> QED
    BY <2>1 DEF RowStep
<1>7. CASE MarkSubmitted(w)
  <2>1. /\ r.pc = "approved"
        /\ order' = order \/ ( /\ CanTransition(r.p, "SUBMITTED")
                               /\ order' = [order EXCEPT ![r.p].st = "SUBMITTED"])
    BY <1>1, <1>7 DEF MarkSubmitted, At, SetState
  <2> QED
    BY <1>2, <1>3, <2>1, RowSetOrNot DEF Loops
<1>8. CASE RecordRejected(w)
  <2>1. /\ r.pc = "rejected"
        /\ order' = order \/ ( /\ CanTransition(r.p, "REJECTED")
                               /\ order' = [order EXCEPT ![r.p].st = "REJECTED"])
    BY <1>1, <1>8 DEF RecordRejected, At, SetState
  <2> QED
    BY <1>2, <1>3, <2>1, RowSetOrNot DEF Loops
<1>9. CASE RecordUnknown(w)
  <2>1. /\ r.pc = "unknown"
        /\ order' = order \/ ( /\ CanTransition(r.p, "SUBMISSION_UNKNOWN")
                               /\ order' = [order EXCEPT ![r.p].st = "SUBMISSION_UNKNOWN"])
    BY <1>1, <1>9 DEF RecordUnknown, At, SetState
  <2> QED
    BY <1>2, <1>3, <2>1, RowSetOrNot DEF Loops
<1>10. CASE RecordAck(w)
  <2>1. /\ r.pc = "acked"
        /\ order' = order
              \/ ( /\ CanTransition(r.p, "SUBMITTED")
                   /\ order' = [order EXCEPT ![r.p].st = "SUBMITTED", ![r.p].id = r.id])
    BY <1>1, <1>10 DEF RecordAck, At
  <2>2. r.p \in Plans
    BY <1>3, <2>1 DEF Loops
  <2>3. CASE order' = order
    BY <2>3 DEF RowStep
  <2>4. CASE /\ CanTransition(r.p, "SUBMITTED")
             /\ order' = [order EXCEPT ![r.p].st = "SUBMITTED", ![r.p].id = r.id]
    <3>1. order[r.p] \in [st : OrderState, id : BOOLEAN, filled : 0..Q]
      BY <1>2, <2>2 DEF SharedType
    <3>2. order'[r.p].st = "SUBMITTED" /\ \A q \in Plans \ {r.p} : order'[q] = order[q]
      BY <1>2, <2>2, <2>4, <3>1 DEF SharedType
    <3> QED
      BY <1>2, <2>2, <2>4, <3>2, RowSet
  <2> QED
    BY <2>1, <2>3, <2>4
<1>11. CASE ApplyRemoteOrder(w)
  <2>1. /\ r.pc = "apply"
        /\ order' = order
              \/ ( /\ CanTransition(r.p, RemoteState(r))
                   /\ order' = [order EXCEPT ![r.p] = [st |-> RemoteState(r), id |-> TRUE,
                                                       filled |-> r.row.filled]])
    BY <1>1, <1>11 DEF ApplyRemoteOrder, At
  <2>2. r.p \in Plans
    BY <1>3, <2>1 DEF Loops
  <2>3. CASE order' = order
    BY <2>3 DEF RowStep
  <2>4. CASE /\ CanTransition(r.p, RemoteState(r))
             /\ order' = [order EXCEPT ![r.p] = [st |-> RemoteState(r), id |-> TRUE,
                                                 filled |-> r.row.filled]]
    <3>1. order'[r.p].st = RemoteState(r) /\ \A q \in Plans \ {r.p} : order'[q] = order[q]
      BY <1>2, <2>2, <2>4 DEF SharedType
    <3> QED
      BY <1>2, <1>5, <2>2, <2>4, <3>1, RowSet
  <2> QED
    BY <2>1, <2>3, <2>4
<1>12. CASE RecordProtection(w)
  <2>1. /\ r.pc = "verify"
        /\ order' = order \/ ( /\ CanTransition(r.p, LifecycleState(r))
                               /\ order' = [order EXCEPT ![r.p].st = LifecycleState(r)])
    BY <1>1, <1>12 DEF RecordProtection, At, SetState
  <2>2. r.p \in Plans
    BY <1>3, <2>1 DEF Loops
  <2> QED
    BY <1>2, <1>5, <2>1, <2>2, RowSetOrNot
<1>13. CASE RestoreCancelRequest(w) \/ RecordCancelAck(w)
  <2>1. /\ r.pc \in {"restore", "cancelAcked"}
        /\ order' = order \/ ( /\ CanTransition(r.p, "CANCEL_REQUESTED")
                               /\ order' = [order EXCEPT ![r.p].st = "CANCEL_REQUESTED"])
    BY <1>1, <1>13 DEF RestoreCancelRequest, RecordCancelAck, At, SetState
  <2> QED
    BY <1>2, <1>3, <2>1, RowSetOrNot DEF Loops
<1>14. CASE CancelNext(w)
  <2>1. order' = order \/ \E p \in Plans : /\ CanTransition(p, "REJECTED")
                                           /\ order' = [order EXCEPT ![p].st = "REJECTED"]
    BY <1>14 DEF CancelNext, SetState
  <2>2. CASE order' = order
    BY <2>2 DEF RowStep
  <2>3. CASE \E p \in Plans : /\ CanTransition(p, "REJECTED")
                              /\ order' = [order EXCEPT ![p].st = "REJECTED"]
    BY <1>2, <2>3, RowSetOrNot
  <2> QED
    BY <2>1, <2>2, <2>3
<1>15. CASE CancelLaneExhausted(w)
  <2>1. /\ r.pc = "exhausted"
        /\ order' = order
              \/ ( /\ order[r.p].st \in {"SUBMITTED", "OPEN", "PARTIALLY_FILLED",
                                         "CANCEL_REQUESTED"}
                   /\ order' = [order EXCEPT ![r.p].st = "CANCEL_REQUESTED"])
    BY <1>1, <1>15 DEF CancelLaneExhausted, At, SetState
  <2>2. order[r.p].st \in {"SUBMITTED", "OPEN", "PARTIALLY_FILLED", "CANCEL_REQUESTED"}
            => CanTransition(r.p, "CANCEL_REQUESTED")
    BY DEF CanTransition, ALLOWED_TRANSITIONS, OrderState
  <2> QED
    BY <1>2, <1>3, <2>1, <2>2, RowSetOrNot DEF Loops
<1> QED
  BY <1>6, <1>7, <1>8, <1>9, <1>10, <1>11, <1>12, <1>13, <1>14, <1>15 DEF WorkerStep

\* Every step but the approval, which makes an order of a pending plan.
NextButSubmit ==
    \/ \E w \in Workers :
          \/ WorkerStep(w) \/ Failure(w)
          \/ RecoverActiveOrders(w) \/ CancelPendingEntries(w)
          \/ \E p \in Plans : Cancel(w, p)
    \/ \E p \in Plans : RejectPlan(p) \/ Exchange(p)

\* Which of the two a step is.
LEMMA SubmitOrNot ==
    Next <=> NextButSubmit \/ \E w \in Workers, p \in Plans : Submit(w, p)
  BY DEF Next, NextButSubmit, Task

\* None but the approval makes an order of a pending plan.
LEMMA NextRows ==
    ASSUME IInv, NextButSubmit
    PROVE  \A p \in Plans : RowStep(p)
<1>1. CASE order' = order
  BY <1>1 DEF RowStep
<1>2. ASSUME NEW w \in Workers, WorkerStep(w)
      PROVE  \A p \in Plans : RowStep(p)
  BY <1>2, WorkerRows
<1>3. ASSUME NEW w \in Workers,
             \/ Failure(w) \/ RecoverActiveOrders(w)
             \/ CancelPendingEntries(w) \/ \E p \in Plans : Cancel(w, p)
      PROVE  order' = order
  BY <1>3 DEF RecoverActiveOrders, CancelPendingEntries, Cancel, Failure, LookupUnrecognised,
     ProtectionRaised, RecordEntryFillNoAverage, Crash
<1>4. ASSUME NEW p \in Plans, RejectPlan(p)
      PROVE  \A q \in Plans : RowStep(q)
  <2>1. order[p].st = "PLANNED" /\ order' = [order EXCEPT ![p].st = "REJECTED"]
    BY <1>4 DEF RejectPlan, SetState
  <2>2. order'[p].st = "REJECTED" /\ \A q \in Plans \ {p} : order'[q] = order[q]
    BY <2>1, StateSet DEF IInv
  <2> QED
    BY <2>1, <2>2 DEF RowStep
<1>5. ASSUME NEW p \in Plans, Exchange(p)
      PROVE  order' = order
  BY <1>5 DEF Exchange, ExArrive, ExFill, ExCancel, ExReject, ExProtect
<1> QED
  BY <1>1, <1>2, <1>3, <1>4, <1>5 DEF NextButSubmit

\* The worker keeps its plan and its list, or drops them.
Stays(r, x) ==
    /\ x.p = r.p \/ x.p = NoPlan
    /\ x.snap = r.snap \/ x.snap = NoSnap
    /\ x.pc = "idle" => x.p = NoPlan /\ x.snap = NoSnap

\* Most steps of a worker are of that kind.
LEMMA WorkerStays ==
    ASSUME IInv, SoloInv, OneProcess, NEW w \in Workers, NEW r, r = wk[w],
           \/ MarkSubmitted(w) \/ ExecuteBlocked(w) \/ ExecutePlace(w)
           \/ RecordRejected(w) \/ RecordUnknown(w) \/ RecordAck(w)
           \/ LookupMissed(w) \/ LookupFound(w) \/ ApplyRemoteOrder(w)
           \/ ProtectionState(w) \/ RecordProtection(w) \/ UpsertManagedPosition(w)
           \/ RecordEntryFill(w) \/ RestoreCancelRequest(w) \/ CancelWithoutRequest(w)
           \/ CancelEntry(w) \/ CancelLaneExhausted(w)
           \/ Failure(w)
    PROVE  \E x : /\ wk' = [wk EXCEPT ![w] = x] /\ Stays(r, x)
                  /\ r.pc # "cancelAcked" \/ x = Idle
<1>1. r \in WorkerState
  BY DEF IInv, WorkersType
<1>2. ASSUME NEW x, Leaves(r, x) PROVE Stays(r, x)
  BY <1>2 DEF Leaves, Stays
<1>3. Stays(r, Idle) /\ Stays(r, Raised(r)) /\ Stays(r, Loop(r, "cancelLoop"))
  BY <1>1, <1>2, IdleLeaves, RaisedLeaves, LoopLeaves
<1>4. ASSUME NEW st, NEW mng PROVE Stays(r, AfterReconcile(r, st, mng))
  BY <1>1, <1>2, AfterReconcileLeaves
<1>5. ASSUME NEW pc, pc # "idle" PROVE Stays(r, [r EXCEPT !.pc = pc])
  <2>1. /\ [r EXCEPT !.pc = pc].p = r.p /\ [r EXCEPT !.pc = pc].snap = r.snap
        /\ [r EXCEPT !.pc = pc].pc = pc
    BY <1>1 DEF WorkerState
  <2> QED
    BY <1>5, <2>1 DEF Stays
<1>6. ASSUME NEW lane PROVE Stays(r, StartLane(r, lane))
  <2>1. PICK y : y = [r EXCEPT !.pc = "lookup", !.lane = lane, !.n = Lookups]
    OBVIOUS
  <2>2. y.p = r.p /\ y.snap = r.snap /\ y.pc # "idle"
    BY <1>1, <2>1 DEF WorkerState
  <2> QED
    BY <2>1, <2>2 DEF StartLane, Stays
<1>7. Stays(r, EndOfReconcile(r))
  BY <1>4, <1>5, Zenon DEF EndOfReconcile
<1>8. CASE MarkSubmitted(w)
  BY <1>3, <1>5, <1>8 DEF MarkSubmitted, At, Become
<1>9. CASE ExecuteBlocked(w)
  BY <1>5, <1>9 DEF ExecuteBlocked, At, Become
<1>10. CASE ExecutePlace(w)
  <2>1. ASSUME NEW id PROVE Stays(r, [r EXCEPT !.pc = "acked", !.id = id])
    <3>1. PICK y : y = [r EXCEPT !.pc = "acked", !.id = id]
      OBVIOUS
    <3>2. y.p = r.p /\ y.snap = r.snap /\ y.pc # "idle"
      BY <1>1, <3>1 DEF WorkerState
    <3> QED
      BY <3>1, <3>2 DEF Stays
  <2>2. /\ r.pc = "send"
        /\ \/ wk' = [wk EXCEPT ![w] = [r EXCEPT !.pc = "rejected"]]
           \/ \E id \in BOOLEAN : wk' = [wk EXCEPT ![w] = [r EXCEPT !.pc = "acked", !.id = id]]
           \/ wk' = [wk EXCEPT ![w] = [r EXCEPT !.pc = "unknown"]]
    BY <1>10 DEF ExecutePlace, At, Become
  <2> QED
    BY <1>5, <2>1, <2>2
<1>11. CASE RecordRejected(w)
  BY <1>3, <1>11 DEF RecordRejected, At, Become
<1>12. CASE RecordUnknown(w)
  BY <1>3, <1>6, <1>12 DEF RecordUnknown, At, Become
<1>13. CASE RecordAck(w)
  <2>1. PICK y, z : y = [r EXCEPT !.id = FALSE] /\ z = StartLane(y, "new")
    OBVIOUS
  <2>2. z = [y EXCEPT !.pc = "lookup", !.lane = "new", !.n = Lookups]
    BY <2>1 DEF StartLane
  <2>3. z.p = r.p /\ z.snap = r.snap /\ z.pc # "idle"
    BY <1>1, <2>1, <2>2 DEF WorkerState
  <2>4. r.pc = "acked" /\ (wk' = [wk EXCEPT ![w] = z] \/ wk' = [wk EXCEPT ![w] = Idle])
    BY <1>13, <2>1 DEF RecordAck, At, Become
  <2> QED
    BY <1>3, <2>3, <2>4 DEF Stays
<1>14. CASE LookupMissed(w)
  BY <1>4, <1>14 DEF LookupMissed, At, Become
<1>15. CASE LookupFound(w)
  <2>1. PICK row, was : /\ r.pc = "lookup"
                        /\ wk' = [wk EXCEPT ![w] = [r EXCEPT !.pc = "apply", !.row = row,
                                                             !.was = was]]
    BY <1>15 DEF LookupFound, At, Become
  <2>2. PICK y : y = [r EXCEPT !.pc = "apply", !.row = row, !.was = was]
    OBVIOUS
  <2>3. y.p = r.p /\ y.snap = r.snap /\ y.pc # "idle"
    BY <1>1, <2>2 DEF WorkerState
  <2> QED
    BY <2>1, <2>2, <2>3 DEF Stays
<1>27. CASE LookupUnrecognised(w)
  <2>0. PICK f : /\ r.pc = "lookup"
                 /\ wk' = [wk EXCEPT ![w] = [r EXCEPT !.pc = "apply",
                                                      !.row = [st |-> "other", filled |-> f],
                                                      !.was = order[r.p].st = "CANCEL_REQUESTED"]]
    BY <1>27 DEF LookupUnrecognised, At, Become
  <2>1. PICK row, was : wk' = [wk EXCEPT ![w] = [r EXCEPT !.pc = "apply", !.row = row,
                                                         !.was = was]]
    BY <2>0
  <2>2. PICK y : y = [r EXCEPT !.pc = "apply", !.row = row, !.was = was]
    OBVIOUS
  <2>3. y.p = r.p /\ y.snap = r.snap /\ y.pc # "idle"
    BY <1>1, <2>2 DEF WorkerState
  <2> QED
    BY <2>0, <2>1, <2>2, <2>3 DEF Stays
<1>28. CASE RecordEntryFillNoAverage(w)
  BY <1>7, <1>28 DEF RecordEntryFillNoAverage, At, Become
<1>16. CASE ApplyRemoteOrder(w)
  <2>1. /\ r.pc = "apply"
        /\ \/ wk' = [wk EXCEPT ![w] = [r EXCEPT !.pc = "protect"]]
           \/ wk' = [wk EXCEPT ![w] = EndOfReconcile(r)]
           \/ wk' = [wk EXCEPT ![w] = Raised(r)]
    BY <1>16 DEF ApplyRemoteOrder, At, Become
  <2> QED
    BY <1>3, <1>5, <1>7, <2>1
<1>17. CASE ProtectionState(w)
  <2>1. PICK prot : /\ r.pc = "protect"
                    /\ wk' = [wk EXCEPT ![w] = [r EXCEPT !.pc = "verify", !.prot = prot]]
    BY <1>17 DEF ProtectionState, At, Become
  <2>2. PICK y : y = [r EXCEPT !.pc = "verify", !.prot = prot]
    OBVIOUS
  <2>3. y.p = r.p /\ y.snap = r.snap /\ y.pc # "idle"
    BY <1>1, <2>2 DEF WorkerState
  <2> QED
    BY <2>1, <2>2, <2>3 DEF Stays
<1>18. CASE RecordProtection(w)
  <2>1. /\ r.pc = "verify"
        /\ \/ wk' = [wk EXCEPT ![w] = [r EXCEPT !.pc = "upsert"]]
           \/ wk' = [wk EXCEPT ![w] = Raised(r)]
    BY <1>18 DEF RecordProtection, At, Become
  <2> QED
    BY <1>3, <1>5, <2>1
<1>19. CASE UpsertManagedPosition(w)
  BY <1>5, <1>19 DEF UpsertManagedPosition, At, Become
<1>20. CASE RecordEntryFill(w)
  BY <1>7, <1>20 DEF RecordEntryFill, At, Become
<1>21. CASE RestoreCancelRequest(w)
  <2>1. PICK mng : /\ r.pc = "restore"
                   /\ \/ wk' = [wk EXCEPT ![w] = AfterReconcile(r, "CANCEL_REQUESTED", mng)]
                      \/ wk' = [wk EXCEPT ![w] = Raised(r)]
    BY <1>21 DEF RestoreCancelRequest, At, Become
  <2> QED
    BY <1>3, <1>4, <2>1
<1>22. CASE CancelWithoutRequest(w)
  BY <1>3, <1>6, <1>22 DEF CancelWithoutRequest, At, Become
<1>23. CASE CancelEntry(w)
  <2>1. /\ r.pc = "cancel"
        /\ \/ wk' = [wk EXCEPT ![w] = [r EXCEPT !.pc = "cancelAcked"]]
           \/ wk' = [wk EXCEPT ![w] = Loop(r, "cancelLoop")]
    BY <1>23 DEF CancelEntry, RequestCancel, At, Become
  <2> QED
    BY <1>3, <1>5, <2>1
<1>24. CASE CancelLaneExhausted(w)
  BY <1>3, <1>24 DEF CancelLaneExhausted, At, Become
<1>25. CASE ProtectionRaised(w)
  BY <1>3, <1>25 DEF ProtectionRaised, At, Become
<1>26. CASE Crash(w)
  BY <1>3, <1>26 DEF Crash, Become
<1> QED
  BY <1>8, <1>9, <1>10, <1>11, <1>12, <1>13, <1>14, <1>15, <1>16, <1>17, <1>18, <1>19, <1>20,
     <1>21, <1>22, <1>23, <1>24, <1>25, <1>26, <1>27, <1>28
  DEF Failure

\* A record is open after a step if what it names was open before.
LEMMA OpenMoves ==
    ASSUME IInv, OneProcess, NEW w \in Workers, NEW x, wk' = [wk EXCEPT ![w] = x],
           \A p \in Plans : RowStep(p),
           \A p \in Plans : x.snap[p] # "NONE" => order[p].st # "CLOSED",
           x.p \in Plans /\ x.pc # "cancelAcked" => order[x.p].st # "CLOSED",
           x.pc = "idle" => x.p = NoPlan /\ x.snap = NoSnap
    PROVE  \A v \in Workers : OpenOK(wk[v])'
<1>1. \A p \in Plans : order[p].st # "CLOSED" => order'[p].st # "CLOSED"
  BY DEF RowStep
<1>2. \A v \in Workers : wk'[v] = x
  BY DEF OneProcess, IInv, WorkersType
<1> QED
  BY <1>1, <1>2 DEF OpenOK

\* The same for the steps that start, continue or end a pass or a cancel.
LEMMA OpenWorker ==
    ASSUME IInv, SoloInv, OneProcess, NEW w \in Workers,
           WorkerStep(w) \/ Failure(w)
           \/ RecoverActiveOrders(w) \/ CancelPendingEntries(w)
           \/ \E p \in Plans : Cancel(w, p),
           \A p \in Plans : RowStep(p)
    PROVE  \A v \in Workers : OpenOK(wk[v])'
<1>1. PICK r : r = wk[w]
  OBVIOUS
<1>2. OpenOK(r) /\ r \in WorkerState /\ r.snap \in [Plans -> OrderState \cup {"NONE"}]
  BY <1>1 DEF SoloInv, IInv, WorkersType, WorkerState
<1>3. /\ \A p \in Plans : NoSnap[p] = "NONE"
      /\ Idle.p = NoPlan /\ Idle.snap = NoSnap /\ NoPlan \notin Plans
  BY NoPlanAssumption DEF NoSnap, Idle
<1>4. CASE wk' = [wk EXCEPT ![w] = Idle]
  BY <1>3, <1>4, OpenMoves
<1>5. ASSUME NEW x, wk' = [wk EXCEPT ![w] = x], Stays(r, x), r.pc # "cancelAcked"
      PROVE  \A v \in Workers : OpenOK(wk[v])'
  <2>1. \A p \in Plans : x.snap[p] # "NONE" => order[p].st # "CLOSED"
    BY <1>2, <1>3, <1>5 DEF Stays, OpenOK
  <2>2. x.p \in Plans => order[x.p].st # "CLOSED"
    BY <1>2, <1>3, <1>5 DEF Stays, OpenOK
  <2>3. x.pc = "idle" => x.p = NoPlan /\ x.snap = NoSnap
    BY <1>5 DEF Stays
  <2> QED
    BY <1>5, <2>1, <2>2, <2>3, OpenMoves
<1>6. CASE RecoverActiveOrders(w) \/ CancelPendingEntries(w)
  <2>1. PICK pc \in {"recoverLoop", "cancelLoop"},
             states \in {ACTIVE_ORDER_STATES, PENDING_STATES} :
                wk' = [wk EXCEPT ![w] = [Idle EXCEPT !.pc = pc, !.snap = Snapshot(states)]]
    BY <1>6 DEF RecoverActiveOrders, CancelPendingEntries, Become
  <2>2. PICK x : x = [Idle EXCEPT !.pc = pc, !.snap = Snapshot(states)]
    OBVIOUS
  <2>3. x.p = NoPlan /\ x.snap = Snapshot(states) /\ x.pc = pc
    BY <2>2 DEF Idle
  <2>4. "CLOSED" \notin states
    BY <2>1 DEF ACTIVE_ORDER_STATES, PENDING_STATES
  <2>5. \A p \in Plans : x.snap[p] # "NONE" => order[p].st # "CLOSED"
    BY <2>3, <2>4 DEF Snapshot
  <2>6. wk' = [wk EXCEPT ![w] = x]
    BY <2>1, <2>2
  <2>7. x.pc # "idle" /\ x.p \notin Plans
    BY <2>1, <2>3, NoPlanAssumption
  <2> QED
    BY <1>3, <2>5, <2>6, <2>7, OpenMoves
<1>7. ASSUME NEW p \in Plans, Cancel(w, p)
      PROVE  \A v \in Workers : OpenOK(wk[v])'
  <2>1. PICK x : x = [Idle EXCEPT !.pc = "cancelAcked", !.p = p]
    OBVIOUS
  <2>2. wk' = [wk EXCEPT ![w] = x] \/ wk' = [wk EXCEPT ![w] = Idle]
    BY <1>7, <2>1 DEF Cancel, RequestCancel, Become
  <2>3. x.pc = "cancelAcked" /\ x.snap = NoSnap
    BY <2>1 DEF Idle
  <2> QED
    BY <1>3, <1>4, <2>2, <2>3, OpenMoves
<1>8. ASSUME NEW p \in Plans, r.snap[p] # "NONE", NEW x, wk' = [wk EXCEPT ![w] = x],
             x.p = p \/ x.p = NoPlan, x.pc # "idle", x.snap = [r.snap EXCEPT ![p] = "NONE"]
      PROVE  \A v \in Workers : OpenOK(wk[v])'
  <2>1. \A q \in Plans : x.snap[q] # "NONE" => r.snap[q] # "NONE"
    BY <1>2, <1>8
  <2>2. \A q \in Plans : x.snap[q] # "NONE" => order[q].st # "CLOSED"
    BY <1>2, <2>1 DEF OpenOK
  <2>3. x.p \in Plans => order[x.p].st # "CLOSED"
    BY <1>2, <1>3, <1>8 DEF OpenOK
  <2> QED
    BY <1>8, <2>2, <2>3, OpenMoves
<1>9. CASE RecoverNext(w)
  <2>1. ASSUME NEW p \in Plans, r.snap[p] # "NONE",
               wk' = [wk EXCEPT ![w] = [r EXCEPT !.pc = "lookup", !.p = p, !.lane = "recover",
                                                 !.snap[p] = "NONE"]]
        PROVE  \A v \in Workers : OpenOK(wk[v])'
    <3>1. PICK x : x = [r EXCEPT !.pc = "lookup", !.p = p, !.lane = "recover",
                                 !.snap = [r.snap EXCEPT ![p] = "NONE"]]
      OBVIOUS
    <3>2. x.p = p /\ x.pc = "lookup" /\ x.snap = [r.snap EXCEPT ![p] = "NONE"]
      BY <1>2, <3>1 DEF WorkerState
    <3>3. wk' = [wk EXCEPT ![w] = x]
      BY <2>1, <3>1
    <3> QED
      BY <1>8, <2>1, <3>2, <3>3
  <2> QED
    BY <1>1, <1>4, <1>9, <2>1 DEF RecoverNext, Become
<1>10. CASE CancelNext(w)
  <2>1. ASSUME NEW p \in Plans, r.snap[p] # "NONE", NEW y,
               y = [r EXCEPT !.p = p, !.snap[p] = "NONE"],
               \/ wk' = [wk EXCEPT ![w] = Loop(y, "cancelLoop")]
               \/ wk' = [wk EXCEPT ![w] = [y EXCEPT !.pc = "lookup", !.lane = "pre"]]
               \/ wk' = [wk EXCEPT ![w] = [y EXCEPT !.pc = "cancel"]]
        PROVE  \A v \in Workers : OpenOK(wk[v])'
    <3>1. /\ y = [r EXCEPT !.p = p, !.snap = [r.snap EXCEPT ![p] = "NONE"]]
          /\ [r.snap EXCEPT ![p] = "NONE"] \in [Plans -> OrderState \cup {"NONE"}]
      BY <1>2, <2>1
    <3>2. y \in WorkerState
      BY <1>2, <3>1, Zenon DEF WorkerState
    <3>3. y.p = p /\ y.snap = [r.snap EXCEPT ![p] = "NONE"]
      BY <1>2, <3>1 DEF WorkerState
    <3>4. PICK x : /\ wk' = [wk EXCEPT ![w] = x]
                   /\ \/ x = Loop(y, "cancelLoop")
                      \/ x = [y EXCEPT !.pc = "lookup", !.lane = "pre"]
                      \/ x = [y EXCEPT !.pc = "cancel"]
      BY <2>1
    <3>5. (x.p = p \/ x.p = NoPlan) /\ x.snap = y.snap /\ x.pc # "idle"
      <4>1. CASE x = Loop(y, "cancelLoop")
        BY <3>2, <4>1, LoopLeaves
      <4>2. CASE x = [y EXCEPT !.pc = "lookup", !.lane = "pre"]
        BY <3>2, <3>3, <4>2 DEF WorkerState
      <4>3. CASE x = [y EXCEPT !.pc = "cancel"]
        BY <3>2, <3>3, <4>3 DEF WorkerState
      <4> QED
        BY <3>4, <4>1, <4>2, <4>3
    <3>6. /\ wk' = [wk EXCEPT ![w] = x] /\ r.snap[p] # "NONE" /\ x.pc # "idle"
          /\ x.p = p \/ x.p = NoPlan
          /\ x.snap = [r.snap EXCEPT ![p] = "NONE"]
      BY <2>1, <3>3, <3>4, <3>5
    <3> QED
      BY <1>8, <3>6
  <2> QED
    BY <1>1, <1>4, <1>10, <2>1 DEF CancelNext, Become
<1>11. CASE RecordCancelAck(w)
  <2>1. PICK x : /\ r.pc = "cancelAcked" /\ wk' = [wk EXCEPT ![w] = x]
                 /\ \/ x = StartLane(r, "cancel") /\ CanTransition(r.p, "CANCEL_REQUESTED")
                    \/ x = Loop(r, "cancelLoop")
    BY <1>1, <1>11 DEF RecordCancelAck, At, Become
  <2>2. r.p \in Plans /\ order[r.p].st \in OrderState
    BY <1>1, <2>1 DEF IInv, WorkersType, SharedType, Loops
  <2>3. x.snap = r.snap /\ x.pc # "idle"
    <3>1. CASE x = StartLane(r, "cancel")
      <4>1. x = [r EXCEPT !.pc = "lookup", !.lane = "cancel", !.n = Lookups]
        BY <3>1 DEF StartLane
      <4> QED
        BY <1>2, <4>1 DEF WorkerState
    <3>2. CASE x = Loop(r, "cancelLoop")
      BY <1>2, <3>2, LoopLeaves
    <3> QED
      BY <2>1, <3>1, <3>2
  <2>4. x.p \in Plans => order[x.p].st # "CLOSED"
    <3>1. CASE x = StartLane(r, "cancel") /\ CanTransition(r.p, "CANCEL_REQUESTED")
      <4>1. x = [r EXCEPT !.pc = "lookup", !.lane = "cancel", !.n = Lookups]
        BY <3>1 DEF StartLane
      <4>2. x.p = r.p
        BY <1>2, <4>1 DEF WorkerState
      <4>3. order[r.p].st # "CLOSED"
        BY <2>2, <3>1 DEF CanTransition, ALLOWED_TRANSITIONS, OrderState
      <4> QED
        BY <4>2, <4>3
    <3>2. CASE x = Loop(r, "cancelLoop")
      BY <1>2, <1>3, <3>2, LoopLeaves
    <3> QED
      BY <2>1, <3>1, <3>2
  <2>5. \A p \in Plans : x.snap[p] # "NONE" => order[p].st # "CLOSED"
    BY <1>2, <2>3 DEF OpenOK
  <2> QED
    BY <2>1, <2>3, <2>4, <2>5, OpenMoves
<1>12. CASE ~( \/ RecordCancelAck(w) \/ CancelNext(w) \/ RecoverNext(w)
               \/ RecoverActiveOrders(w) \/ CancelPendingEntries(w)
               \/ \E p \in Plans : Cancel(w, p))
  <2>1. \E x : /\ wk' = [wk EXCEPT ![w] = x] /\ Stays(r, x)
               /\ r.pc # "cancelAcked" \/ x = Idle
    BY <1>1, <1>12, WorkerStays DEF WorkerStep
  <2> QED
    BY <1>4, <1>5, <2>1
<1> QED
  BY <1>6, <1>7, <1>9, <1>10, <1>11, <1>12

\* An approval takes up a pending plan.
LEMMA OpenSubmit ==
    ASSUME IInv, SoloInv, OneProcess, NEW w \in Workers, NEW p \in Plans, Submit(w, p)
    PROVE  \A v \in Workers : OpenOK(wk[v])'
<1>1. /\ order[p].st = "PLANNED" /\ order' = [order EXCEPT ![p].st = "APPROVED"]
      /\ wk' = [wk EXCEPT ![w] = [Idle EXCEPT !.pc = "approved", !.p = p]]
  BY DEF Submit, SetState, Become
<1>2. order'[p].st = "APPROVED"
  BY <1>1, StateSet DEF IInv
<1>3. PICK x : x = [Idle EXCEPT !.pc = "approved", !.p = p]
  OBVIOUS
<1>4. x.p = p /\ x.pc = "approved" /\ x.snap = NoSnap /\ \A q \in Plans : NoSnap[q] = "NONE"
  BY <1>3 DEF Idle, NoSnap
<1>5. \A v \in Workers : wk'[v] = x
  BY <1>1, <1>3 DEF OneProcess, IInv, WorkersType
<1> QED
  BY <1>2, <1>4, <1>5 DEF OpenOK

(***************************************************************************)
(* The invariant of one process, and what follows from it.                 *)
(***************************************************************************)
\* The empty database satisfies it.
LEMMA InitSolo == Init => SoloInv
<1> SUFFICES ASSUME Init PROVE SoloInv
  OBVIOUS
<1>1. Idle.pc = "idle" /\ Idle.was = FALSE /\ Idle.p = NoPlan /\ Idle.snap = NoSnap
  BY DEF Idle
<1>2. ASSUME NEW w \in Workers PROVE CallerOK(wk[w])
  <2>1. wk[w] = Idle
    BY DEF Init
  <2>2. SnapOK(wk[w])
    BY <1>1, <2>1, NoPlanAssumption DEF SnapOK, NoSnap
  <2> QED
    BY <1>1, <2>1, <2>2 DEF CallerOK, SubmitOK, FreshOK, ApplyOK, CancelOK, Busy
<1>3. ASSUME NEW p \in Plans PROVE TableOK(p) /\ Managed(p)
  BY DEF Init, TableOK, Managed
<1>4. ASSUME NEW w \in Workers PROVE OpenOK(wk[w])
  <2>1. wk[w] = Idle
    BY DEF Init
  <2> QED
    BY <1>1, <2>1, NoPlanAssumption DEF OpenOK, NoSnap
<1> QED
  BY <1>2, <1>3, <1>4 DEF SoloInv, FollowInv, ManagedOK

\* Every step of one process keeps it.
LEMMA WorkerSolo ==
    ASSUME IInv, SoloInv, OneProcess, NEW w \in Workers, WorkerStep(w)
    PROVE  FollowInv'
<1>1. CASE \/ MarkSubmitted(w) \/ ExecuteBlocked(w) \/ ExecutePlace(w)
           \/ RecordRejected(w) \/ RecordUnknown(w) \/ RecordAck(w)
  BY <1>1, MarkSubmittedSolo, ExecuteBlockedSolo, ExecutePlaceSolo, RecordRejectedSolo,
     RecordUnknownSolo, RecordAckSolo
<1>2. CASE \/ LookupMissed(w) \/ LookupFound(w) \/ ApplyRemoteOrder(w) \/ ProtectionState(w)
           \/ RecordProtection(w) \/ UpsertManagedPosition(w) \/ RecordEntryFill(w)
           \/ RestoreCancelRequest(w)
  BY <1>2, LookupMissedSolo, LookupFoundSolo, ApplyRemoteOrderSolo, ProtectionStateSolo,
     RecordProtectionSolo, UpsertManagedPositionSolo, RecordEntryFillSolo,
     RestoreCancelRequestSolo
<1>3. CASE \/ RecoverNext(w) \/ CancelNext(w) \/ CancelWithoutRequest(w)
           \/ CancelEntry(w) \/ RecordCancelAck(w) \/ CancelLaneExhausted(w)
  BY <1>3, RecoverNextSolo, CancelNextSolo, CancelWithoutRequestSolo, CancelEntrySolo,
     RecordCancelAckSolo, CancelLaneExhaustedSolo
<1> QED
  BY <1>1, <1>2, <1>3 DEF WorkerStep

\* So does every step of the system.
LEMMA NextSolo == OneProcess /\ IInv /\ SoloInv /\ [Next]_vars => SoloInv'
<1> SUFFICES ASSUME OneProcess, IInv, SoloInv, [Next]_vars PROVE SoloInv'
  OBVIOUS
<1>1. CASE Next
  <2>1. ASSUME NEW w \in Workers, WorkerStep(w) \/ Task(w) \/ Failure(w)
        PROVE  FollowInv'
    BY <2>1, WorkerSolo, PassesSolo, SubmitSolo, CancelSolo, LookupUnrecognisedSolo,
       ProtectionRaisedSolo, RecordEntryFillNoAverageSolo, CrashSolo
    DEF Task, Failure
  <2>2. ASSUME NEW p \in Plans, RejectPlan(p) \/ Exchange(p)
        PROVE  FollowInv'
    BY <2>2, RejectPlanSolo, ExchangeSolo
  <2>3. FollowInv'
    BY <1>1, <2>1, <2>2 DEF Next
  <2>4. CASE \E w \in Workers, p \in Plans : Submit(w, p)
    BY <2>3, <2>4, OpenSubmit DEF SoloInv
  <2>5. CASE NextButSubmit
    <3>1. \A p \in Plans : RowStep(p)
      BY <2>5, NextRows
    <3>2. ASSUME NEW w \in Workers,
                 \/ WorkerStep(w) \/ Failure(w)
                 \/ RecoverActiveOrders(w) \/ CancelPendingEntries(w)
                 \/ \E p \in Plans : Cancel(w, p)
          PROVE  \A v \in Workers : OpenOK(wk[v])'
      BY <3>1, <3>2, OpenWorker
    <3>3. ASSUME NEW p \in Plans, RejectPlan(p) \/ Exchange(p)
          PROVE  \A v \in Workers : OpenOK(wk[v])'
      <4>1. wk' = wk
        BY <3>3 DEF RejectPlan, Exchange, ExArrive, ExFill, ExCancel, ExReject, ExProtect
      <4>2. \A q \in Plans : order[q].st # "CLOSED" => order'[q].st # "CLOSED"
        BY <3>1 DEF RowStep
      <4> QED
        BY <4>1, <4>2 DEF SoloInv, OpenOK
    <3>4. \A v \in Workers : OpenOK(wk[v])'
      BY <2>5, <3>2, <3>3 DEF NextButSubmit
    <3> QED
      BY <2>3, <3>4 DEF SoloInv
  <2> QED
    BY <1>1, <2>4, <2>5, SubmitOrNot
<1>2. CASE UNCHANGED vars
  <2>1. UNCHANGED <<order, pos, trade, ex, wk, faults>>
    BY <1>2 DEF vars
  <2>2. \A p \in Plans : TableOK(p) => TableOK(p)'
    BY <2>1 DEF TableOK
  <2>3. \A w \in Workers : CallerOK(wk[w]) => CallerOK(wk[w])'
    BY <2>1 DEF CallerOK, SubmitOK, FreshOK, ApplyOK, CancelOK, SnapOK
  <2>4. ManagedOK => ManagedOK'
    BY <2>1 DEF ManagedOK, Managed
  <2>5. \A w \in Workers : OpenOK(wk[w]) => OpenOK(wk[w])'
    BY <2>1 DEF OpenOK
  <2> QED
    BY <2>2, <2>3, <2>4, <2>5 DEF SoloInv, FollowInv
<1> QED
  BY <1>1, <1>2

\* With one process on the database the tables stay behind the exchange, and
\* the worker knows what it left in them.
THEOREM SoloInvariance == ASSUME OneProcess PROVE Spec => [](IInv /\ SoloInv)
<1>1. Init => IInv /\ SoloInv
  BY InitIInv, InitSolo
<1>2. IInv /\ SoloInv /\ [Next]_vars => (IInv /\ SoloInv)'
  BY NextIInv, NextSolo
<1> QED
  BY <1>1, <1>2, PTL DEF Spec

\* Without the exits no order is ever CLOSED.
NoneClosed == \A p \in Plans : order[p].st # "CLOSED"

\* No step of the entry side closes one.
LEMMA NoneCloses == IInv /\ NoneClosed /\ [Next]_vars => NoneClosed'
<1> SUFFICES ASSUME IInv, NoneClosed, [Next]_vars PROVE NoneClosed'
  OBVIOUS
<1>1. CASE \E w \in Workers, p \in Plans : Submit(w, p)
  <2>1. PICK w \in Workers, p \in Plans : Submit(w, p)
    BY <1>1
  <2>2. order'[p].st = "APPROVED" /\ \A q \in Plans \ {p} : order'[q] = order[q]
    BY <2>1, StateSet DEF Submit, SetState, IInv
  <2> QED
    BY <2>2 DEF NoneClosed
<1>2. CASE NextButSubmit
  BY <1>2, NextRows DEF NoneClosed, RowStep
<1>3. CASE UNCHANGED vars
  BY <1>3 DEF NoneClosed, vars
<1> QED
  BY <1>1, <1>2, <1>3, SubmitOrNot

\* ObservationsAccepted: with one process, no row with a recognised state makes
\* reconcile_plan raise INVALID_ORDER_TRANSITION, whatever the exchange did in
\* the meantime and whatever unrecognised rows were applied before.
THEOREM NoObservationRefused == ASSUME OneProcess PROVE Spec => []ObservationsAccepted
<1>1. IInv /\ SoloInv /\ NoneClosed => ObservationsAccepted
  <2> SUFFICES ASSUME IInv, SoloInv, NoneClosed, NEW w \in Workers
               PROVE  /\ At(w, "apply") /\ wk[w].row.st # "other" =>
                            CanTransition(wk[w].p, RemoteState(wk[w]))
                      /\ At(w, "verify") => CanTransition(wk[w].p, LifecycleState(wk[w]))
                      /\ At(w, "restore") => CanTransition(wk[w].p, "CANCEL_REQUESTED")
                      /\ At(w, "cancelAcked") =>
                            order[wk[w].p].st \in ACTIVE_ORDER_STATES \ {"APPROVED"}
    BY DEF ObservationsAccepted
  <2>1. PICK r : r = wk[w]
    OBVIOUS
  <2>2. CallerOK(r)
    BY <2>1, SoloFacts
  <2>3. r.pc = "apply" /\ r.row.st # "other" => CanTransition(r.p, RemoteState(r))
    BY <2>1, RowAccepted
  <2>4. r.pc = "verify" => CanTransition(r.p, LifecycleState(r))
    BY <2>1, VerdictAccepted
  <2>5. r.pc = "restore" => CanTransition(r.p, "CANCEL_REQUESTED")
    <3>1. r.pc = "restore" => order[r.p].st \in {"SUBMITTED", "OPEN", "PARTIALLY_FILLED"}
      BY <2>2 DEF CallerOK, CancelOK
    <3> QED
      BY <3>1 DEF CanTransition, ALLOWED_TRANSITIONS, OrderState
  <2>6. r.pc = "cancelAcked" => order[r.p].st \in ACTIVE_ORDER_STATES \ {"APPROVED"}
    <3>1. r.pc = "cancelAcked" => r.p \in Plans
      BY <2>1 DEF IInv, WorkersType, Loops
    <3> QED
      BY <2>2, <3>1 DEF CallerOK, CancelOK, NoneClosed
  <2> QED
    BY <2>1, <2>3, <2>4, <2>5, <2>6 DEF At
<1>2. Init => NoneClosed
  BY DEF Init, NoneClosed
<1> QED
  BY <1>1, <1>2, NoneCloses, SoloInvariance, PTL DEF Spec

\* FillsManaged: as long as nothing failed, between tasks the three tables
\* agree about every fill and about its protection.
THEOREM EveryFillManaged == ASSUME OneProcess PROVE Spec => []FillsManaged
<1>1. IInv /\ SoloInv => FillsManaged
  <2> SUFFICES ASSUME IInv, SoloInv, faults = 0, \A w \in Workers : At(w, "idle"),
                      NEW p \in Plans
               PROVE  /\ order[p].filled > 0 =>
                            pos[p].qty = order[p].filled /\ trade[p] = order[p].filled
                      /\ order[p].st = "FILLED" => pos[p].prot
                      /\ order[p].st = "POSITION_UNPROTECTED" => ~pos[p].prot
    BY DEF FillsManaged
  <2>1. Managed(p)
    BY DEF SoloInv, FollowInv, ManagedOK, At, Busy
  <2> QED
    BY <2>1 DEF Managed
<1> QED
  BY <1>1, SoloInvariance, PTL

(***************************************************************************)
(* A cancel is remembered.                                                 *)
(***************************************************************************)
\* The only steps that drop a cancel request somebody found: the end of a
\* reconcile that saw the order ended, the restore, and a fault.
LEMMA RememberedStep ==
    ASSUME IInv, SoloInv, OneProcess, Next, NEW w \in Workers,
           wk[w].was, ~wk'[w].was, faults' = faults
    PROVE  order'[wk[w].p].st \in {"CANCEL_REQUESTED", "POSITION_UNPROTECTED"} \cup Settled
<1>1. PICK r : r = wk[w]
  OBVIOUS
<1>2. /\ r \in WorkerState /\ CallerOK(r) /\ \A v \in Workers : v = w
      /\ wk \in [Workers -> WorkerState]
  BY <1>1, SoloFacts DEF OneProcess, IInv, WorkersType
<1>3. r.was = TRUE
  BY <1>1, <1>2 DEF WorkerState
<1>4. r.pc \in Busy \cup {"apply", "restore", "exhausted"}
  BY <1>2, <1>3 DEF CallerOK, CancelOK
<1>5. wk' # wk /\ r.p \in Plans /\ r.row \in Row
  BY <1>1, <1>2, <1>4, WorkerFacts DEF Busy, Loops, WorkerState
<1>6. faults \in Nat
  BY MaxFaultsAssumption DEF IInv, SharedType
<1>7. \/ ApplyRemoteOrder(w) \/ ProtectionState(w) \/ RecordProtection(w)
      \/ UpsertManagedPosition(w) \/ RecordEntryFill(w) \/ RestoreCancelRequest(w)
      \/ CancelLaneExhausted(w)
  <2>1. PICK v \in Workers : WorkerStep(v) \/ Task(v) \/ Failure(v)
    BY <1>5 DEF Next, RejectPlan, Exchange, ExArrive, ExFill, ExCancel, ExReject, ExProtect
  <2>2. WorkerStep(w) \/ Task(w)
    BY <1>2, <1>6, <2>1
    DEF Failure, LookupUnrecognised, ProtectionRaised, RecordEntryFillNoAverage, Crash
  <2>3. ~Task(w)
    BY <1>1, <1>4 DEF Task, RecoverActiveOrders, CancelPendingEntries, Submit, Cancel, At, Busy
  <2>4. ~(\/ MarkSubmitted(w) \/ ExecuteBlocked(w) \/ ExecutePlace(w)
          \/ RecordRejected(w) \/ RecordUnknown(w) \/ RecordAck(w))
    BY <1>1, <1>4 DEF MarkSubmitted, ExecuteBlocked, ExecutePlace, RecordRejected,
       RecordUnknown, RecordAck, At, Busy
  <2>5. ~(LookupMissed(w) \/ LookupFound(w) \/ RecoverNext(w) \/ CancelNext(w)
          \/ CancelWithoutRequest(w) \/ CancelEntry(w) \/ RecordCancelAck(w))
    BY <1>1, <1>4 DEF LookupMissed, LookupFound, RecoverNext, CancelNext,
       CancelWithoutRequest, CancelEntry, RecordCancelAck, At, Busy
  <2> QED
    BY <2>2, <2>3, <2>4, <2>5 DEF WorkerStep
<1>8. ASSUME NEW x, wk' = [wk EXCEPT ![w] = x] PROVE x.was # TRUE
  BY <1>2, <1>8
<1>9. ASSUME NEW x, x = EndOfReconcile(r), wk' = [wk EXCEPT ![w] = x],
             order'[r.p].st = LifecycleState(r)
      PROVE  order'[r.p].st \in {"POSITION_UNPROTECTED"} \cup Settled
  <2>1. LifecycleState(r) \notin {"SUBMITTED", "OPEN", "PARTIALLY_FILLED"}
    <3> SUFFICES ASSUME LifecycleState(r) \in {"SUBMITTED", "OPEN", "PARTIALLY_FILLED"}
                 PROVE  FALSE
      OBVIOUS
    <3>1. PICK y : y = [r EXCEPT !.pc = "restore"]
      OBVIOUS
    <3>2. x = y
      BY <1>3, <1>9, <3>1, Zenon DEF EndOfReconcile
    <3>3. y.was = r.was
      BY <1>2, <3>1 DEF WorkerState
    <3>4. x.was # TRUE
      BY <1>8, <1>9
    <3> QED
      BY <1>3, <3>2, <3>3, <3>4
  <2>2. LifecycleState(r) \in {"CANCELLED", "REJECTED", "FILLED", "PARTIALLY_FILLED",
                               "OPEN", "SUBMITTED", "POSITION_UNPROTECTED"}
    BY <1>5, LifecycleFacts
  <2> QED
    BY <1>9, <2>1, <2>2 DEF Settled
<1>10. ASSUME NEW x, wk' = [wk EXCEPT ![w] = x], x.was = r.was PROVE FALSE
  BY <1>3, <1>8, <1>10
<1>11. CASE ApplyRemoteOrder(w)
  <2>1. r.pc = "apply" /\ CanTransition(r.p, RemoteState(r))
    <3>1. r.pc = "apply"
      BY <1>1, <1>11 DEF ApplyRemoteOrder, At
    <3> QED
      BY <1>1, <1>3, <1>11, <3>1, RefusedRowSolo
  <2>2. /\ order' = [order EXCEPT ![r.p] =
                        [st |-> RemoteState(r), id |-> TRUE, filled |-> r.row.filled]]
        /\ wk' = [wk EXCEPT ![w] = IF HasManagedFill(r) THEN [r EXCEPT !.pc = "protect"]
                                   ELSE EndOfReconcile(r)]
    BY <1>1, <1>11, <2>1 DEF ApplyRemoteOrder, Become
  <2>3. ~HasManagedFill(r)
    <3> SUFFICES ASSUME HasManagedFill(r) PROVE FALSE
      OBVIOUS
    <3>1. PICK x : x = [r EXCEPT !.pc = "protect"]
      OBVIOUS
    <3>2. x.was = r.was
      BY <1>2, <3>1 DEF WorkerState
    <3> QED
      BY <1>10, <2>2, <3>1, <3>2
  <2>4. order'[r.p].st = RemoteState(r)
    BY <1>5, <2>2 DEF IInv, SharedType
  <2>5. LifecycleState(r) = RemoteState(r)
    <3>1. r.row.st = "filled" => r.row.filled = Q
      BY <1>1, <2>1, WorkerFacts DEF Loops, RowOK
    <3> QED
      BY <1>5, <2>3, <3>1, LifecycleFacts, QAssumption
  <2>6. wk' = [wk EXCEPT ![w] = EndOfReconcile(r)]
    BY <2>2, <2>3
  <2> QED
    BY <1>1, <1>9, <2>4, <2>5, <2>6
<1>12. CASE ProtectionState(w) \/ RecordProtection(w) \/ UpsertManagedPosition(w)
  <2>1. PICK pc, prot : \/ wk' = [wk EXCEPT ![w] = [r EXCEPT !.pc = pc, !.prot = prot]]
                        \/ wk' = [wk EXCEPT ![w] = [r EXCEPT !.pc = pc]]
    <3>1. CASE ProtectionState(w) \/ UpsertManagedPosition(w)
      BY <1>1, <3>1 DEF ProtectionState, UpsertManagedPosition, Become
    <3>2. CASE RecordProtection(w)
      <4>1. r.pc = "verify"
        BY <1>1, <3>2 DEF RecordProtection, At
      <4>2. CanTransition(r.p, LifecycleState(r))
        BY <1>1, <4>1, VerdictAccepted
      <4> QED
        BY <1>1, <3>2, <4>2 DEF RecordProtection, Become
    <3> QED
      BY <1>12, <3>1, <3>2
  <2>2. PICK x, y : x = [r EXCEPT !.pc = pc, !.prot = prot] /\ y = [r EXCEPT !.pc = pc]
    OBVIOUS
  <2>3. x.was = r.was /\ y.was = r.was
    BY <1>2, <2>2 DEF WorkerState
  <2> QED
    BY <1>10, <2>1, <2>2, <2>3
<1>13. CASE RecordEntryFill(w)
  <2>1. r.pc = "record" /\ order' = order /\ wk' = [wk EXCEPT ![w] = EndOfReconcile(r)]
    BY <1>1, <1>13 DEF RecordEntryFill, At, Become
  <2>2. order[r.p].st = LifecycleState(r)
    BY <1>2, <2>1 DEF CallerOK, ApplyOK
  <2> QED
    BY <1>1, <1>9, <2>1, <2>2
<1>14. CASE RestoreCancelRequest(w)
  <2>1. r.pc = "restore"
    BY <1>1, <1>14 DEF RestoreCancelRequest, At
  <2>2. CanTransition(r.p, "CANCEL_REQUESTED")
    <3>1. order[r.p].st \in {"SUBMITTED", "OPEN", "PARTIALLY_FILLED"}
      BY <1>2, <2>1 DEF CallerOK, CancelOK
    <3> QED
      BY <3>1 DEF CanTransition, ALLOWED_TRANSITIONS, OrderState
  <2>3. order' = [order EXCEPT ![r.p].st = "CANCEL_REQUESTED"]
    BY <1>1, <1>14, <2>2 DEF RestoreCancelRequest, SetState
  <2>4. order'[r.p].st = "CANCEL_REQUESTED"
    BY <1>5, <2>3, StateSet DEF IInv
  <2> QED
    BY <1>1, <2>4
<1>15. CASE CancelLaneExhausted(w)
  <2>1. r.pc = "exhausted" /\ order[r.p].st \notin {"PLANNED", "APPROVED", "SUBMISSION_UNKNOWN"}
    BY <1>1, <1>2, <1>3, <1>15 DEF CancelLaneExhausted, At, CallerOK, CancelOK
  <2>2. order[r.p].st \in OrderState /\ order[r.p].st # "CLOSED"
    BY <1>1, <1>5, <2>1 DEF IInv, SharedType, SoloInv, OpenOK
  <2>3. CASE order[r.p].st \in {"SUBMITTED", "OPEN", "PARTIALLY_FILLED", "CANCEL_REQUESTED"}
    <3>1. order' = [order EXCEPT ![r.p].st = "CANCEL_REQUESTED"]
      BY <1>1, <1>15, <2>3 DEF CancelLaneExhausted, SetState
    <3>2. order'[r.p].st = "CANCEL_REQUESTED"
      BY <1>5, <3>1, StateSet DEF IInv
    <3> QED
      BY <1>1, <3>2
  <2>4. CASE order[r.p].st \notin {"SUBMITTED", "OPEN", "PARTIALLY_FILLED", "CANCEL_REQUESTED"}
    <3>1. order' = order
      BY <1>1, <1>15, <2>4 DEF CancelLaneExhausted
    <3> QED
      BY <1>1, <2>1, <2>2, <2>4, <3>1 DEF OrderState, Settled
  <2> QED
    BY <2>3, <2>4
<1> QED
  BY <1>7, <1>11, <1>12, <1>13, <1>14, <1>15

\* CancelRemembered: a cancel the exchange acknowledged is never forgotten by
\* a reconcile_plan that found it requested, unless a fault interrupts it.
THEOREM CancelNeverForgotten == ASSUME OneProcess PROVE Spec => CancelRemembered
<1>1. IInv /\ SoloInv /\ [Next]_vars =>
        [\A w \in Workers :
            wk[w].was /\ ~wk'[w].was /\ faults' = faults =>
                order'[wk[w].p].st \in {"CANCEL_REQUESTED", "POSITION_UNPROTECTED"} \cup Settled
        ]_vars
  BY RememberedStep
<1> QED
  BY <1>1, SoloInvariance, PTL DEF Spec, CancelRemembered

(***************************************************************************)
(* The entry side implements Settlement.                                   *)
(***************************************************************************)
\* What Settlement lets happen to one plan.
PlanMoves(p) ==
    \/ \* Drop
       /\ StageOf(p) = "unsent" /\ VerdictOf(p) = -1 /\ VerdictOf(p)' = 0
       /\ StageOf(p)' = StageOf(p) /\ ex'[p].filled = ex[p].filled /\ pos'[p].qty = pos[p].qty
    \/ \* Send
       /\ StageOf(p) = "unsent" /\ VerdictOf(p) = -1 /\ StageOf(p)' \in {"working", "ended"}
       /\ VerdictOf(p)' = VerdictOf(p)
       /\ ex'[p].filled = ex[p].filled /\ pos'[p].qty = pos[p].qty
    \/ \* Buy
       /\ StageOf(p) = "working" /\ ex[p].filled < Q /\ ex'[p].filled = ex[p].filled + 1
       /\ StageOf(p)' = IF ex[p].filled + 1 = Q THEN "ended" ELSE StageOf(p)
       /\ VerdictOf(p)' = VerdictOf(p) /\ pos'[p].qty = pos[p].qty
    \/ \* End
       /\ StageOf(p) = "working" /\ StageOf(p)' = "ended"
       /\ VerdictOf(p)' = VerdictOf(p)
       /\ ex'[p].filled = ex[p].filled /\ pos'[p].qty = pos[p].qty
    \/ \* Conclude
       /\ StageOf(p) = "ended" /\ VerdictOf(p) = -1 /\ VerdictOf(p)' = ex[p].filled
       /\ StageOf(p)' = StageOf(p) /\ ex'[p].filled = ex[p].filled /\ pos'[p].qty = pos[p].qty
    \/ \* Own
       /\ pos'[p].qty \in (pos[p].qty + 1)..ex[p].filled
       /\ StageOf(p)' = StageOf(p) /\ VerdictOf(p)' = VerdictOf(p)
       /\ ex'[p].filled = ex[p].filled

\* What it sees of a plan nothing happens to.
PlanStays(p) ==
    /\ StageOf(p)' = StageOf(p) /\ VerdictOf(p)' = VerdictOf(p)
    /\ ex'[p].filled = ex[p].filled /\ pos'[p].qty = pos[p].qty

\* One plan moves, or none.
LEMMA PlanStep ==
    ASSUME NEW p \in Plans, PlanMoves(p) \/ PlanStays(p),
           \A q \in Plans \ {p} : PlanStays(q)
    PROVE  [\E q \in Plans : Abstract!Settle(q)]_(Abstract!settlement)
<1>1. CASE PlanStays(p)
  <2>1. \A q \in Plans : PlanStays(q)
    BY <1>1
  <2>2. UNCHANGED Abstract!settlement
    BY <2>1 DEF PlanStays, Abstract!settlement
  <2> QED
    BY <2>2
<1>2. CASE PlanMoves(p)
  <2>1. Abstract!Settle(p)
    BY <1>2 DEF PlanMoves, PlanStays, Abstract!Settle, Abstract!Drop, Abstract!Send, Abstract!Buy,
       Abstract!End, Abstract!Conclude, Abstract!Own, Abstract!Open
  <2> QED
    BY <2>1
<1> QED
  BY <1>1, <1>2

\* The order states that are a verdict.
Final == Settled \cup {"POSITION_UNPROTECTED"}

\* Nothing Settlement looks at has changed.
LEMMA NothingMoves ==
    ASSUME NEW q, order'[q].st = order[q].st, order'[q].filled = order[q].filled,
           ex'[q].st = ex[q].st, ex'[q].filled = ex[q].filled,
           pos'[q].qty = pos[q].qty, placed'[q] = placed[q]
    PROVE  PlanStays(q)
  BY DEF PlanStays, StageOf, VerdictOf

\* A step that touches none of it is a step of no plan.
LEMMA Stutters ==
    ASSUME \A q \in Plans : PlanStays(q)
    PROVE  [\E q \in Plans : Abstract!Settle(q)]_(Abstract!settlement)
<1>1. UNCHANGED Abstract!settlement
  BY DEF PlanStays, Abstract!settlement
<1> QED
  BY <1>1

\* One order row moves: not to a verdict, between rows of the same verdict, or
\* to the true verdict of an order that is unsent or has ended.
LEMMA RowMoves ==
    ASSUME IInv, NEW p \in Plans, UNCHANGED <<pos, ex, placed>>,
           \A q \in Plans \ {p} : order'[q] = order[q],
           \/ order[p].st \notin Final /\ order'[p].st \notin Final
           \/ /\ order[p].st \in Final /\ order'[p].st \in Final
              /\ order'[p].filled = order[p].filled
           \/ /\ order[p].st \notin Final /\ order'[p].st \in Final
              /\ order'[p].filled = ex[p].filled
              /\ placed[p] = 0 \/ ex[p].st \notin {"transit", "live"}
    PROVE  [\E q \in Plans : Abstract!Settle(q)]_(Abstract!settlement)
<1>1. ASSUME NEW q \in Plans \ {p} PROVE PlanStays(q)
  BY NothingMoves
<1>2. ExchangeOK(p)
  BY DEF IInv, SharedOK
<1>3. CASE order[p].st \notin Final /\ order'[p].st \notin Final
  <2>1. PlanStays(p)
    BY <1>3 DEF PlanStays, StageOf, VerdictOf, Final
  <2> QED
    BY <1>1, <2>1, PlanStep
<1>4. CASE /\ order[p].st \in Final /\ order'[p].st \in Final
           /\ order'[p].filled = order[p].filled
  <2>1. PlanStays(p)
    BY <1>4 DEF PlanStays, StageOf, VerdictOf, Final
  <2> QED
    BY <1>1, <2>1, PlanStep
<1>5. CASE /\ order[p].st \notin Final /\ order'[p].st \in Final
           /\ order'[p].filled = ex[p].filled
           /\ placed[p] = 0 \/ ex[p].st \notin {"transit", "live"}
  <2>1. VerdictOf(p) = -1 /\ VerdictOf(p)' = ex[p].filled /\ StageOf(p)' = StageOf(p)
    BY <1>5 DEF StageOf, VerdictOf, Final
  <2>2. CASE placed[p] = 0
    <3>1. StageOf(p) = "unsent" /\ ex[p].filled = 0
      BY <1>2, <2>2 DEF StageOf, ExchangeOK
    <3>2. PlanMoves(p)
      BY <2>1, <3>1 DEF PlanMoves
    <3> QED
      BY <1>1, <3>2, PlanStep
  <2>3. CASE placed[p] # 0
    <3>1. StageOf(p) = "ended"
      BY <1>5, <2>3 DEF StageOf
    <3>2. PlanMoves(p)
      BY <2>1, <3>1 DEF PlanMoves
    <3> QED
      BY <1>1, <3>2, PlanStep
  <2> QED
    BY <2>2, <2>3
<1> QED
  BY <1>3, <1>4, <1>5

\* The states that are no verdict.
LEMMA OpenStates ==
    /\ \A st \in {"PLANNED", "APPROVED", "SUBMITTED", "SUBMISSION_UNKNOWN", "CANCEL_REQUESTED",
                  "OPEN", "PARTIALLY_FILLED", "CLOSED"} : st \notin Final
    /\ \A st \in {"FILLED", "CANCELLED", "REJECTED", "POSITION_UNPROTECTED"} : st \in Final
  BY DEF Final, Settled

\* transition_order between two states that are no verdict.
LEMMA StaysOpen ==
    ASSUME IInv, NEW p \in Plans, UNCHANGED <<pos, ex, placed>>,
           NEW st \in {"APPROVED", "SUBMITTED", "SUBMISSION_UNKNOWN", "CANCEL_REQUESTED"},
           order' = order \/ (order' = [order EXCEPT ![p].st = st] /\ order[p].st \notin Final)
    PROVE  [\E q \in Plans : Abstract!Settle(q)]_(Abstract!settlement)
<1>1. CASE order' = order
  <2>1. \A q \in Plans : PlanStays(q)
    BY <1>1, NothingMoves
  <2> QED
    BY <2>1, Stutters
<1>2. CASE order' = [order EXCEPT ![p].st = st] /\ order[p].st \notin Final
  <2>1. order'[p].st = st /\ \A q \in Plans \ {p} : order'[q] = order[q]
    BY <1>2, StateSet DEF IInv
  <2> QED
    BY <1>2, <2>1, OpenStates, RowMoves
<1> QED
  BY <1>1, <1>2

\* transition_order to REJECTED of an order that was never bought.
LEMMA GetsRejected ==
    ASSUME IInv, NEW p \in Plans, UNCHANGED <<pos, ex, placed>>, order[p].st \notin Final,
           order' = [order EXCEPT ![p].st = "REJECTED"], order[p].filled = 0,
           ex[p].st = "none"
    PROVE  [\E q \in Plans : Abstract!Settle(q)]_(Abstract!settlement)
<1>1. /\ order'[p].st = "REJECTED" /\ order'[p].filled = 0
      /\ \A q \in Plans \ {p} : order'[q] = order[q]
  BY StateSet DEF IInv
<1>2. ex[p].filled = 0
  BY DEF IInv, SharedOK, ExchangeOK
<1> QED
  BY <1>1, <1>2, OpenStates, RowMoves

\* _submit.
LEMMA SubmitSettles ==
    ASSUME IInv, SoloInv, OneProcess, NEW w \in Workers,
           \/ \E p \in Plans : Submit(w, p)
           \/ MarkSubmitted(w) \/ RecordRejected(w) \/ RecordUnknown(w) \/ RecordAck(w)
    PROVE  [\E q \in Plans : Abstract!Settle(q)]_(Abstract!settlement)
<1>1. PICK r : r = wk[w]
  OBVIOUS
<1>2. r \in WorkerState /\ CallerOK(r) /\ \A p \in Plans : TableOK(p)
  BY <1>1, SoloFacts
<1>3. r.pc \in {"approved", "rejected", "unknown", "acked"} => r.p \in Plans
  BY <1>1, WorkerFacts DEF Loops
<1>4. /\ r.pc = "approved" => order[r.p].st \notin Final
      /\ r.pc \in {"rejected", "unknown", "acked"} =>
            order[r.p].st \notin Final /\ order[r.p].filled = 0
      /\ r.pc = "rejected" => ex[r.p].st = "none"
  BY <1>2, OpenStates DEF CallerOK, SubmitOK
<1>5. ASSUME NEW p \in Plans, Submit(w, p)
      PROVE  [\E q \in Plans : Abstract!Settle(q)]_(Abstract!settlement)
  <2>1. /\ order[p].st \notin Final /\ order' = [order EXCEPT ![p].st = "APPROVED"]
        /\ UNCHANGED <<pos, ex, placed>>
    BY <1>5, OpenStates DEF Submit, SetState
  <2> QED
    BY <2>1, StaysOpen
<1>6. CASE MarkSubmitted(w)
  <2>1. /\ r.pc = "approved" /\ UNCHANGED <<pos, ex, placed>>
        /\ order' = order \/ order' = [order EXCEPT ![r.p].st = "SUBMITTED"]
    BY <1>1, <1>6 DEF MarkSubmitted, At, SetState
  <2> QED
    BY <1>3, <1>4, <2>1, StaysOpen
<1>7. CASE RecordRejected(w)
  <2>1. /\ r.pc = "rejected" /\ UNCHANGED <<pos, ex, placed>>
        /\ order' = order \/ order' = [order EXCEPT ![r.p].st = "REJECTED"]
    BY <1>1, <1>7 DEF RecordRejected, At, SetState
  <2>2. CASE order' = order
    <3>1. \A q \in Plans : PlanStays(q)
      BY <2>1, <2>2, NothingMoves
    <3> QED
      BY <3>1, Stutters
  <2>3. CASE order' = [order EXCEPT ![r.p].st = "REJECTED"]
    BY <1>3, <1>4, <2>1, <2>3, GetsRejected
  <2> QED
    BY <2>1, <2>2, <2>3
<1>8. CASE RecordUnknown(w)
  <2>1. /\ r.pc = "unknown" /\ UNCHANGED <<pos, ex, placed>>
        /\ order' = order \/ order' = [order EXCEPT ![r.p].st = "SUBMISSION_UNKNOWN"]
    BY <1>1, <1>8 DEF RecordUnknown, At, SetState
  <2> QED
    BY <1>3, <1>4, <2>1, StaysOpen
<1>9. CASE RecordAck(w)
  <2>1. /\ r.pc = "acked" /\ UNCHANGED <<pos, ex, placed>>
        /\ \/ order' = order
           \/ order' = [order EXCEPT ![r.p].st = "SUBMITTED", ![r.p].id = r.id]
    BY <1>1, <1>9 DEF RecordAck, At
  <2>2. CASE order' = order
    <3>1. \A q \in Plans : PlanStays(q)
      BY <2>1, <2>2, NothingMoves
    <3> QED
      BY <3>1, Stutters
  <2>3. CASE order' = [order EXCEPT ![r.p].st = "SUBMITTED", ![r.p].id = r.id]
    <3>1. order[r.p] \in [st : OrderState, id : BOOLEAN, filled : 0..Q]
      BY <1>3, <2>1 DEF IInv, SharedType
    <3>2. order'[r.p].st = "SUBMITTED" /\ \A q \in Plans \ {r.p} : order'[q] = order[q]
      BY <1>3, <2>1, <2>3, <3>1 DEF IInv, SharedType
    <3> QED
      BY <1>3, <1>4, <2>1, <3>2, OpenStates, RowMoves
  <2> QED
    BY <2>1, <2>2, <2>3
<1> QED
  BY <1>5, <1>6, <1>7, <1>8, <1>9

\* place_order is the one Send of a plan, accepted, refused or unanswered.
LEMMA PlaceSettles ==
    ASSUME IInv, SoloInv, OneProcess, NEW w \in Workers, ExecutePlace(w)
    PROVE  [\E q \in Plans : Abstract!Settle(q)]_(Abstract!settlement)
<1>1. PICK r, p : r = wk[w] /\ p = r.p
  OBVIOUS
<1>2. PICK st : /\ r.pc = "send" /\ UNCHANGED <<order, pos>>
                /\ placed' = [placed EXCEPT ![p] = placed[p] + 1]
                /\ ex' = ex \/ ex' = [ex EXCEPT ![p].st = st]
  BY <1>1 DEF ExecutePlace, At
<1>3. /\ p \in Plans /\ CallerOK(r) /\ WorkerOK(r)
      /\ ex[p] \in [st : ExState, filled : 0..Q, creq : BOOLEAN]
  BY <1>1, <1>2, WorkerFacts, SoloFacts DEF Loops
<1>4. placed[p] = 0 /\ order[p].st \notin Final
  BY <1>1, <1>2, <1>3, OpenStates DEF WorkerOK, CallerOK, SubmitOK
<1>5. placed'[p] = 1 /\ \A q \in Plans \ {p} : placed'[q] = placed[q]
  BY <1>2, <1>3, <1>4 DEF IInv, SharedType
<1>6. ex'[p].filled = ex[p].filled /\ \A q \in Plans \ {p} : ex'[q] = ex[q]
  BY <1>2, <1>3 DEF IInv, SharedType
<1>7. ASSUME NEW q \in Plans \ {p} PROVE PlanStays(q)
  BY <1>2, <1>5, <1>6, NothingMoves
<1>8. StageOf(p) = "unsent" /\ VerdictOf(p) = -1 /\ VerdictOf(p)' = VerdictOf(p)
  BY <1>2, <1>4 DEF StageOf, VerdictOf, Final
<1>9. StageOf(p)' \in {"working", "ended"}
  BY <1>5 DEF StageOf
<1>10. PlanMoves(p)
  BY <1>2, <1>6, <1>8, <1>9 DEF PlanMoves
<1> QED
  BY <1>3, <1>7, <1>10, PlanStep

\* The row of an order that ended concludes it, once and for what it bought.
LEMMA AppliedSettles ==
    ASSUME IInv, SoloInv, OneProcess, NEW w \in Workers, ApplyRemoteOrder(w),
           CanTransition(wk[w].p, RemoteState(wk[w]))
    PROVE  [\E q \in Plans : Abstract!Settle(q)]_(Abstract!settlement)
<1>1. PICK r, p : r = wk[w] /\ p = r.p
  OBVIOUS
<1>2. r.pc = "apply" /\ UNCHANGED <<pos, ex, placed>>
  BY <1>1 DEF ApplyRemoteOrder, At
<1>3. /\ r \in WorkerState /\ p \in Plans /\ CallerOK(r) /\ RowOK(r) /\ ExchangeOK(p)
      /\ r.row \in Row /\ OrderOK(p) /\ TableOK(p)
      /\ order[p] \in [st : OrderState, id : BOOLEAN, filled : 0..Q]
      /\ ex[p] \in [st : ExState, filled : 0..Q, creq : BOOLEAN]
  BY <1>1, <1>2, WorkerFacts, SoloFacts DEF Loops, WorkerState
<1>4. PICK s : s = RemoteState(r)
  OBVIOUS
<1>5. order' = [order EXCEPT ![p] = [st |-> s, id |-> TRUE, filled |-> r.row.filled]]
  BY <1>1, <1>4 DEF ApplyRemoteOrder
<1>6. /\ order'[p].st = s /\ order'[p].filled = r.row.filled
      /\ \A q \in Plans \ {p} : order'[q] = order[q]
  BY <1>3, <1>5 DEF IInv, SharedType
<1>7. /\ s \in {"CANCELLED", "REJECTED", "FILLED", "PARTIALLY_FILLED", "OPEN", "SUBMITTED"}
      /\ s = "REJECTED" => r.row.st = "rejected"
      /\ s = "CANCELLED" => r.row.st = "canceled"
      /\ s = "FILLED" => r.row.st \in {"filled", "live", "none", "other"}
                          /\ (r.row.st = "filled" \/ r.row.filled = Q)
  BY <1>3, <1>4, RemoteStateFacts DEF RemoteState, MapState, Row
<1>8. r.row.filled <= ex[p].filled /\ r.row.filled \in Nat /\ ex[p].filled \in Nat
  BY <1>1, <1>3, QAssumption DEF RowOK, Row
<1>9. s = "FILLED" => ex[p].st = "filled" /\ r.row.filled = Q
  BY <1>1, <1>3, <1>7, <1>8, QAssumption DEF RowOK
<1>10. s \in {"CANCELLED", "REJECTED", "FILLED"} =>
          r.row.filled = ex[p].filled /\ ex[p].st \notin {"transit", "live"}
  <2>1. s = "REJECTED" => ex[p].st = "rejected" /\ ex[p].filled = 0
    BY <1>1, <1>2, <1>3, <1>7 DEF CallerOK, FreshOK, ExchangeOK
  <2>2. s = "CANCELLED" => ex[p].st = "canceled" /\ r.row.filled = ex[p].filled
    BY <1>1, <1>3, <1>7 DEF RowOK
  <2>3. s = "FILLED" => ex[p].st = "filled" /\ r.row.filled = Q /\ ex[p].filled = Q
    BY <1>3, <1>9 DEF ExchangeOK
  <2> QED
    BY <1>8, <2>1, <2>2, <2>3
<1>11. order[p].st \in Final => s \in Final /\ r.row.filled = order[p].filled
  <2>1. s \in ALLOWED_TRANSITIONS[order[p].st] /\ order[p].st \in OrderState
    BY <1>1, <1>3, <1>4 DEF CanTransition
  <2>2. /\ order[p].st \in {"FILLED", "POSITION_UNPROTECTED"} => s = "FILLED"
        /\ order[p].st = "CANCELLED" => s = "CANCELLED"
        /\ order[p].st = "REJECTED" => s = "REJECTED"
    BY <1>7, <2>1 DEF OrderState, ALLOWED_TRANSITIONS
  <2>3. CASE order[p].st \in {"FILLED", "POSITION_UNPROTECTED"}
    BY <1>3, <1>9, <2>2, <2>3, OpenStates DEF OrderOK
  <2>4. CASE order[p].st = "CANCELLED"
    BY <1>3, <1>10, <2>2, <2>4, OpenStates DEF OrderOK
  <2>5. CASE order[p].st = "REJECTED"
    <3>1. order[p].filled = 0 /\ ex[p].filled = 0
      BY <1>3, <2>5 DEF TableOK, ExchangeOK
    <3> QED
      BY <1>8, <2>2, <2>5, <3>1, OpenStates
  <2> QED
    BY <2>3, <2>4, <2>5 DEF Final, Settled
<1>12. s \in Final => s \in {"CANCELLED", "REJECTED", "FILLED"}
  BY <1>7, OpenStates
<1> QED
  BY <1>2, <1>3, <1>6, <1>10, <1>11, <1>12, RowMoves

\* A refused row concludes nothing.
LEMMA ApplySettles ==
    ASSUME IInv, SoloInv, OneProcess, NEW w \in Workers, ApplyRemoteOrder(w)
    PROVE  [\E q \in Plans : Abstract!Settle(q)]_(Abstract!settlement)
<1>1. CASE CanTransition(wk[w].p, RemoteState(wk[w]))
  BY <1>1, AppliedSettles
<1>2. CASE ~CanTransition(wk[w].p, RemoteState(wk[w]))
  <2>1. UNCHANGED <<order, pos, ex, placed>>
    BY <1>2 DEF ApplyRemoteOrder
  <2>2. \A q \in Plans : PlanStays(q)
    BY <2>1, NothingMoves
  <2> QED
    BY <2>2, Stutters
<1> QED
  BY <1>1, <1>2

\* Verified protection, or its loss, is no new verdict.
LEMMA ProtectionSettles ==
    ASSUME IInv, SoloInv, OneProcess, NEW w \in Workers, RecordProtection(w)
    PROVE  [\E q \in Plans : Abstract!Settle(q)]_(Abstract!settlement)
<1>1. PICK r : r = wk[w]
  OBVIOUS
<1>2. r.pc = "verify" /\ UNCHANGED <<pos, ex, placed>>
  BY <1>1 DEF RecordProtection, At
<1>3. /\ r.p \in Plans /\ CallerOK(r) /\ r.row \in Row
  BY <1>1, <1>2, WorkerFacts, SoloFacts DEF Loops, WorkerState
<1>4. CanTransition(r.p, LifecycleState(r)) /\ order[r.p].st = RemoteState(r)
  BY <1>1, <1>2, <1>3, VerdictAccepted DEF CallerOK, ApplyOK
<1>5. order' = [order EXCEPT ![r.p].st = LifecycleState(r)]
  BY <1>1, <1>4 DEF RecordProtection, SetState
<1>6. /\ order'[r.p].st = LifecycleState(r) /\ order'[r.p].filled = order[r.p].filled
      /\ \A q \in Plans \ {r.p} : order'[q] = order[q]
  BY <1>3, <1>5, StateSet DEF IInv
<1>7. LifecycleState(r) = RemoteState(r)
        \/ (RemoteState(r) = "FILLED" /\ LifecycleState(r) = "POSITION_UNPROTECTED")
  BY DEF LifecycleState
<1>8. order[r.p].st \in Final <=> order'[r.p].st \in Final
  BY <1>4, <1>6, <1>7, OpenStates
<1> QED
  BY <1>2, <1>3, <1>6, <1>8, RowMoves

\* upsert_managed_position owns more of what was bought, or the same again.
LEMMA UpsertSettles ==
    ASSUME IInv, SoloInv, OneProcess, NEW w \in Workers, UpsertManagedPosition(w)
    PROVE  [\E q \in Plans : Abstract!Settle(q)]_(Abstract!settlement)
<1>1. PICK r, p : r = wk[w] /\ p = r.p
  OBVIOUS
<1>2. /\ r.pc = "upsert" /\ UNCHANGED <<order, ex, placed>>
      /\ pos' = [pos EXCEPT ![p] =
                    [st |-> ManagedState(r), qty |-> r.row.filled, prot |-> r.prot]]
  BY <1>1 DEF UpsertManagedPosition, At
<1>3. /\ p \in Plans /\ CallerOK(r) /\ RowOK(r) /\ r.row \in Row
      /\ ex[p] \in [st : ExState, filled : 0..Q, creq : BOOLEAN]
  BY <1>1, <1>2, WorkerFacts, SoloFacts DEF Loops, WorkerState
<1>4. pos'[p].qty = r.row.filled /\ \A q \in Plans \ {p} : pos'[q] = pos[q]
  BY <1>2, <1>3 DEF IInv, SharedType
<1>5. /\ pos[p].qty \in Nat /\ r.row.filled \in Nat /\ ex[p].filled \in Nat
      /\ pos[p].qty <= r.row.filled /\ r.row.filled <= ex[p].filled
  <2>1. pos[p].qty \in 0..Q
    BY <1>3 DEF IInv, SharedType, PositionRow
  <2> QED
    BY <1>1, <1>2, <1>3, <2>1, QAssumption DEF CallerOK, ApplyOK, Busy, RowOK, Row
<1>6. ASSUME NEW q \in Plans \ {p} PROVE PlanStays(q)
  BY <1>2, <1>4, NothingMoves
<1>7. StageOf(p)' = StageOf(p) /\ VerdictOf(p)' = VerdictOf(p)
  BY <1>2 DEF StageOf, VerdictOf
<1>8. CASE pos[p].qty = r.row.filled
  <2>1. PlanStays(p)
    BY <1>2, <1>4, <1>7, <1>8 DEF PlanStays
  <2> QED
    BY <1>3, <1>6, <2>1, PlanStep
<1>9. CASE pos[p].qty # r.row.filled
  <2>1. pos'[p].qty \in (pos[p].qty + 1)..ex[p].filled
    BY <1>4, <1>5, <1>9
  <2>2. PlanMoves(p)
    BY <1>2, <1>7, <2>1 DEF PlanMoves
  <2> QED
    BY <1>3, <1>6, <2>2, PlanStep
<1> QED
  BY <1>8, <1>9

\* Recording a cancel request is no verdict, and is done to no verdict.
LEMMA CancelSettles ==
    ASSUME IInv, SoloInv, OneProcess, NEW w \in Workers,
           RestoreCancelRequest(w) \/ RecordCancelAck(w) \/ CancelLaneExhausted(w)
    PROVE  [\E q \in Plans : Abstract!Settle(q)]_(Abstract!settlement)
<1>1. PICK r : r = wk[w]
  OBVIOUS
<1>2. r.pc \in {"restore", "cancelAcked", "exhausted"} /\ UNCHANGED <<pos, ex, placed>>
  BY <1>1 DEF RestoreCancelRequest, RecordCancelAck, CancelLaneExhausted, At
<1>3. r.p \in Plans /\ CallerOK(r) /\ order[r.p].st \in OrderState
  BY <1>1, <1>2, WorkerFacts, SoloFacts DEF Loops
<1>4. \/ order' = order
      \/ /\ order' = [order EXCEPT ![r.p].st = "CANCEL_REQUESTED"]
         /\ order[r.p].st \notin Final
  <2>1. CASE RestoreCancelRequest(w)
    <3>1. r.pc = "restore"
      BY <1>1, <2>1 DEF RestoreCancelRequest, At
    <3>2. order[r.p].st \notin Final
      BY <1>3, <3>1, OpenStates DEF CallerOK, CancelOK
    <3> QED
      BY <1>1, <2>1, <3>2 DEF RestoreCancelRequest, SetState
  <2>2. CASE RecordCancelAck(w)
    <3>1. r.pc = "cancelAcked"
      BY <1>1, <2>2 DEF RecordCancelAck, At
    <3>2. order[r.p].st \in (ACTIVE_ORDER_STATES \ {"APPROVED"}) \cup {"CLOSED"}
      BY <1>3, <3>1 DEF CallerOK, CancelOK
    <3>3. CanTransition(r.p, "CANCEL_REQUESTED") => order[r.p].st \notin Final
      BY <1>3, <3>2 DEF CanTransition, ALLOWED_TRANSITIONS, OrderState, ACTIVE_ORDER_STATES,
         Final, Settled
    <3> QED
      BY <1>1, <2>2, <3>3 DEF RecordCancelAck, SetState
  <2>3. CASE CancelLaneExhausted(w)
    <3>1. \/ order' = order
          \/ /\ order' = [order EXCEPT ![r.p].st = "CANCEL_REQUESTED"]
             /\ order[r.p].st \in {"SUBMITTED", "OPEN", "PARTIALLY_FILLED", "CANCEL_REQUESTED"}
      BY <1>1, <2>3 DEF CancelLaneExhausted, SetState
    <3> QED
      BY <3>1, OpenStates
  <2> QED
    BY <2>1, <2>2, <2>3
<1> QED
  BY <1>2, <1>3, <1>4, StaysOpen

\* The cancel pass drops what was never sent.
LEMMA CancelNextSettles ==
    ASSUME IInv, SoloInv, OneProcess, NEW w \in Workers, CancelNext(w)
    PROVE  [\E q \in Plans : Abstract!Settle(q)]_(Abstract!settlement)
<1>1. CallerOK(wk[w]) /\ \A p \in Plans : TableOK(p)
  BY SoloFacts
<1>2. /\ UNCHANGED <<pos, ex, placed>>
      /\ \/ order' = order
         \/ \E p \in Plans : /\ wk[w].snap[p] = "APPROVED"
                             /\ order' = [order EXCEPT ![p].st = "REJECTED"]
  BY DEF CancelNext, SetState
<1>3. CASE order' = order
  <2>1. \A q \in Plans : PlanStays(q)
    BY <1>2, <1>3, NothingMoves
  <2> QED
    BY <2>1, Stutters
<1>4. ASSUME NEW p \in Plans, wk[w].snap[p] = "APPROVED",
             order' = [order EXCEPT ![p].st = "REJECTED"]
      PROVE  [\E q \in Plans : Abstract!Settle(q)]_(Abstract!settlement)
  <2>1. order[p].st = "APPROVED"
    BY <1>1, <1>4 DEF CallerOK, SnapOK
  <2>2. order[p].filled = 0 /\ ex[p].st = "none" /\ order[p].st \notin Final
    BY <1>1, <2>1, OpenStates DEF TableOK, IInv, SharedOK, OrderOK, ExchangeOK
  <2> QED
    BY <1>2, <1>4, <2>2, GetsRejected
<1> QED
  BY <1>2, <1>3, <1>4

\* Steps that move no order, no position and no send.
LEMMA OtherStepsSettle ==
    ASSUME IInv, NEW w \in Workers,
           \/ ExecuteBlocked(w) \/ LookupMissed(w) \/ LookupFound(w) \/ ProtectionState(w)
           \/ RecordEntryFill(w) \/ RecoverNext(w) \/ CancelWithoutRequest(w) \/ CancelEntry(w)
           \/ RecoverActiveOrders(w) \/ CancelPendingEntries(w)
           \/ \E p \in Plans : Cancel(w, p)
           \/ Failure(w)
    PROVE  [\E q \in Plans : Abstract!Settle(q)]_(Abstract!settlement)
<1>1. /\ UNCHANGED <<order, pos, placed>>
      /\ ex' = ex \/ \E p : ex' = [ex EXCEPT ![p].creq = TRUE]
  <2>1. CASE CancelEntry(w)
    BY <2>1 DEF CancelEntry, RequestCancel
  <2>2. CASE \E p \in Plans : Cancel(w, p)
    BY <2>2 DEF Cancel, RequestCancel
  <2>3. CASE ~(CancelEntry(w) \/ \E p \in Plans : Cancel(w, p))
    BY <2>3 DEF ExecuteBlocked, LookupMissed, LookupFound, ProtectionState, RecordEntryFill,
       RecoverNext, CancelWithoutRequest, RecoverActiveOrders, CancelPendingEntries,
       Failure, LookupUnrecognised, ProtectionRaised, RecordEntryFillNoAverage, Crash
  <2> QED
    BY <2>1, <2>2, <2>3
<1>2. ASSUME NEW q \in Plans PROVE ex'[q].st = ex[q].st /\ ex'[q].filled = ex[q].filled
  <2>1. /\ ex \in [Plans -> [st : ExState, filled : 0..Q, creq : BOOLEAN]]
        /\ ex[q] \in [st : ExState, filled : 0..Q, creq : BOOLEAN]
    BY DEF IInv, SharedType
  <2> QED
    BY <1>1, <2>1
<1>3. \A q \in Plans : PlanStays(q)
  BY <1>1, <1>2, NothingMoves
<1> QED
  BY <1>3, Stutters

\* store.reject_plan drops an unsent plan.
LEMMA RejectPlanSettles ==
    ASSUME IInv, SoloInv, NEW p \in Plans, RejectPlan(p)
    PROVE  [\E q \in Plans : Abstract!Settle(q)]_(Abstract!settlement)
<1>1. /\ order[p].st = "PLANNED" /\ order' = [order EXCEPT ![p].st = "REJECTED"]
      /\ UNCHANGED <<pos, ex, placed>>
  BY DEF RejectPlan, SetState
<1>2. order[p].filled = 0 /\ ex[p].st = "none" /\ order[p].st \notin Final
  BY <1>1, OpenStates DEF SoloInv, FollowInv, TableOK, IInv, SharedOK, OrderOK, ExchangeOK
<1> QED
  BY <1>1, <1>2, GetsRejected

\* The exchange buys and ends.
LEMMA ExchangeSettles ==
    ASSUME IInv, NEW p \in Plans, Exchange(p)
    PROVE  [\E q \in Plans : Abstract!Settle(q)]_(Abstract!settlement)
<1>1. /\ ex \in [Plans -> [st : ExState, filled : 0..Q, creq : BOOLEAN]]
      /\ ex[p] \in [st : ExState, filled : 0..Q, creq : BOOLEAN]
      /\ ex[p].filled \in Nat /\ ExchangeOK(p) /\ placed[p] \in Nat
  BY QAssumption DEF IInv, SharedType, SharedOK
<1>2. UNCHANGED <<order, pos, placed>>
  BY DEF Exchange, ExArrive, ExFill, ExCancel, ExReject, ExProtect
<1>3. VerdictOf(p)' = VerdictOf(p)
  BY <1>2 DEF VerdictOf
<1>4. ex[p].st \in {"transit", "live"} => placed[p] # 0 /\ StageOf(p) = "working"
  BY <1>1 DEF ExchangeOK, StageOf
<1>5. CASE ExArrive(p) \/ ExCancel(p) \/ ExReject(p)
  <2>1. PICK st \in {"live", "none", "canceled", "rejected"} :
            ex' = [ex EXCEPT ![p].st = st] /\ ex[p].st \in {"transit", "live"}
    BY <1>5 DEF ExArrive, ExCancel, ExReject
  <2>2. /\ ex'[p].st = st /\ ex'[p].filled = ex[p].filled
        /\ \A q \in Plans \ {p} : ex'[q] = ex[q]
    BY <1>1, <2>1
  <2>3. ASSUME NEW q \in Plans \ {p} PROVE PlanStays(q)
    BY <1>2, <2>2, NothingMoves
  <2>4. CASE st = "live"
    <3>1. StageOf(p)' = "working"
      BY <1>2, <1>4, <2>1, <2>2, <2>4 DEF StageOf
    <3>2. PlanStays(p)
      BY <1>2, <1>3, <1>4, <2>1, <2>2, <3>1 DEF PlanStays
    <3> QED
      BY <2>3, <3>2, PlanStep
  <2>5. CASE st # "live"
    <3>1. StageOf(p)' = "ended"
      BY <1>2, <1>4, <2>1, <2>2, <2>5 DEF StageOf
    <3>2. PlanMoves(p)
      BY <1>2, <1>3, <1>4, <2>1, <2>2, <3>1 DEF PlanMoves
    <3> QED
      BY <2>3, <3>2, PlanStep
  <2> QED
    BY <2>4, <2>5
<1>6. CASE ExFill(p)
  <2>1. PICK st : /\ st = IF ex[p].filled + 1 = Q THEN "filled" ELSE "live"
                  /\ ex' = [ex EXCEPT ![p].filled = ex[p].filled + 1, ![p].st = st]
                  /\ ex[p].st = "live"
    BY <1>6 DEF ExFill
  <2>2. /\ ex'[p].st = st /\ ex'[p].filled = ex[p].filled + 1
        /\ \A q \in Plans \ {p} : ex'[q] = ex[q]
    BY <1>1, <2>1
  <2>3. ASSUME NEW q \in Plans \ {p} PROVE PlanStays(q)
    BY <1>2, <2>2, NothingMoves
  <2>4. ex[p].filled < Q
    BY <1>1, <2>1 DEF ExchangeOK
  <2>5. StageOf(p) = "working"
    BY <1>4, <2>1
  <2>6. StageOf(p)' = IF ex[p].filled + 1 = Q THEN "ended" ELSE StageOf(p)
    BY <1>2, <1>4, <2>1, <2>2, <2>5 DEF StageOf
  <2>7. PlanMoves(p)
    BY <1>2, <1>3, <2>2, <2>4, <2>5, <2>6 DEF PlanMoves
  <2> QED
    BY <2>3, <2>7, PlanStep
<1>7. CASE ExProtect(p)
  <2>1. ex' = ex
    BY <1>7 DEF ExProtect
  <2>2. \A q \in Plans : PlanStays(q)
    BY <1>2, <2>1, NothingMoves
  <2> QED
    BY <2>2, Stutters
<1> QED
  BY <1>5, <1>6, <1>7 DEF Exchange

\* Every step of the entry side is a step of Settlement or none.
LEMMA NextSettles ==
    ASSUME IInv, SoloInv, OneProcess, [Next]_vars
    PROVE  [\E q \in Plans : Abstract!Settle(q)]_(Abstract!settlement)
<1>1. ASSUME NEW w \in Workers, WorkerStep(w) \/ Task(w) \/ Failure(w)
      PROVE  [\E q \in Plans : Abstract!Settle(q)]_(Abstract!settlement)
  <2>1. CASE \/ \E p \in Plans : Submit(w, p)
             \/ MarkSubmitted(w) \/ RecordRejected(w) \/ RecordUnknown(w) \/ RecordAck(w)
    BY <2>1, SubmitSettles
  <2>2. CASE ExecutePlace(w) \/ ApplyRemoteOrder(w) \/ RecordProtection(w)
             \/ UpsertManagedPosition(w) \/ CancelNext(w)
    BY <2>2, PlaceSettles, ApplySettles, ProtectionSettles, UpsertSettles, CancelNextSettles
  <2>3. CASE RestoreCancelRequest(w) \/ RecordCancelAck(w) \/ CancelLaneExhausted(w)
    BY <2>3, CancelSettles
  <2>4. CASE \/ ExecuteBlocked(w) \/ LookupMissed(w) \/ LookupFound(w) \/ ProtectionState(w)
             \/ RecordEntryFill(w) \/ RecoverNext(w) \/ CancelWithoutRequest(w) \/ CancelEntry(w)
             \/ RecoverActiveOrders(w) \/ CancelPendingEntries(w)
             \/ \E p \in Plans : Cancel(w, p)
             \/ Failure(w)
    BY <2>4, OtherStepsSettle
  <2> QED
    BY <1>1, <2>1, <2>2, <2>3, <2>4 DEF WorkerStep, Task
<1>2. ASSUME NEW p \in Plans, RejectPlan(p) \/ Exchange(p)
      PROVE  [\E q \in Plans : Abstract!Settle(q)]_(Abstract!settlement)
  BY <1>2, RejectPlanSettles, ExchangeSettles
<1>3. CASE UNCHANGED vars
  <2>1. \A q \in Plans : PlanStays(q)
    BY <1>3, NothingMoves DEF vars
  <2> QED
    BY <2>1, Stutters
<1> QED
  BY <1>1, <1>2, <1>3 DEF Next

\* EntriesSettle: with one process on the database, the entry side, its
\* tables, lookups, fast lanes, crashes and races, implements Settlement.
THEOREM EntrySideSettles == ASSUME OneProcess PROVE Spec => EntriesSettle
<1>1. Init => Abstract!Start
  BY DEF Init, Abstract!Start, Abstract!Open, StageOf, VerdictOf, Settled
<1>2. IInv /\ SoloInv /\ [Next]_vars =>
        [\E p \in Plans : Abstract!Settle(p)]_(Abstract!settlement)
  BY NextSettles
<1>3. Spec => [](IInv /\ SoloInv)
  BY SoloInvariance
<1>4. Spec => [][\E p \in Plans : Abstract!Settle(p)]_(Abstract!settlement)
  BY <1>2, <1>3, PTL DEF Spec
<1>5. Spec => Abstract!Start
  BY <1>1 DEF Spec
<1> QED
  BY <1>4, <1>5 DEF EntriesSettle, Abstract!SettlementSpec
=============================================================================
