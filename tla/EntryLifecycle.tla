--------------------------- MODULE EntryLifecycle ---------------------------
(***************************************************************************)
(* The life of an entry order: OrderManager's _submit, reconcile_plan,     *)
(* _apply_remote_order, recover_active_orders, cancel_pending_entries and  *)
(* cancel (execution/order_manager.py), on the three tables of TradeStore  *)
(* they write (storage/trade_store.py), against an exchange that accepts,  *)
(* fills, cancels and answers in its own time.                             *)
(*                                                                         *)
(* A worker is one process's core thread: service.py runs every            *)
(* OrderManager call on a ThreadPoolExecutor(max_workers=1), so the server *)
(* alone is one worker; a second one is a command-line process on the same *)
(* database.  Each database commit and each exchange call is one step, so  *)
(* the exchange moves, other workers run and the process dies between any  *)
(* two of them.  Exits of a position are not part of this module.          *)
(***************************************************************************)
EXTENDS OrderStates

CONSTANTS
    Plans,      \* trade plans, one entry order each (clOrdId = plan_id[:32])
    Workers,    \* processes sharing the database
    NoPlan,     \* "no plan": what an idle worker works on
    Q,          \* requested size of an entry, in lots
    Lookups,    \* len(TargetedOrderReconciler.delays_seconds)
    MaxFaults   \* bound: process deaths, broken transports, malformed answers

ASSUME NoPlanAssumption == NoPlan \notin Plans
ASSUME QAssumption == Q \in Nat \ {0}
ASSUME LookupsAssumption == Lookups \in Nat \ {0}
ASSUME MaxFaultsAssumption == MaxFaults \in Nat

VARIABLES
    order,      \* order_lifecycle row; "PLANNED" while only trade_plans has one
    pos,        \* managed_positions row
    trade,      \* trades.quantity, 0 while there is no row
    ex,         \* the exchange's order for the plan's client id
    sl,         \* the exchange holds verified TP/SL cover for what was filled
    placed,     \* place_order requests sent for the plan
    wk,         \* what each worker is doing
    faults      \* faults so far

vars == <<order, pos, trade, ex, sl, placed, wk, faults>>

(***************************************************************************)
(* Types.                                                                  *)
(***************************************************************************)
\* Exchange states: nothing known, request still on its way, resting, ended.
ExState == {"none", "transit", "live", "canceled", "filled", "rejected"}

\* A row of an answer; "other" is a missing state or one _map_state does not know.
Row == [st : {"none", "live", "canceled", "filled", "rejected", "other"}, filled : 0..Q]
NoRow == [st |-> "none", filled |-> 0]

NoSnap == [p \in Plans |-> "NONE"]

Idle ==
    [pc |-> "idle", p |-> NoPlan, lane |-> "none", n |-> 0, row |-> NoRow,
     was |-> FALSE, prot |-> FALSE, id |-> FALSE, snap |-> NoSnap]

PCs == {"idle", "approved", "send", "rejected", "unknown", "acked", "lookup",
        "apply", "protect", "verify", "upsert", "record", "restore",
        "exhausted", "recoverLoop", "cancelLoop", "cancel", "cancelAcked"}

\* Where reconcile_plan was called from: the two targeted fast lanes, the
\* reconcile that precedes a cancel, and recover_active_orders.
Lanes == {"none", "new", "cancel", "pre", "recover"}

WorkerState ==
    [pc : PCs, p : Plans \cup {NoPlan}, lane : Lanes, n : 0..Lookups,
     row : Row, was : BOOLEAN, prot : BOOLEAN, id : BOOLEAN,
     snap : [Plans -> OrderState \cup {"NONE"}]]

\* A position is CLOSED by its exit, never here (Admission has that step).
PositionRow ==
    [st : MANAGED_POSITION_STATES \cup {"NONE", "CLOSED"}, qty : 0..Q, prot : BOOLEAN]

TypeOK ==
    /\ order \in [Plans -> [st : OrderState, id : BOOLEAN, filled : 0..Q]]
    /\ pos \in [Plans -> PositionRow]
    /\ trade \in [Plans -> 0..Q]
    /\ ex \in [Plans -> [st : ExState, filled : 0..Q, creq : BOOLEAN]]
    /\ sl \in [Plans -> BOOLEAN]
    /\ placed \in [Plans -> Nat]
    /\ wk \in [Workers -> WorkerState]
    /\ \A w \in Workers : wk[w].pc \notin {"idle", "recoverLoop", "cancelLoop"}
                             => wk[w].p \in Plans
    /\ faults \in 0..MaxFaults

Init ==
    /\ order = [p \in Plans |-> [st |-> "PLANNED", id |-> FALSE, filled |-> 0]]
    /\ pos = [p \in Plans |-> [st |-> "NONE", qty |-> 0, prot |-> FALSE]]
    /\ trade = [p \in Plans |-> 0]
    /\ ex = [p \in Plans |-> [st |-> "none", filled |-> 0, creq |-> FALSE]]
    /\ sl = [p \in Plans |-> FALSE]
    /\ placed = [p \in Plans |-> 0]
    /\ wk = [w \in Workers |-> Idle]
    /\ faults = 0

(***************************************************************************)
(* Helpers.                                                                *)
(***************************************************************************)
\* Mutant: the table has no late fill of an order whose cancel was requested.
CanTransitionNoLateFill(p, st) ==
    /\ st \in ALLOWED_TRANSITIONS[order[p].st]
    /\ ~(order[p].st = "CANCEL_REQUESTED" /\ st = "FILLED")

\* transition_order's check; the write itself is one UPDATE.
CanTransition(p, st) == st \in ALLOWED_TRANSITIONS[order[p].st]
SetState(p, st) == order' = [order EXCEPT ![p].st = st]
Become(w, r) == wk' = [wk EXCEPT ![w] = r]
At(w, pc) == wk[w].pc = pc

\* What _apply_remote_order decides from the row and the verified protection.
RemoteState(r) == MapState(r.row, Q)
\* Mutant: a cancelled order's fills are forgotten.
HasManagedFillNoCancel(r) ==
    r.row.filled > 0 /\ RemoteState(r) \in {"PARTIALLY_FILLED", "FILLED"}

HasManagedFill(r) ==
    r.row.filled > 0 /\ RemoteState(r) \in {"PARTIALLY_FILLED", "FILLED", "CANCELLED"}
LifecycleState(r) ==
    IF RemoteState(r) = "FILLED" /\ ~r.prot THEN "POSITION_UNPROTECTED"
    ELSE RemoteState(r)
ManagedState(r) ==
    IF ~r.prot /\ RemoteState(r) \in {"FILLED", "CANCELLED"}
    THEN "POSITION_UNPROTECTED"
    ELSE IF RemoteState(r) = "CANCELLED" THEN "PARTIALLY_FILLED"
    ELSE RemoteState(r)
\* The result's "managed_position_state": None when nothing filled.
ReportedManagedState(r) == IF HasManagedFill(r) THEN ManagedState(r) ELSE "NONE"

Settled == {"FILLED", "CANCELLED", "REJECTED"}

\* TargetedOrderReconciler.run together with its two completion tests and, for
\* the other callers, what they do when reconcile_plan returns.  st is the
\* "state" of the result ("NONE" when reconcile_plan raised), mng its
\* "managed_position_state".
AgainOr(r, done) ==
    IF r.n > 1 THEN [r EXCEPT !.pc = "lookup", !.n = @ - 1, !.row = NoRow,
                              !.was = FALSE, !.prot = FALSE]
    ELSE done
Loop(r, pc) == [Idle EXCEPT !.pc = pc, !.snap = r.snap]
AfterReconcile(r, st, mng) ==
    IF r.lane = "new" THEN
        IF st \in Settled THEN Idle ELSE AgainOr(r, Idle)
    ELSE IF r.lane = "cancel" THEN
        IF st \in Settled /\ mng # "POSITION_UNPROTECTED"
        THEN Loop(r, "cancelLoop")
        ELSE AgainOr(r, IF st \in Settled \cup {"POSITION_UNPROTECTED"}
                        THEN Loop(r, "cancelLoop")
                        ELSE [r EXCEPT !.pc = "exhausted"])
    ELSE IF r.lane = "pre" THEN
        [r EXCEPT !.pc = "cancel", !.lane = "none", !.row = NoRow,
                  !.was = FALSE, !.prot = FALSE]
    ELSE Loop(r, "recoverLoop")

\* reconcile_plan raised: a fast lane swallows it, the other callers abort.
Raised(r) ==
    IF r.lane \in {"new", "cancel"} THEN AfterReconcile(r, "NONE", "NONE") ELSE Idle

\* Mutant: a reconcile that saw the order working drops the cancel request.
EndOfReconcileForgets(r) ==
    AfterReconcile(r, LifecycleState(r), ReportedManagedState(r))

\* The end of reconcile_plan: a cancel that was asked for stays asked for.
EndOfReconcile(r) ==
    IF r.was /\ LifecycleState(r) \in {"SUBMITTED", "OPEN", "PARTIALLY_FILLED"}
    THEN [r EXCEPT !.pc = "restore"]
    ELSE AfterReconcile(r, LifecycleState(r), ReportedManagedState(r))

StartLane(r, lane) ==
    [r EXCEPT !.pc = "lookup", !.lane = lane, !.n = Lookups]

(***************************************************************************)
(* _submit: approve, mark SUBMITTED, send, record the outcome.             *)
(***************************************************************************)
\* Mutant: approval does not test the plan's status.
SubmitUnchecked(w, p) ==
    /\ At(w, "idle")
    /\ SetState(p, "APPROVED")
    /\ Become(w, [Idle EXCEPT !.pc = "approved", !.p = p])
    /\ UNCHANGED <<pos, trade, ex, sl, placed, faults>>

\* is_duplicate and approve_and_create_order: the compare-and-set on
\* trade_plans.status; when it fails nothing is written.
Submit(w, p) ==
    /\ At(w, "idle")
    /\ order[p].st = "PLANNED"
    /\ SetState(p, "APPROVED")
    /\ Become(w, [Idle EXCEPT !.pc = "approved", !.p = p])
    /\ UNCHANGED <<pos, trade, ex, sl, placed, faults>>

MarkSubmitted(w) ==
    LET p == wk[w].p IN
    /\ At(w, "approved")
    /\ IF CanTransition(p, "SUBMITTED")
       THEN SetState(p, "SUBMITTED") /\ Become(w, [wk[w] EXCEPT !.pc = "send"])
       ELSE UNCHANGED order /\ Become(w, Idle)
    /\ UNCHANGED <<pos, trade, ex, sl, placed, faults>>

\* DemoExecutor.execute refused before place_order (guard, status,
\* capabilities, numbers), or the transport never started.
ExecuteBlocked(w) ==
    /\ At(w, "send")
    /\ Become(w, [wk[w] EXCEPT !.pc = "rejected"])
    /\ UNCHANGED <<order, pos, trade, ex, sl, placed, faults>>

\* place_order was sent: refused (tool error or sCode), acknowledged with or
\* without an ordId, or unanswered with the request still on its way.  A
\* refusal is taken to be the exchange's (McpChannel has what the channel
\* reports, and the exception it can raise after the request was sent).
ExecutePlace(w) ==
    LET p == wk[w].p IN
    /\ At(w, "send")
    /\ placed' = [placed EXCEPT ![p] = @ + 1]
    /\ \/ /\ Become(w, [wk[w] EXCEPT !.pc = "rejected"])
          /\ UNCHANGED ex
       \/ \E id \in BOOLEAN :
            /\ Become(w, [wk[w] EXCEPT !.pc = "acked", !.id = id])
            /\ ex' = [ex EXCEPT ![p].st = "live"]
       \/ /\ Become(w, [wk[w] EXCEPT !.pc = "unknown"])
          /\ ex' = [ex EXCEPT ![p].st = "transit"]
    /\ UNCHANGED <<order, pos, trade, sl, faults>>

RecordRejected(w) ==
    LET p == wk[w].p IN
    /\ At(w, "rejected")
    /\ IF CanTransition(p, "REJECTED") THEN SetState(p, "REJECTED") ELSE UNCHANGED order
    /\ Become(w, Idle)
    /\ UNCHANGED <<pos, trade, ex, sl, placed, faults>>

\* Mutant: a timeout is taken for a refusal.
RecordUnknownAsRejected(w) ==
    /\ At(w, "unknown")
    /\ SetState(wk[w].p, "REJECTED")
    /\ Become(w, Idle)
    /\ UNCHANGED <<pos, trade, ex, sl, placed, faults>>

RecordUnknown(w) ==
    LET p == wk[w].p IN
    /\ At(w, "unknown")
    /\ IF CanTransition(p, "SUBMISSION_UNKNOWN")
       THEN SetState(p, "SUBMISSION_UNKNOWN") /\ Become(w, StartLane(wk[w], "new"))
       ELSE UNCHANGED order /\ Become(w, Idle)
    /\ UNCHANGED <<pos, trade, ex, sl, placed, faults>>

\* transition_order(SUBMITTED, okx_order_id) and record_submission.
RecordAck(w) ==
    LET p == wk[w].p IN
    /\ At(w, "acked")
    /\ IF CanTransition(p, "SUBMITTED")
       THEN /\ order' = [order EXCEPT ![p].st = "SUBMITTED", ![p].id = wk[w].id]
            /\ Become(w, StartLane([wk[w] EXCEPT !.id = FALSE], "new"))
       ELSE UNCHANGED order /\ Become(w, Idle)
    /\ UNCHANGED <<pos, trade, ex, sl, placed, faults>>

\* store.reject_plan: only a plan nobody approved yet.
RejectPlan(p) ==
    /\ order[p].st = "PLANNED"
    /\ SetState(p, "REJECTED")
    /\ UNCHANGED <<pos, trade, ex, sl, placed, wk, faults>>

(***************************************************************************)
(* reconcile_plan and _apply_remote_order.                                 *)
(***************************************************************************)
\* Both lookups (client id, then exchange id) failed or found nothing.
LookupMissed(w) ==
    /\ At(w, "lookup")
    /\ Become(w, AfterReconcile(wk[w], order[wk[w].p].st, "NONE"))
    /\ UNCHANGED <<order, pos, trade, ex, sl, placed, faults>>

LookupFound(w) ==
    LET p == wk[w].p IN
    /\ At(w, "lookup")
    /\ ex[p].st \in {"live", "canceled", "filled", "rejected"}
    /\ Become(w, [wk[w] EXCEPT !.pc = "apply",
                               !.row = [st |-> ex[p].st, filled |-> ex[p].filled],
                               !.was = order[p].st = "CANCEL_REQUESTED"])
    /\ UNCHANGED <<order, pos, trade, ex, sl, placed, faults>>

\* The answer is a row without a state the code recognises, with or without its
\* fills: a malformed answer, counted as a fault.
LookupUnrecognised(w) ==
    LET p == wk[w].p IN
    /\ At(w, "lookup")
    /\ faults < MaxFaults
    /\ faults' = faults + 1
    /\ ex[p].st \in {"live", "canceled", "filled", "rejected"}
    /\ \E f \in {0, ex[p].filled} :
          Become(w, [wk[w] EXCEPT !.pc = "apply",
                                  !.row = [st |-> "other", filled |-> f],
                                  !.was = order[p].st = "CANCEL_REQUESTED"])
    /\ UNCHANGED <<order, pos, trade, ex, sl, placed>>

\* The first transition_order of _apply_remote_order.
ApplyRemoteOrder(w) ==
    LET p == wk[w].p  r == wk[w] IN
    /\ At(w, "apply")
    /\ IF CanTransition(p, RemoteState(r))
       THEN /\ order' = [order EXCEPT ![p] =
                            [st |-> RemoteState(r), id |-> TRUE, filled |-> r.row.filled]]
            /\ Become(w, IF HasManagedFill(r) THEN [r EXCEPT !.pc = "protect"]
                         ELSE EndOfReconcile(r))
       ELSE UNCHANGED order /\ Become(w, Raised(r))
    /\ UNCHANGED <<pos, trade, ex, sl, placed, faults>>

\* _protection_state: the exchange's answer, or "not verified" when the query
\* fails with an exception it handles.
ProtectionState(w) ==
    LET p == wk[w].p IN
    /\ At(w, "protect")
    /\ \E prot \in {sl[p], FALSE} :
          Become(w, [wk[w] EXCEPT !.pc = "verify", !.prot = prot])
    /\ UNCHANGED <<order, pos, trade, ex, sl, placed, faults>>

\* _protection_state does not handle an OSError of the MCP pipe.
ProtectionRaised(w) ==
    /\ At(w, "protect")
    /\ faults < MaxFaults
    /\ faults' = faults + 1
    /\ Become(w, Raised(wk[w]))
    /\ UNCHANGED <<order, pos, trade, ex, sl, placed>>

\* The second transition_order: FILLED or POSITION_UNPROTECTED, with protection_state.
RecordProtection(w) ==
    LET p == wk[w].p  r == wk[w] IN
    /\ At(w, "verify")
    /\ IF CanTransition(p, LifecycleState(r))
       THEN SetState(p, LifecycleState(r)) /\ Become(w, [r EXCEPT !.pc = "upsert"])
       ELSE UNCHANGED order /\ Become(w, Raised(r))
    /\ UNCHANGED <<pos, trade, ex, sl, placed, faults>>

\* Mutant: the position takes the size the order asked for.
UpsertRequestedSize(w) ==
    LET p == wk[w].p  r == wk[w] IN
    /\ At(w, "upsert")
    /\ pos' = [pos EXCEPT ![p] = [st |-> ManagedState(r), qty |-> Q, prot |-> r.prot]]
    /\ Become(w, [r EXCEPT !.pc = "record"])
    /\ UNCHANGED <<order, trade, ex, sl, placed, faults>>

UpsertManagedPosition(w) ==
    LET p == wk[w].p  r == wk[w] IN
    /\ At(w, "upsert")
    /\ pos' = [pos EXCEPT ![p] =
                  [st |-> ManagedState(r), qty |-> r.row.filled, prot |-> r.prot]]
    /\ Become(w, [r EXCEPT !.pc = "record"])
    /\ UNCHANGED <<order, trade, ex, sl, placed, faults>>

\* Mutant: a fill seen again is added again.
RecordEntryFillAdds(w) ==
    LET p == wk[w].p  r == wk[w] IN
    /\ At(w, "record")
    /\ trade' = [trade EXCEPT ![p] = @ + r.row.filled]
    /\ Become(w, EndOfReconcile(r))
    /\ UNCHANGED <<order, pos, ex, sl, placed, faults>>

\* _backfill_fill_data (fees only) and record_entry_fill: the quantity of the
\* trade row only grows.
RecordEntryFill(w) ==
    LET p == wk[w].p  r == wk[w] IN
    /\ At(w, "record")
    /\ trade' = [trade EXCEPT ![p] = IF @ < r.row.filled THEN r.row.filled ELSE @]
    /\ Become(w, EndOfReconcile(r))
    /\ UNCHANGED <<order, pos, ex, sl, placed, faults>>

\* The row has fills and no average price: no trade is recorded.  A malformed
\* answer, counted as a fault.
RecordEntryFillNoAverage(w) ==
    /\ At(w, "record")
    /\ faults < MaxFaults
    /\ faults' = faults + 1
    /\ Become(w, EndOfReconcile(wk[w]))
    /\ UNCHANGED <<order, pos, trade, ex, sl, placed>>

\* A requested cancel survives a reconcile that still saw the order working.
RestoreCancelRequest(w) ==
    LET p == wk[w].p  r == wk[w] IN
    /\ At(w, "restore")
    /\ IF CanTransition(p, "CANCEL_REQUESTED")
       THEN /\ SetState(p, "CANCEL_REQUESTED")
            /\ Become(w, AfterReconcile(r, "CANCEL_REQUESTED", ReportedManagedState(r)))
       ELSE UNCHANGED order /\ Become(w, Raised(r))
    /\ UNCHANGED <<pos, trade, ex, sl, placed, faults>>

(***************************************************************************)
(* recover_active_orders, cancel_pending_entries and cancel.               *)
(***************************************************************************)
PENDING_STATES == ACTIVE_ORDER_STATES \ {"FILLED", "POSITION_UNPROTECTED"}

\* store.active_orders(), read once; only the states the loop goes on with.
Snapshot(states) ==
    [p \in Plans |-> IF order[p].st \in states THEN order[p].st ELSE "NONE"]

\* Mutant: recovery leaves out the uncertain orders.
RecoverCertainOrders(w) ==
    /\ At(w, "idle")
    /\ Become(w, [Idle EXCEPT !.pc = "recoverLoop",
                              !.snap = Snapshot(ACTIVE_ORDER_STATES
                                         \ {"SUBMISSION_UNKNOWN", "CANCEL_REQUESTED"})])
    /\ UNCHANGED <<order, pos, trade, ex, sl, placed, faults>>

\* Mutant: recovery leaves out the completed orders.
RecoverPendingOrders(w) ==
    /\ At(w, "idle")
    /\ Become(w, [Idle EXCEPT !.pc = "recoverLoop", !.snap = Snapshot(PENDING_STATES)])
    /\ UNCHANGED <<order, pos, trade, ex, sl, placed, faults>>

RecoverActiveOrders(w) ==
    /\ At(w, "idle")
    /\ Become(w, [Idle EXCEPT !.pc = "recoverLoop", !.snap = Snapshot(ACTIVE_ORDER_STATES)])
    /\ UNCHANGED <<order, pos, trade, ex, sl, placed, faults>>

RecoverNext(w) ==
    /\ At(w, "recoverLoop")
    /\ \/ \E p \in Plans :
            /\ wk[w].snap[p] # "NONE"
            /\ Become(w, [wk[w] EXCEPT !.pc = "lookup", !.p = p, !.lane = "recover",
                                       !.snap[p] = "NONE"])
       \/ wk[w].snap = NoSnap /\ Become(w, Idle)
    /\ UNCHANGED <<order, pos, trade, ex, sl, placed, faults>>

CancelPendingEntries(w) ==
    /\ At(w, "idle")
    /\ Become(w, [Idle EXCEPT !.pc = "cancelLoop", !.snap = Snapshot(PENDING_STATES)])
    /\ UNCHANGED <<order, pos, trade, ex, sl, placed, faults>>

\* One iteration's head: an APPROVED entry is refused locally, an uncertain
\* one is looked up first.
CancelNext(w) ==
    /\ At(w, "cancelLoop")
    /\ \/ \E p \in Plans :
            LET s == wk[w].snap[p]
                r == [wk[w] EXCEPT !.p = p, !.snap[p] = "NONE"]
            IN \/ /\ s = "APPROVED" /\ CanTransition(p, "REJECTED")
                  /\ SetState(p, "REJECTED")
                  /\ Become(w, Loop(r, "cancelLoop"))
               \/ /\ s = "APPROVED" /\ ~CanTransition(p, "REJECTED")
                  /\ UNCHANGED order
                  /\ Become(w, Idle)
               \/ /\ s = "SUBMISSION_UNKNOWN"
                  /\ UNCHANGED order
                  /\ Become(w, [r EXCEPT !.pc = "lookup", !.lane = "pre"])
               \/ /\ s \notin {"NONE", "APPROVED", "SUBMISSION_UNKNOWN"}
                  /\ UNCHANGED order
                  /\ Become(w, [r EXCEPT !.pc = "cancel"])
       \/ /\ wk[w].snap = NoSnap
          /\ UNCHANGED order
          /\ Become(w, Idle)
    /\ UNCHANGED <<pos, trade, ex, sl, placed, faults>>

\* The entry is no longer pending, has no exchange id, or its cancel is
\* already requested (then only the fast lane runs).
CancelWithoutRequest(w) ==
    LET p == wk[w].p  r == wk[w] IN
    /\ At(w, "cancel")
    /\ \/ /\ order[p].st \notin PENDING_STATES \/ (order[p].st # "CANCEL_REQUESTED" /\ ~order[p].id)
          /\ Become(w, Loop(r, "cancelLoop"))
       \/ /\ order[p].st = "CANCEL_REQUESTED"
          /\ Become(w, StartLane(r, "cancel"))
    /\ UNCHANGED <<order, pos, trade, ex, sl, placed, faults>>

\* backend.cancel_order: acknowledged, or an exception after which the request
\* may or may not have reached the exchange.  The exchange refuses to cancel an
\* order that is not working.
RequestCancel(w, p, acked, refused) ==
    \/ /\ ex[p].st = "live"
       /\ ex' = [ex EXCEPT ![p].creq = TRUE]
       /\ Become(w, acked) \/ Become(w, refused)
    \/ UNCHANGED ex /\ Become(w, refused)

CancelEntry(w) ==
    LET p == wk[w].p  r == wk[w] IN
    /\ At(w, "cancel")
    /\ order[p].st \in PENDING_STATES \ {"CANCEL_REQUESTED"} /\ order[p].id
    /\ RequestCancel(w, p, [r EXCEPT !.pc = "cancelAcked"], Loop(r, "cancelLoop"))
    /\ UNCHANGED <<order, pos, trade, sl, placed, faults>>

\* OrderManager.cancel: the operator's cancel of one order, whatever its state.
Cancel(w, p) ==
    /\ At(w, "idle")
    /\ order[p].id
    /\ RequestCancel(w, p, [Idle EXCEPT !.pc = "cancelAcked", !.p = p], Idle)
    /\ UNCHANGED <<order, pos, trade, sl, placed, faults>>

\* Mutant: an acknowledged cancel request is taken for the cancellation.
RecordCancelAckFinal(w) ==
    /\ At(w, "cancelAcked")
    /\ SetState(wk[w].p, "CANCELLED")
    /\ Become(w, Loop(wk[w], "cancelLoop"))
    /\ UNCHANGED <<pos, trade, ex, sl, placed, faults>>

RecordCancelAck(w) ==
    LET p == wk[w].p  r == wk[w] IN
    /\ At(w, "cancelAcked")
    /\ IF CanTransition(p, "CANCEL_REQUESTED")
       THEN SetState(p, "CANCEL_REQUESTED") /\ Become(w, StartLane(r, "cancel"))
       ELSE UNCHANGED order /\ Become(w, Loop(r, "cancelLoop"))
    /\ UNCHANGED <<pos, trade, ex, sl, placed, faults>>

\* The end of _reconcile_cancel_request when the lane ran out.
CancelLaneExhausted(w) ==
    LET p == wk[w].p  r == wk[w] IN
    /\ At(w, "exhausted")
    /\ IF order[p].st \in {"SUBMITTED", "OPEN", "PARTIALLY_FILLED", "CANCEL_REQUESTED"}
       THEN SetState(p, "CANCEL_REQUESTED")
       ELSE UNCHANGED order
    /\ Become(w, Loop(r, "cancelLoop"))
    /\ UNCHANGED <<pos, trade, ex, sl, placed, faults>>

(***************************************************************************)
(* Failures and the exchange (external).                                   *)
(***************************************************************************)
\* The process dies; close()/_safe_startup leave the tables as they are.
Crash(w) ==
    /\ ~At(w, "idle")
    /\ faults < MaxFaults
    /\ faults' = faults + 1
    /\ Become(w, Idle)
    /\ UNCHANGED <<order, pos, trade, ex, sl, placed>>

ExArrive(p) ==
    /\ ex[p].st = "transit"
    /\ \E st \in {"live", "none"} : ex' = [ex EXCEPT ![p].st = st]
    /\ UNCHANGED <<order, pos, trade, sl, placed, wk, faults>>

\* One more lot fills; the attached TP/SL does not cover it yet.
ExFill(p) ==
    /\ ex[p].st = "live"
    /\ ex' = [ex EXCEPT ![p].filled = @ + 1,
                        ![p].st = IF ex[p].filled + 1 = Q THEN "filled" ELSE "live"]
    /\ sl' = [sl EXCEPT ![p] = FALSE]
    /\ UNCHANGED <<order, pos, trade, placed, wk, faults>>

\* Cancelled on request, or by somebody else.
ExCancel(p) ==
    /\ ex[p].st = "live"
    /\ ex' = [ex EXCEPT ![p].st = "canceled"]
    /\ UNCHANGED <<order, pos, trade, sl, placed, wk, faults>>

\* The matching engine refuses an order the gateway had accepted (never one
\* that has fills already: those end as cancelled).
ExReject(p) ==
    /\ ex[p].st = "live" /\ ex[p].filled = 0
    /\ ex' = [ex EXCEPT ![p].st = "rejected"]
    /\ UNCHANGED <<order, pos, trade, sl, placed, wk, faults>>

\* The attached TP/SL becomes effective, or is lost.
ExProtect(p) ==
    /\ ex[p].filled > 0
    /\ sl' = [sl EXCEPT ![p] = ~@]
    /\ UNCHANGED <<order, pos, trade, ex, placed, wk, faults>>

WorkerStep(w) ==
    \/ MarkSubmitted(w) \/ ExecuteBlocked(w) \/ ExecutePlace(w)
    \/ RecordRejected(w) \/ RecordUnknown(w) \/ RecordAck(w)
    \/ LookupMissed(w) \/ LookupFound(w) \/ ApplyRemoteOrder(w)
    \/ ProtectionState(w) \/ RecordProtection(w)
    \/ UpsertManagedPosition(w) \/ RecordEntryFill(w) \/ RestoreCancelRequest(w)
    \/ RecoverNext(w) \/ CancelNext(w) \/ CancelWithoutRequest(w)
    \/ CancelEntry(w) \/ RecordCancelAck(w) \/ CancelLaneExhausted(w)

Task(w) ==
    \/ RecoverActiveOrders(w) \/ CancelPendingEntries(w)
    \/ \E p \in Plans : Submit(w, p) \/ Cancel(w, p)

Failure(w) ==
    \/ LookupUnrecognised(w) \/ ProtectionRaised(w) \/ RecordEntryFillNoAverage(w)
    \/ Crash(w)

Exchange(p) ==
    ExArrive(p) \/ ExFill(p) \/ ExCancel(p) \/ ExReject(p) \/ ExProtect(p)

Next ==
    \/ \E w \in Workers : WorkerStep(w) \/ Task(w) \/ Failure(w)
    \/ \E p \in Plans : RejectPlan(p) \/ Exchange(p)

Spec == Init /\ [][Next]_vars

(***************************************************************************)
(* Fairness.  The worker thread runs whatever it was given; runtime_tick   *)
(* queues recover_active_orders every three seconds on a first-in          *)
(* first-out executor, so it runs again and again whatever else is queued. *)
(* The exchange settles what it was sent and cancels what it was asked to  *)
(* cancel, and its query endpoints do not fail forever.                    *)
(***************************************************************************)
Fairness ==
    /\ \A w \in Workers :
          /\ WF_vars(WorkerStep(w))
          /\ SF_vars(RecoverActiveOrders(w))
          /\ \A p \in Plans : SF_vars(LookupFound(w) /\ wk[w].p = p)
          /\ SF_vars(ProtectionState(w) /\ wk'[w].prot = sl[wk[w].p])
    /\ \A p \in Plans :
          /\ WF_vars(ExArrive(p))
          /\ WF_vars(ExCancel(p) /\ ex[p].creq)

FairSpec == Spec /\ Fairness

(***************************************************************************)
(* Properties.                                                             *)
(***************************************************************************)
\* An entry is sent to the exchange at most once, whatever is approved twice,
\* times out, is retried by a second process or is interrupted by a crash
\* (approve_and_create_order's "idempotency boundary").
PlacedOnce == \A p \in Plans : placed[p] <= 1

\* A terminal local state is the exchange's: CANCELLED only after the exchange
\* cancelled, with exactly the quantity it had filled; FILLED and
\* POSITION_UNPROTECTED only for an order filled completely.
TerminalIsRemote ==
    \A p \in Plans :
        /\ order[p].st = "CANCELLED" =>
              ex[p].st = "canceled" /\ order[p].filled = ex[p].filled
        /\ order[p].st \in {"FILLED", "POSITION_UNPROTECTED"} =>
              ex[p].st = "filled" /\ order[p].filled = Q

\* A managed position never claims more than its own entry bought: other
\* inventory of the account is never called Agent-managed.
ManagedWithinFills ==
    \A p \in Plans : pos[p].qty <= ex[p].filled /\ trade[p] <= ex[p].filled

\* While one process runs, the transition table refuses no observation of the
\* exchange but a row without a recognised state: a late fill, a cancel racing a
\* fill or a protection that comes and goes never makes reconcile_plan raise
\* INVALID_ORDER_TRANSITION.
ObservationsAccepted ==
    \A w \in Workers :
        /\ At(w, "apply") /\ wk[w].row.st # "other" =>
              CanTransition(wk[w].p, RemoteState(wk[w]))
        /\ At(w, "verify") => CanTransition(wk[w].p, LifecycleState(wk[w]))
        /\ At(w, "restore") => CanTransition(wk[w].p, "CANCEL_REQUESTED")
        /\ At(w, "cancelAcked") =>
              order[wk[w].p].st \in ACTIVE_ORDER_STATES \ {"APPROVED"}

\* As long as nothing failed, between tasks every fill the order table knows of
\* is a managed position and a trade of that quantity, and the position is
\* called protected exactly when the lifecycle row of a completed order is.
FillsManaged ==
    faults = 0 /\ (\A w \in Workers : At(w, "idle")) =>
        \A p \in Plans :
            /\ order[p].filled > 0 =>
                  pos[p].qty = order[p].filled /\ trade[p] = order[p].filled
            /\ order[p].st = "FILLED" => pos[p].prot
            /\ order[p].st = "POSITION_UNPROTECTED" => ~pos[p].prot

\* A cancel the exchange acknowledged is never forgotten: a reconcile_plan that
\* found the order CANCEL_REQUESTED ends, whatever it saw, with the request
\* still recorded or with the order's end (unless a fault interrupts it).
CancelRemembered ==
    [][\A w \in Workers :
          wk[w].was /\ ~wk'[w].was /\ faults' = faults =>
              order'[wk[w].p].st \in {"CANCEL_REQUESTED", "POSITION_UNPROTECTED"} \cup Settled
      ]_vars

\* An uncertain submission whose order exists is eventually resolved, and an
\* acknowledged cancel ends with the order's terminal state.
EntriesResolved ==
    \A p \in Plans :
        /\ order[p].st = "SUBMISSION_UNKNOWN" /\ ex[p].st \notin {"none", "transit"}
              ~> order[p].st # "SUBMISSION_UNKNOWN"
        /\ order[p].st = "CANCEL_REQUESTED"
              ~> order[p].st \in Settled \cup {"POSITION_UNPROTECTED"}

\* Every entry that filled completely eventually becomes a managed position and
\* a trade of the whole size, crashes notwithstanding.
FilledBecomesManaged ==
    \A p \in Plans : ex[p].st = "filled" ~> pos[p].qty = Q /\ trade[p] = Q

\* If a completed entry stays without TP/SL, its position stops being called
\* protected.
LossNoticedWhenFilled ==
    \A p \in Plans :
        <>[](ex[p].st = "filled" /\ ~sl[p]) => <>[](~pos[p].prot)
=============================================================================
