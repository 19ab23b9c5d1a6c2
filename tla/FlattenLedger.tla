--------------------------- MODULE FlattenLedger ---------------------------
(***************************************************************************)
(* Closing one Agent-managed position: the ordered ledger of exit attempts *)
(* (OrderManager.flatten_managed_positions and what it calls), the exits   *)
(* made by the protective order (reconcile_managed_positions), close_trade *)
(* and the clean-up of the protection, driven by the FLATTEN rounds of     *)
(* AutoTradingSessionController.                                           *)
(*                                                                         *)
(* The core worker runs the tasks of a round one after the other; each     *)
(* commit and each exchange call is a step, between which the exchange     *)
(* moves and the process may die.  A position is one entry order's, so the *)
(* positions of other plans do not interact with it.  Quantities are lots. *)
(***************************************************************************)
EXTENDS Integers, FiniteSets

CONSTANTS
    Q,              \* size of the entry order, in lots
    MaxAttempts,    \* bound: exit attempts
    Lookups,        \* len(TargetedOrderReconciler.delays_seconds)
    MaxWorking,     \* lots of the entry that may still be working at the start
    MaxTriggers,    \* bound: lots the protective order may sell
    MaxFaults       \* bound: the failures listed at faults

ASSUME SizesAssumption ==
    /\ Q \in Nat \ {0}
    /\ MaxAttempts \in Nat \ {0}
    /\ Lookups \in Nat \ {0}
    /\ MaxWorking \in 0..(Q - 1)
    /\ MaxTriggers \in Nat
    /\ MaxFaults \in Nat

VARIABLES
    session,    \* control.session_state, as far as flattening goes
    entry,      \* the entry: lifecycle state, exchange side, lots bought
    pos,        \* managed_positions row
    att,        \* flatten_attempts rows
    last,       \* number of the latest attempt
    fills,      \* reconciled_exit_fills: 0 the protective order's, k attempt k's
    xo,         \* the exchange's exit orders
    oco,        \* the protective order
    wk,         \* the core worker
    faults      \* process deaths and exceptions that end a round, exits that
                \* failed locally or were lost, failed queries of the protection,
                \* rows the code cannot read in full, clean-ups whose answer is
                \* lost or that are refused in a payload

vars == <<session, entry, pos, att, last, fills, xo, oco, wk, faults>>

Attempts == 1..MaxAttempts

(***************************************************************************)
(* Types.                                                                  *)
(***************************************************************************)
AttemptState ==
    {"NONE", "PREPARED", "SUBMITTED", "SUBMISSION_UNKNOWN", "CANCEL_REQUESTED",
     "OPEN", "PARTIALLY_FILLED", "FILLED", "CANCELLED", "REJECTED", "FAILED",
     "RECONCILIATION_FAILED", "PROTECTION_CLEANUP_INCOMPLETE"}

\* The states that flatten_intents(active_only) leaves out.
EndedAttempt == {"NONE", "FILLED", "CANCELLED", "REJECTED", "FAILED"}
\* The states after which an attempt is no longer cancelled or counted as working.
NotWorking == EndedAttempt \cup {"PROTECTION_CLEANUP_INCOMPLETE"}

NoAttempt == [st |-> "NONE", req |-> 0, filled |-> 0, id |-> FALSE, term |-> FALSE]
Idle == [pc |-> "idle", k |-> 0, j |-> 0, n |-> 0, mode |-> "none",
         ok |-> FALSE, unres |-> FALSE]

PCs == {"idle", "recover", "protective", "cancelEntry", "entryLane", "cleanups",
        "positions", "lookup", "fill", "settle", "close", "cleanup", "cleaned", "decide",
        "send", "unknown", "failed", "rejected", "acked", "cancelAtt",
        "cancelAcked", "finish"}

\* Who asked for the reconcile: the loop over all attempts, the fast lane after
\* a submission, the oversell-risk cancel of the latest attempt, and the cancel
\* of another attempt before closing.
Modes == {"none", "each", "lane", "risk", "other", "sweep"}

TypeOK ==
    /\ session \in {"FLATTENING", "FLAT", "DEGRADED"}
    /\ entry \in [st : {"PARTIALLY_FILLED", "CANCEL_REQUESTED", "FILLED",
                        "CANCELLED", "CLOSED"},
                  live : BOOLEAN, creq : BOOLEAN, bought : 0..Q]
    /\ pos \in [st : {"OPEN", "EXIT_PARTIALLY_FILLED", "CLOSED"}, qty : 0..Q, ids : BOOLEAN]
    /\ att \in [Attempts -> [st : AttemptState, req : 0..Q, filled : 0..Q,
                             id : BOOLEAN, term : BOOLEAN]]
    /\ last \in 0..MaxAttempts
    /\ fills \in [0..MaxAttempts -> 0..Q]
    /\ xo \in [Attempts -> [st : {"none", "transit", "live", "canceled", "rejected", "filled"},
                            filled : 0..Q]]
    /\ oco \in [st : {"none", "live", "done", "cancelled"}, filled : 0..Q]
    /\ wk \in [pc : PCs, k : 0..MaxAttempts, j : 0..MaxAttempts, n : 0..Lookups,
               mode : Modes, ok : BOOLEAN, unres : BOOLEAN]
    /\ faults \in 0..MaxFaults

\* pos.ids: protective_order_ids_json names the protective order.  att.term:
\* terminal_confirmed and reconciliation_complete, which are read only together.
\* Quantities are added up by counting their lots, which the proofs can reason
\* about for any number of attempts.
Lots(f) == UNION {{k} \X (1..f[k]) : k \in DOMAIN f}
Sum(f) == Cardinality(Lots(f))
Confirmed == Sum(fills)
Active == pos.st # "CLOSED"
Closable == entry.st \in {"PARTIALLY_FILLED", "FILLED", "CANCELLED"}

\* The entry is completely filled, or partly filled with the rest still
\* working; its protective order is known and live, or was never verified.
Init ==
    /\ session = "FLATTENING"
    /\ oco \in [st : {"none", "live"}, filled : {0}]
    /\ \E b \in (Q - MaxWorking)..Q :
          /\ entry = [st |-> IF b = Q THEN "FILLED" ELSE "PARTIALLY_FILLED",
                      live |-> b < Q, creq |-> FALSE, bought |-> b]
          /\ pos = [st |-> "OPEN", qty |-> b, ids |-> oco.st = "live"]
    /\ att = [k \in Attempts |-> NoAttempt]
    /\ last = 0
    /\ fills = [k \in 0..MaxAttempts |-> 0]
    /\ xo = [k \in Attempts |-> [st |-> "none", filled |-> 0]]
    /\ wk = Idle
    /\ faults = 0

Go(r) == wk' = r
At(pc) == wk.pc = pc
Step(pc) == Go([wk EXCEPT !.pc = pc])

(***************************************************************************)
(* A round: recover, cancel the entry, advance the attempts, finish.       *)
(***************************************************************************)
\* runtime_tick: recovery always, the flatten tasks while FLATTENING.
Tick ==
    /\ At("idle")
    /\ Go([Idle EXCEPT !.pc = "recover"])
    /\ UNCHANGED <<session, entry, pos, att, last, fills, xo, oco, faults>>

\* The operator asks again for FLATTEN after the session was degraded.
FlattenAgain ==
    /\ At("idle") /\ session = "DEGRADED"
    /\ session' = "FLATTENING"
    /\ Go([Idle EXCEPT !.pc = "recover"])
    /\ UNCHANGED <<entry, pos, att, last, fills, xo, oco, faults>>

\* An exception leaves the round: handle_runtime_failure gives up FLATTENING.
Abort ==
    /\ session' = IF session = "FLATTENING" THEN "DEGRADED" ELSE session
    /\ Go(Idle)

Fault == faults < MaxFaults /\ faults' = faults + 1

\* reconcile_plan of the entry, as a whole (EntryLifecycle has its steps): the
\* managed quantity becomes what the exchange filled, and the protective ids
\* those of the pending orders: none once the protective order has triggered,
\* and none when the query of the protection or of the instrument failed.
ObserveEntry ==
    /\ entry' = [entry EXCEPT !.st =
          IF ~entry.live THEN IF entry.bought = Q THEN "FILLED" ELSE "CANCELLED"
          ELSE IF entry.st = "CANCEL_REQUESTED" THEN "CANCEL_REQUESTED"
          ELSE "PARTIALLY_FILLED"]
    /\ \E ids \in BOOLEAN :
          /\ pos' = [st |-> "OPEN", qty |-> entry.bought, ids |-> ids]
          /\ \/ ids = (oco.st = "live") /\ UNCHANGED faults
             \/ ~ids /\ oco.filled > 0 /\ UNCHANGED faults
             \/ ~ids /\ Fault

RecoverEntry ==
    /\ At("recover")
    /\ \/ entry.st \notin {"CANCELLED", "CLOSED"} /\ ObserveEntry
       \/ UNCHANGED <<entry, pos, faults>>
    /\ Step("protective")
    /\ UNCHANGED <<session, att, last, fills, xo, oco>>

\* reconcile_managed_positions skipped: nothing managed, no protective order
\* linked, or the fill history incomplete.
ProtectiveSkipped ==
    /\ At("protective")
    /\ Step(IF session = "FLATTENING" THEN "cancelEntry" ELSE "idle")
    /\ UNCHANGED <<session, entry, pos, att, last, fills, xo, oco, faults>>

\* The protective order's fills are recorded; then the position is partly
\* exited, closed (no test for more than its quantity), or close_trade raises.
ReconcileProtective ==
    LET total == Sum([fills EXCEPT ![0] = oco.filled]) IN
    /\ At("protective") /\ Active /\ pos.ids
    /\ fills' = [fills EXCEPT ![0] = oco.filled]
    /\ \/ /\ total < pos.qty
          /\ pos' = [pos EXCEPT !.st = IF total > 0 THEN "EXIT_PARTIALLY_FILLED" ELSE @]
          /\ Step(IF session = "FLATTENING" THEN "cancelEntry" ELSE "idle")
          /\ UNCHANGED <<session, entry>>
       \/ /\ total >= pos.qty /\ Closable
          /\ pos' = [pos EXCEPT !.st = "CLOSED"]
          /\ entry' = [entry EXCEPT !.st = "CLOSED"]
          /\ Step(IF session = "FLATTENING" THEN "cancelEntry" ELSE "idle")
          /\ UNCHANGED session
       \/ /\ total >= pos.qty /\ ~Closable
          /\ Abort
          /\ UNCHANGED <<entry, pos>>
    /\ UNCHANGED <<att, last, xo, oco, faults>>

\* cancel_pending_entries: nothing pending, the request refused or unanswered,
\* acknowledged, or already requested.
CancelPendingEntry ==
    /\ At("cancelEntry")
    /\ \/ /\ entry.st \notin {"PARTIALLY_FILLED", "CANCEL_REQUESTED"}
          /\ Step("cleanups")
          /\ UNCHANGED entry
       \/ /\ entry.st = "PARTIALLY_FILLED"
          /\ \E creq \in {entry.creq, entry.live} : entry' = [entry EXCEPT !.creq = creq]
          /\ Go([wk EXCEPT !.pc = "cleanups", !.unres = TRUE])
       \/ /\ entry.st = "PARTIALLY_FILLED" /\ entry.live
          /\ entry' = [entry EXCEPT !.st = "CANCEL_REQUESTED", !.creq = TRUE]
          /\ Step("entryLane")
       \/ /\ entry.st = "CANCEL_REQUESTED"
          /\ Step("entryLane")
          /\ UNCHANGED entry
    /\ UNCHANGED <<session, pos, att, last, fills, xo, oco, faults>>

\* The fast lane of the cancel, as one lookup at its end.
EntryLane ==
    /\ At("entryLane")
    /\ \/ ObserveEntry
       \/ UNCHANGED <<entry, pos, faults>>
    /\ Go([wk EXCEPT !.pc = "cleanups", !.unres = entry'.st # "CANCELLED"])
    /\ UNCHANGED <<session, att, last, fills, xo, oco>>

(***************************************************************************)
(* flatten_managed_positions.                                              *)
(***************************************************************************)
\* First the attempts whose clean-up is incomplete, then every attempt of an
\* active position, then the decision.
EachFrom(k) ==
    IF k > last THEN [wk EXCEPT !.pc = "decide", !.mode = "none", !.k = 0, !.j = 0, !.n = 0]
    ELSE [wk EXCEPT !.pc = "lookup", !.mode = "each", !.k = k, !.j = k, !.n = 0]

Finished == [wk EXCEPT !.pc = "finish", !.mode = "none", !.k = 0, !.j = 0, !.n = 0]

\* Mutant: incomplete clean-ups are not tried again.
CleanupsSkipped ==
    /\ At("cleanups")
    /\ Step("positions")
    /\ UNCHANGED <<session, entry, pos, att, last, fills, xo, oco, faults>>

Cleanups ==
    /\ At("cleanups")
    /\ \/ \E k \in Attempts :
            /\ att[k].st = "PROTECTION_CLEANUP_INCOMPLETE"
            /\ Go([wk EXCEPT !.pc = "cleanup", !.mode = "sweep", !.k = k, !.j = k])
       \/ /\ \A k \in Attempts : att[k].st # "PROTECTION_CLEANUP_INCOMPLETE"
          /\ Step("positions")
    /\ UNCHANGED <<session, entry, pos, att, last, fills, xo, oco, faults>>

Positions ==
    /\ At("positions")
    /\ Go(IF Active THEN EachFrom(1) ELSE Finished)
    /\ UNCHANGED <<session, entry, pos, att, last, fills, xo, oco, faults>>

Terminal == {"FILLED", "CANCELLED", "REJECTED"}

\* reconcile_flatten_intent returned st for attempt j: what the caller does.
Returned(st) ==
    IF wk.mode = "each" THEN EachFrom(wk.k + 1)
    ELSE IF wk.mode = "sweep" THEN
        [wk EXCEPT !.pc = "positions", !.mode = "none", !.k = 0, !.j = 0]
    ELSE IF st \notin Terminal \cup {"PROTECTION_CLEANUP_INCOMPLETE"} /\ wk.n > 1 THEN
        [wk EXCEPT !.pc = "lookup", !.n = @ - 1]
    ELSE IF wk.mode = "other" THEN
        IF st \in Terminal THEN [wk EXCEPT !.pc = "close", !.mode = "each", !.j = wk.k, !.n = 0]
        ELSE EachFrom(wk.k + 1)
    ELSE Finished

LaneOn(k, mode) ==
    [wk EXCEPT !.pc = "lookup", !.mode = mode, !.j = k, !.n = Lookups,
               !.k = IF mode = "other" THEN @ ELSE k]

\* A FILLED attempt is not looked up again; an attempt in clean-up is cleaned
\* up; a lookup that fails or finds nothing changes nothing.
ReconcileUnseen ==
    LET a == att[wk.j] IN
    /\ At("lookup")
    /\ Go(IF a.st = "PROTECTION_CLEANUP_INCOMPLETE" THEN [wk EXCEPT !.pc = "cleanup"]
          ELSE Returned(a.st))
    /\ UNCHANGED <<session, entry, pos, att, last, fills, xo, oco, faults>>

\* _map_state of the exchange's order j; a requested cancel stays requested
\* while the order works.
RemoteState(j) ==
    IF xo[j].st = "canceled" THEN "CANCELLED"
    ELSE IF xo[j].st = "rejected" THEN "REJECTED"
    ELSE IF xo[j].st = "filled" \/ xo[j].filled >= att[j].req THEN "FILLED"
    ELSE IF att[j].st = "CANCEL_REQUESTED" THEN "CANCEL_REQUESTED"
    ELSE IF xo[j].filled > 0 THEN "PARTIALLY_FILLED"
    ELSE "OPEN"

\* A row of the attempt was found and is recorded as st, filled and term.
Seen(st, filled, term) ==
    LET a == att[wk.j] IN
    /\ At("lookup")
    /\ a.st \notin {"FILLED", "PROTECTION_CLEANUP_INCOMPLETE"}
    /\ xo[wk.j].st \in {"live", "canceled", "rejected", "filled"}
    /\ att' = [att EXCEPT ![wk.j] = [a EXCEPT !.st = st, !.filled = filled,
                                              !.id = TRUE, !.term = term]]
    /\ UNCHANGED <<session, entry, pos, last, fills, xo, oco>>

\* The attempt takes the state, quantity and id of the exchange's row.
ReconcileSeen ==
    /\ Seen(RemoteState(wk.j), xo[wk.j].filled, RemoteState(wk.j) \in Terminal)
    /\ Step("fill")
    /\ UNCHANGED faults

\* The row has fills but no average price: it is not complete, and nothing is
\* booked.
ReconcileSeenNoAverage ==
    /\ At("lookup") /\ xo[wk.j].filled > 0
    /\ Seen(RemoteState(wk.j), xo[wk.j].filled, FALSE)
    /\ Step("settle")
    /\ Fault

\* The row has no state that the code knows and no quantity.
ReconcileUnrecognised ==
    /\ Seen(IF att[wk.j].st = "CANCEL_REQUESTED" THEN "CANCEL_REQUESTED" ELSE "SUBMITTED",
            0, FALSE)
    /\ Step("fill")
    /\ Fault

\* Mutant: an attempt's fills are added at every look.
RecordExitFillAdds ==
    /\ At("fill")
    /\ fills' = [fills EXCEPT ![wk.j] = @ + att[wk.j].filled]
    /\ Step("settle")
    /\ UNCHANGED <<session, entry, pos, att, last, xo, oco, faults>>

\* upsert_reconciled_exit_fill under the key "flatten-attempt:j".
RecordExitFill ==
    /\ At("fill")
    /\ fills' = [fills EXCEPT ![wk.j] = IF att[wk.j].filled > 0 THEN att[wk.j].filled ELSE @]
    /\ Step("settle")
    /\ UNCHANGED <<session, entry, pos, att, last, xo, oco, faults>>

\* Partial exit, or the whole quantity confirmed (closed only by callers that
\* allow it).  A FILLED attempt that is booked is looked at again; one without
\* an average is FILLED for the caller too, and never booked.
Settle ==
    LET a == att[wk.j]
        st == IF a.st = "FILLED" /\ a.term THEN "RECONCILIATION_REQUIRED" ELSE a.st
    IN
    /\ At("settle")
    /\ IF Active /\ Confirmed >= pos.qty
       THEN /\ Go(IF wk.mode \in {"each", "lane"} THEN [wk EXCEPT !.pc = "close"]
                  ELSE Returned(att[wk.j].st))
            /\ UNCHANGED pos
       ELSE /\ pos' = [pos EXCEPT !.st = IF Active /\ Confirmed > 0
                                         THEN "EXIT_PARTIALLY_FILLED" ELSE @]
            /\ Go(Returned(st))
    /\ UNCHANGED <<session, entry, att, last, fills, xo, oco, faults>>

OtherWorking == {i \in 1..last : i # wk.k /\ att[i].st \notin NotWorking}

\* Before closing, every other working attempt is cancelled.
CloseCancelsOthers ==
    /\ At("close") /\ wk.mode # "none"
    /\ \E i \in OtherWorking :
         /\ \A h \in OtherWorking : i <= h
         /\ Go([wk EXCEPT !.pc = "cancelAtt", !.mode = "other", !.j = i])
    /\ UNCHANGED <<session, entry, pos, att, last, fills, xo, oco, faults>>

\* More was sold than managed, or close_trade refused: RECONCILIATION_FAILED.
CloseFailed ==
    /\ At("close")
    /\ \/ wk.mode # "none" /\ OtherWorking = {} /\ Confirmed > pos.qty
       \/ ~Closable /\ (wk.mode # "none" => OtherWorking = {})
    /\ att' = [att EXCEPT ![wk.k].st = "RECONCILIATION_FAILED"]
    /\ Go(Returned("RECONCILIATION_FAILED"))
    /\ UNCHANGED <<session, entry, pos, last, fills, xo, oco, faults>>

\* close_trade: trade, position and lifecycle in one transaction.
CloseTrade ==
    /\ At("close")
    /\ wk.mode # "none" => OtherWorking = {} /\ Confirmed <= pos.qty
    /\ Closable
    /\ pos' = [pos EXCEPT !.st = "CLOSED"]
    /\ entry' = [entry EXCEPT !.st = "CLOSED"]
    /\ Step("cleanup")
    /\ UNCHANGED <<session, att, last, fills, xo, oco, faults>>

\* _cleanup_flatten_protection: cancel_protection_order of the ids the position
\* names, then the attempt's final state.  Any answer counts as a cancel, any
\* exception as none: a live order is cancelled or not (an exception), and an
\* order that is gone may be answered either way.
CleanupCancel ==
    /\ At("cleanup")
    /\ \E ok \in BOOLEAN :
          /\ Go([wk EXCEPT !.pc = "cleaned", !.ok = ok])
          /\ \/ ~pos.ids /\ ok /\ UNCHANGED oco
             \/ pos.ids /\ oco.st = "live" /\ ok /\ oco' = [oco EXCEPT !.st = "cancelled"]
             \/ pos.ids /\ oco.st = "live" /\ ~ok /\ UNCHANGED oco
             \/ pos.ids /\ oco.st # "live" /\ UNCHANGED oco
    /\ UNCHANGED <<session, entry, pos, att, last, fills, xo, faults>>

\* The cancel takes effect and its answer is lost, or it is refused in a payload
\* (whose sCode nobody reads).
CleanupMisread ==
    /\ At("cleanup") /\ pos.ids /\ oco.st = "live"
    /\ \E ok \in BOOLEAN :
          /\ Go([wk EXCEPT !.pc = "cleaned", !.ok = ok])
          /\ oco' = [oco EXCEPT !.st = IF ok THEN "live" ELSE "cancelled"]
    /\ Fault
    /\ UNCHANGED <<session, entry, pos, att, last, fills, xo>>

\* Mutant: a failed clean-up is not remembered.
CleanupRecordForgets ==
    /\ At("cleaned")
    /\ att' = [att EXCEPT ![wk.k].st = "FILLED", ![wk.k].term = TRUE]
    /\ Go([Returned("FILLED") EXCEPT !.ok = FALSE])
    /\ UNCHANGED <<session, entry, pos, last, fills, xo, oco, faults>>

CleanupRecord ==
    LET st == IF wk.ok THEN "FILLED" ELSE "PROTECTION_CLEANUP_INCOMPLETE" IN
    /\ At("cleaned")
    /\ att' = [att EXCEPT ![wk.k].st = st, ![wk.k].term = wk.ok]
    /\ Go([Returned(st) EXCEPT !.ok = FALSE])
    /\ UNCHANGED <<session, entry, pos, last, fills, xo, oco, faults>>

\* After every attempt was reconciled: cancel a latest attempt that could sell
\* too much, wait for one that is not terminal, close, or prepare a new one.
Latest == IF last = 0 THEN NoAttempt ELSE att[last]
OversellRisk ==
    Latest.st \notin NotWorking /\ Confirmed + (Latest.req - Latest.filled) > pos.qty
\* Mutant: an uncertain submission is tried again.
MayRetryUncertain ==
    last = 0 \/ Latest.st \in {"CANCELLED", "REJECTED", "FAILED", "SUBMISSION_UNKNOWN"}

\* Mutant: only a refused attempt is followed by another.
MayRetryRefused == last = 0 \/ (Latest.term /\ Latest.st = "REJECTED")

MayRetry ==
    last = 0 \/ (Latest.term /\ Latest.st \in {"CANCELLED", "REJECTED", "FAILED"})

DecideWait ==
    /\ At("decide")
    /\ ~Active \/ (~OversellRisk /\ ~MayRetry)
       \/ (~OversellRisk /\ Confirmed < pos.qty /\ last = MaxAttempts)
    /\ Go(Finished)
    /\ UNCHANGED <<session, entry, pos, att, last, fills, xo, oco, faults>>

DecideCancel ==
    /\ At("decide") /\ Active /\ OversellRisk
    /\ Go([wk EXCEPT !.pc = "cancelAtt", !.mode = "risk", !.k = last, !.j = last])
    /\ UNCHANGED <<session, entry, pos, att, last, fills, xo, oco, faults>>

\* _close_flatten_position needs an attempt to write to: without one it raises.
DecideClose ==
    /\ At("decide") /\ Active /\ ~OversellRisk /\ MayRetry
    /\ Confirmed >= pos.qty
    /\ IF last = 0 THEN Abort
       ELSE Go([wk EXCEPT !.pc = "close", !.k = last, !.j = last]) /\ UNCHANGED session
    /\ UNCHANGED <<entry, pos, att, last, fills, xo, oco, faults>>

\* Mutant: every attempt is for the whole position.
PrepareExitWhole ==
    /\ At("decide") /\ Active /\ ~OversellRisk /\ MayRetry
    /\ Confirmed < pos.qty
    /\ last < MaxAttempts
    /\ last' = last + 1
    /\ att' = [att EXCEPT ![last + 1] = [NoAttempt EXCEPT !.st = "PREPARED", !.req = pos.qty]]
    /\ Go([wk EXCEPT !.pc = "send", !.k = last + 1, !.j = last + 1])
    /\ UNCHANGED <<session, entry, pos, fills, xo, oco, faults>>

\* create_flatten_intent for what is left, before anything is sent.
PrepareExit ==
    /\ At("decide") /\ Active /\ ~OversellRisk /\ MayRetry
    /\ Confirmed < pos.qty
    /\ last < MaxAttempts
    /\ last' = last + 1
    /\ att' = [att EXCEPT ![last + 1] =
                  [NoAttempt EXCEPT !.st = "PREPARED", !.req = pos.qty - Confirmed]]
    /\ Go([wk EXCEPT !.pc = "send", !.k = last + 1, !.j = last + 1])
    /\ UNCHANGED <<session, entry, pos, fills, xo, oco, faults>>

\* Mutant: the protective order is cancelled when the exit is accepted.
SendExitUnprotects ==
    /\ At("send")
    /\ Step("unknown")
    /\ xo' = [xo EXCEPT ![wk.k].st = "transit"]
    /\ oco' = [oco EXCEPT !.st = IF @ = "live" THEN "cancelled" ELSE @]
    /\ UNCHANGED <<session, entry, pos, att, last, fills, faults>>

\* execute_managed_exit: refused by the exchange (sCode; not the last attempt
\* of the bound), unanswered, or acknowledged with or without an ordId.
SendExit ==
    LET k == wk.k IN
    /\ At("send")
    /\ \/ k < MaxAttempts /\ Step("rejected") /\ UNCHANGED xo
       \/ Step("unknown") /\ xo' = [xo EXCEPT ![k].st = "transit"]
       \/ \E id \in BOOLEAN : /\ Go([wk EXCEPT !.pc = "acked", !.ok = id])
                              /\ xo' = [xo EXCEPT ![k].st = "live"]
    /\ UNCHANGED <<session, entry, pos, att, last, fills, oco, faults>>

\* Any other exception: status guard, number format, tool error, an answer that
\* cannot be read; the exit may have been sent.
SendExitFails ==
    /\ At("send")
    /\ Fault
    /\ \E st \in {"none", "transit"} : xo' = [xo EXCEPT ![wk.k].st = st]
    /\ Step("failed")
    /\ UNCHANGED <<session, entry, pos, att, last, fills, oco>>

RecordExitOutcome ==
    LET k == wk.k IN
    /\ \/ /\ At("rejected")
          /\ att' = [att EXCEPT ![k].st = "REJECTED", ![k].term = TRUE]
          /\ Go(Finished)
       \/ /\ At("failed")
          /\ att' = [att EXCEPT ![k].st = "FAILED"]
          /\ Go(Finished)
       \/ /\ At("unknown")
          /\ att' = [att EXCEPT ![k].st = "SUBMISSION_UNKNOWN"]
          /\ Go(LaneOn(k, "lane"))
       \/ /\ At("acked")
          /\ att' = [att EXCEPT ![k].st = "SUBMITTED", ![k].id = wk.ok]
          /\ Go([LaneOn(k, "lane") EXCEPT !.ok = FALSE])
    /\ UNCHANGED <<session, entry, pos, last, fills, xo, oco, faults>>

\* _cancel_flatten_attempt: without an exchange id, or when the request fails,
\* the attempt keeps its state; once requested only the lane runs.
CancelAttempt ==
    LET j == wk.j  a == att[j] IN
    /\ At("cancelAtt")
    /\ \/ /\ a.st = "CANCEL_REQUESTED"
          /\ Go(LaneOn(j, wk.mode))
       \/ /\ a.st # "CANCEL_REQUESTED"
          /\ Go(Returned(a.st))
       \/ /\ a.st # "CANCEL_REQUESTED" /\ a.id /\ xo[j].st = "live"
          /\ Step("cancelAcked")
    /\ UNCHANGED <<session, entry, pos, att, last, fills, xo, oco, faults>>

RecordAttemptCancel ==
    /\ At("cancelAcked")
    /\ att' = [att EXCEPT ![wk.j].st = "CANCEL_REQUESTED"]
    /\ Go(LaneOn(wk.j, wk.mode))
    /\ UNCHANGED <<session, entry, pos, last, fills, xo, oco, faults>>

\* _finish_flatten.
FinishFlatten ==
    /\ At("finish")
    /\ session' = IF /\ ~Active
                     /\ ~wk.unres
                     /\ entry.st \in {"CANCELLED", "CLOSED"}
                     /\ \A k \in Attempts : att[k].st \in EndedAttempt
                  THEN "FLAT" ELSE session
    /\ Go(Idle)
    /\ UNCHANGED <<entry, pos, att, last, fills, xo, oco, faults>>

(***************************************************************************)
(* Failures and the exchange (external).                                   *)
(***************************************************************************)
\* The process dies and starts again (_safe_startup leaves a stopped session), or
\* an exception that nobody catches ends the round, as one of the recovery does
\* (handle_runtime_failure, with the same effect here).  The operator asks for
\* FLATTEN again.
Crash ==
    /\ ~At("idle")
    /\ Fault
    /\ session' = IF session = "FLAT" THEN session ELSE "DEGRADED"
    /\ Go(Idle)
    /\ UNCHANGED <<entry, pos, att, last, fills, xo, oco>>

\* The working rest of the entry fills or ends.
ExEntry ==
    /\ entry.live
    /\ \/ entry' = [entry EXCEPT !.bought = @ + 1, !.live = entry.bought + 1 < Q]
       \/ entry' = [entry EXCEPT !.live = FALSE]
    /\ UNCHANGED <<session, pos, att, last, fills, xo, oco, wk, faults>>

ExArrive(k) ==
    /\ xo[k].st = "transit"
    /\ xo' = [xo EXCEPT ![k].st = "live"]
    /\ UNCHANGED <<session, entry, pos, att, last, fills, oco, wk, faults>>

ExLose(k) ==
    /\ xo[k].st = "transit"
    /\ Fault
    /\ xo' = [xo EXCEPT ![k].st = "none"]
    /\ UNCHANGED <<session, entry, pos, att, last, fills, oco, wk>>

\* A market exit fills lot by lot.
ExSell(k) ==
    /\ xo[k].st = "live"
    /\ xo' = [xo EXCEPT ![k].filled = @ + 1,
                        ![k].st = IF xo[k].filled + 1 = att[k].req THEN "filled" ELSE "live"]
    /\ UNCHANGED <<session, entry, pos, att, last, fills, oco, wk, faults>>

\* The exchange cancels what is left of it, on request or by itself, or fails it
\* (the last attempt of the bound is let through).
ExCut(k) ==
    /\ xo[k].st = "live"
    /\ k < MaxAttempts
    /\ \E st \in {"canceled", "rejected"} : xo' = [xo EXCEPT ![k].st = st]
    /\ UNCHANGED <<session, entry, pos, att, last, fills, oco, wk, faults>>

\* The protective order, placed for what the entry bought, sells a lot.
ExTrigger ==
    /\ oco.st = "live" /\ oco.filled < MaxTriggers
    /\ oco' = [filled |-> oco.filled + 1,
               st |-> IF oco.filled + 1 = entry.bought THEN "done" ELSE "live"]
    /\ UNCHANGED <<session, entry, pos, att, last, fills, xo, wk, faults>>

Core ==
    \/ RecoverEntry \/ ProtectiveSkipped \/ ReconcileProtective
    \/ CancelPendingEntry \/ EntryLane \/ Cleanups \/ Positions
    \/ ReconcileUnseen \/ ReconcileSeen \/ RecordExitFill \/ Settle
    \/ CloseCancelsOthers \/ CloseFailed \/ CloseTrade
    \/ CleanupCancel \/ CleanupRecord
    \/ DecideWait \/ DecideCancel \/ DecideClose \/ PrepareExit
    \/ SendExit \/ RecordExitOutcome \/ CancelAttempt \/ RecordAttemptCancel
    \/ FinishFlatten

Exchange == ExEntry \/ ExTrigger \/ \E k \in Attempts : ExArrive(k) \/ ExLose(k) \/ ExSell(k) \/ ExCut(k)

Failure ==
    \/ ReconcileSeenNoAverage \/ ReconcileUnrecognised \/ CleanupMisread
    \/ SendExitFails \/ Crash

Next == Tick \/ FlattenAgain \/ Core \/ Failure \/ Exchange

Spec == Init /\ [][Next]_vars

(***************************************************************************)
(* Properties.                                                             *)
(***************************************************************************)
\* What left the account: the protective order's lots and each attempt's.
Sold == Sum([k \in 0..MaxAttempts |-> IF k = 0 THEN oco.filled ELSE xo[k].filled])

\* A new exit is sent only after the previous one has ended on the exchange:
\* two exit orders of one position are never working at the same time.
OneLiveExit ==
    \A i, k \in 1..last : i < k => xo[i].st \notin {"transit", "live"}

\* What the ledger confirms was really sold, by the attempt it is booked on
\* (no fill is counted twice, or before it happened), and a position is closed
\* only when its whole quantity was sold.
LedgerIsTrue ==
    /\ fills[0] <= oco.filled
    /\ \A k \in Attempts : fills[k] <= xo[k].filled
    /\ pos.st = "CLOSED" => Sold >= pos.qty

\* The exit attempts together never sell more than the entry bought.
AttemptsNeverOversell == Sum([k \in Attempts |-> xo[k].filled]) <= entry.bought

\* Only one of the failures that faults counts can make them do so: no order of
\* fills, rejections, cancels, triggers and lookups does.
OversellNeedsFault == faults = 0 => AttemptsNeverOversell

\* The protective order is cancelled only after the position closed.
ProtectionOutlivesPosition == oco.st = "cancelled" => pos.st = "CLOSED"

\* No fault happened and the protective order sold nothing: the only seller is
\* the ledger.
Undisturbed == faults = 0 /\ oco.filled = 0

\* A flatten in which no failure of those that faults counts happened (among
\* them a failed query of the protection, which makes the code forget the
\* protective ids, and a clean-up refused in a payload, which it takes for done)
\* reports FLAT only when no exit order can still sell and no protective order
\* is left behind.
FlatIsClean ==
    Undisturbed /\ session = "FLAT" =>
        /\ \A k \in Attempts : xo[k].st \notin {"transit", "live"}
        /\ oco.st # "live"

(***************************************************************************)
(* Fairness: runtime_tick every three seconds, the worker runs its task,   *)
(* the operator does not give up, and the exchange answers and settles     *)
(* what it has, refusing no cancel forever.                                *)
(***************************************************************************)
FairSpec ==
    /\ Spec
    /\ WF_vars(Tick \/ FlattenAgain) /\ SF_vars(FlattenAgain)
    /\ WF_vars(Core)
    /\ SF_vars(RecoverEntry /\ pos' # pos)
    /\ SF_vars(RecoverEntry /\ entry' # entry)
    /\ SF_vars(ReconcileProtective)
    /\ SF_vars(CancelPendingEntry /\ entry'.st = "CANCEL_REQUESTED")
    /\ SF_vars(EntryLane /\ entry'.st # entry.st)
    /\ SF_vars(CleanupCancel /\ oco'.st = "cancelled")
    /\ WF_vars(ExEntry /\ entry.creq)
    /\ \A k \in Attempts :
          /\ SF_vars(ReconcileSeen /\ wk.j = k)
          /\ WF_vars(ExArrive(k)) /\ WF_vars(ExSell(k) \/ ExCut(k))

\* A flatten ends: unless one of the failures that faults counts happens (an
\* exit filled without an average, a clean-up whose answer is lost and others
\* leave it incomplete), FLATTENING is followed by FLAT.
FlattenEnds == session = "FLATTENING" ~> session = "FLAT" \/ faults > 0

\* Unless one of them happens (a refused clean-up is recorded as done, forgotten
\* ids are never cancelled), a closed position does not keep its protective order
\* for ever: a clean-up that raises is tried again until it succeeds.
CleanupHappens == pos.st = "CLOSED" /\ oco.st = "live" ~> oco.st # "live" \/ faults > 0
=============================================================================
