--------------------------- MODULE SessionControl ---------------------------
(***************************************************************************)
(* Who may trade, and when: TradingService's control actions and its three *)
(* threads (trading_agent/service.py), AutoTradingSessionController        *)
(* (session_controller.py), the persisted ControlSnapshot (control_store), *)
(* its mirror in the core's AgentState (state.py) and the last-moment      *)
(* entry guard.                                                            *)
(*                                                                         *)
(* The threads are the operator's requests (serialised by _action_lock, so *)
(* one is enough), the scheduler (runtime_tick) and the market event       *)
(* worker.  Every call into the core runs on the one-thread executor: it   *)
(* is a step that needs the executor free, except an entry, which is two   *)
(* steps, the guard and the submission, with the executor busy between     *)
(* them.  Control rows are written only under _action_lock, so taking the  *)
(* lock, reading the row and writing it is one step; reads made without    *)
(* the lock are steps of their own.                                        *)
(***************************************************************************)
EXTENDS Naturals

CONSTANTS
    Compat,     \* the deprecated Mode/ARM/AUTO/approval endpoints are used too
    MaxFaults   \* bound: recoveries and cancel passes that fail

ASSUME CompatAssumption == Compat \in BOOLEAN
ASSUME MaxFaultsAssumption == MaxFaults \in Nat

VARIABLES
    ctl,    \* control_state row (the environment is always DEMO)
    core,   \* AgentState of the orchestrator
    lock,   \* owner of _action_lock, or "free"
    thr,    \* what each thread does next
    job,    \* an entry passed the guard and is being submitted
    entry,  \* Agent entries: none, one no cancel pass has reached, or asked to cancel
    faults

vars == <<ctl, core, lock, thr, job, entry, faults>>

Threads == {"operator", "scheduler", "market"}

Session == {"STOPPED", "RUNNING", "PAUSED", "FLATTENING", "DEGRADED"}
Agent == {"STOPPED", "RUNNING", "DEGRADED"}
Mode == {"STOPPED", "DRY_RUN", "MANUAL_APPROVAL", "AUTO"}
Connection == {"CONNECTED", "STALE", "DISCONNECTED"}

PCs == {"idle", "sync", "kill", "reset", "recover", "cancel", "exits", "checkFlat",
        "confirm", "degrade", "health", "conn", "account", "failed", "failClosed",
        "check", "decide", "analyze", "enter", "place", "reply"}

\* conn is the connection state a health check is about to store.
ThreadState == [pc : PCs, next : PCs, conn : Connection]
IdleThread == [pc |-> "idle", next |-> "idle", conn |-> "DISCONNECTED"]

TypeOK ==
    /\ ctl \in [exec : {"DISARMED", "ARMED"}, session : Session, agent : Agent,
                mode : Mode, conn : Connection, kill : BOOLEAN, auto : BOOLEAN]
    /\ core \in [mode : Mode, auto : BOOLEAN, armed : BOOLEAN, kill : BOOLEAN]
    /\ lock \in Threads \cup {"free"}
    /\ thr \in [Threads -> ThreadState]
    /\ job \in BOOLEAN
    /\ entry \in {"none", "fresh", "asked"}
    /\ faults \in 0..MaxFaults

\* ControlSnapshot's defaults; reset_for_startup keeps only the kill switch.
SafeControl(kill) ==
    [exec |-> "DISARMED", session |-> "STOPPED", agent |-> "STOPPED",
     mode |-> "STOPPED", conn |-> "DISCONNECTED", kill |-> kill, auto |-> FALSE]

\* _safe_startup on the core's side.
SafeCore(kill) == [mode |-> "STOPPED", auto |-> FALSE, armed |-> FALSE, kill |-> kill]

Init ==
    /\ \E kill \in BOOLEAN : ctl = SafeControl(kill) /\ core = SafeCore(kill)
    /\ lock = "free"
    /\ thr = [t \in Threads |-> IdleThread]
    /\ job = FALSE
    /\ entry \in {"none", "fresh"}
    /\ faults = 0

(***************************************************************************)
(* Helpers.                                                                *)
(***************************************************************************)
At(t, pc) == thr[t].pc = pc
Goto(t, pc) == thr' = [thr EXCEPT ![t] = [IdleThread EXCEPT !.pc = pc]]
GotoThen(t, pc, next) ==
    thr' = [thr EXCEPT ![t] = [IdleThread EXCEPT !.pc = pc, !.next = next]]

\* The end of a request releases the lock; the other threads do not hold it.
Return(t) == Goto(t, "idle") /\ lock' = IF lock = t THEN "free" ELSE lock

\* _transition up to the core call: take the lock and write the row.
Write(t, row, next) ==
    /\ lock \in {"free", t}
    /\ lock' = t
    /\ ctl' = row
    /\ GotoThen(t, "sync", next)

\* A new request of the operator: it gets the lock when nobody has it.
Request(row, next) ==
    /\ At("operator", "idle") /\ lock = "free"
    /\ Write("operator", row, next)
    /\ UNCHANGED <<core, job, entry, faults>>

\* A request that writes no row but goes on at pc.
RequestOnly(pc, next) ==
    /\ At("operator", "idle") /\ lock = "free"
    /\ lock' = "operator"
    /\ GotoThen("operator", pc, next)
    /\ UNCHANGED <<ctl, core, job, entry, faults>>

\* _sync_core_state: set_mode and arm_execution may raise.
SyncRaises == (ctl.agent # "STOPPED" /\ ctl.mode = "AUTO" /\ ~ctl.auto)
              \/ (ctl.exec = "ARMED" /\ ctl.kill)
\* Mutant: the core is armed but never disarmed.
CoreOfStaysArmed(c) ==
    [mode |-> IF c.agent = "STOPPED" THEN "STOPPED" ELSE c.mode,
     auto |-> c.auto, armed |-> core.armed \/ c.exec = "ARMED", kill |-> c.kill]

CoreOf(c) ==
    [mode |-> IF c.agent = "STOPPED" THEN "STOPPED" ELSE c.mode,
     auto |-> c.auto, armed |-> c.exec = "ARMED", kill |-> c.kill]

\* _transition's core call, and the reset it falls back to (which keeps the
\* session state) with _force_core_safe.  A request goes on under the lock.
Sync(t) ==
    /\ At(t, "sync") /\ ~job
    /\ IF SyncRaises
       THEN /\ ctl' = [ctl EXCEPT !.exec = "DISARMED", !.agent = "STOPPED",
                                  !.mode = "STOPPED", !.auto = FALSE, !.conn = "STALE"]
            /\ core' = SafeCore(ctl.kill)
            /\ Return(t)
       ELSE /\ core' = CoreOf(ctl)
            /\ lock' = IF t # "operator" \/ thr[t].next = "idle" THEN "free" ELSE lock
            /\ IF thr[t].next = "cancel" THEN GotoThen(t, "cancel", "idle")
               ELSE Goto(t, thr[t].next)
            /\ UNCHANGED ctl
    /\ UNCHANGED <<job, entry, faults>>

(***************************************************************************)
(* Session requests (AutoTradingSessionController).                        *)
(***************************************************************************)
\* start: idempotent while RUNNING; preflight includes the kill switch and a
\* READY health check, which stores CONNECTED.
Start ==
    \/ ctl.session = "RUNNING" /\ RequestOnly("reply", "idle")
    \/ /\ ctl.session # "RUNNING" /\ ~ctl.kill
       /\ Request([ctl EXCEPT !.session = "RUNNING", !.agent = "RUNNING", !.mode = "AUTO",
                              !.auto = TRUE, !.exec = "ARMED", !.conn = "CONNECTED"], "idle")

\* start or arm refused after their health check stored the connection.
Refused ==
    \E c \in Connection \ {ctl.conn} : Request([ctl EXCEPT !.conn = c], "idle")

\* Mutant: PAUSE disarms and leaves the pending entries alone.
PauseOnly ==
    /\ ctl.session # "PAUSED"
    /\ Request([ctl EXCEPT !.session = "PAUSED", !.agent = "RUNNING",
                           !.mode = "MANUAL_APPROVAL", !.auto = FALSE,
                           !.exec = "DISARMED"], "idle")

\* pause: a second PAUSE changes nothing and cancels nothing.
Pause ==
    \/ ctl.session = "PAUSED" /\ RequestOnly("reply", "idle")
    \/ /\ ctl.session # "PAUSED"
       /\ Request([ctl EXCEPT !.session = "PAUSED", !.agent = "RUNNING",
                              !.mode = "MANUAL_APPROVAL", !.auto = FALSE,
                              !.exec = "DISARMED"], "cancel")

\* Mutant: the idempotent answer keeps the lock.
ReplyKeepsLock ==
    /\ At("operator", "reply")
    /\ Goto("operator", "idle")
    /\ UNCHANGED <<ctl, core, lock, job, entry, faults>>

\* The idempotent answer of start and pause.
Reply ==
    /\ At("operator", "reply")
    /\ Return("operator")
    /\ UNCHANGED <<ctl, core, job, entry, faults>>

\* The row written by stop, and by _finish_flatten when it confirms FLAT.
StoppedRow == [ctl EXCEPT !.session = "STOPPED", !.agent = "STOPPED", !.mode = "STOPPED",
                          !.auto = FALSE, !.exec = "DISARMED"]

\* stop: when already STOPPED only the cancel pass runs.
Stop ==
    \/ ctl.session # "STOPPED" /\ Request(StoppedRow, "cancel")
    \/ ctl.session = "STOPPED" /\ RequestOnly("cancel", "idle")

\* flatten: when already FLATTENING only the round runs.
Flatten ==
    \/ /\ ctl.session # "FLATTENING"
       /\ Request([ctl EXCEPT !.session = "FLATTENING", !.agent = "RUNNING",
                              !.mode = "MANUAL_APPROVAL", !.auto = FALSE,
                              !.exec = "DISARMED"], "recover")
    \/ ctl.session = "FLATTENING" /\ RequestOnly("recover", "idle")

(***************************************************************************)
(* Compatibility requests (TradingService).                                *)
(***************************************************************************)
SetMode ==
    \E m \in Mode :
        /\ m = "AUTO" => ctl.auto
        /\ Request(IF m = "STOPPED"
                   THEN [ctl EXCEPT !.mode = m, !.exec = "DISARMED", !.agent = "STOPPED"]
                   ELSE [ctl EXCEPT !.mode = m], "idle")

StartAgent ==
    /\ ~ctl.kill /\ ctl.mode # "STOPPED"
    /\ Request([ctl EXCEPT !.agent = "RUNNING"], "idle")

StopAgent == Request(StoppedRow, "idle")

Arm ==
    /\ ~ctl.kill /\ ctl.agent = "RUNNING" /\ ctl.mode \in {"MANUAL_APPROVAL", "AUTO"}
    /\ Request([ctl EXCEPT !.exec = "ARMED", !.conn = "CONNECTED"], "idle")

Disarm == Request([ctl EXCEPT !.exec = "DISARMED"], "idle")

\* Mutant: AUTO may be enabled under the kill switch.
EnableAutoUnchecked == Request([ctl EXCEPT !.auto = TRUE], "idle")

EnableAuto == ~ctl.kill /\ Request([ctl EXCEPT !.auto = TRUE], "idle")

\* Mutant: AUTO is switched off and the mode stays AUTO.
DisableAutoKeepsMode == Request([ctl EXCEPT !.auto = FALSE], "idle")

DisableAuto ==
    Request(IF ctl.mode = "AUTO"
            THEN [ctl EXCEPT !.auto = FALSE, !.mode = "MANUAL_APPROVAL", !.exec = "DISARMED"]
            ELSE [ctl EXCEPT !.auto = FALSE], "idle")

\* activate_kill_switch writes the row itself, then calls the core.
ActivateKillSwitch ==
    /\ At("operator", "idle") /\ lock = "free"
    /\ lock' = "operator"
    /\ ctl' = [StoppedRow EXCEPT !.kill = TRUE]
    /\ Goto("operator", "kill")
    /\ UNCHANGED <<core, job, entry, faults>>

\* Mutant: the core is told without waiting for the executor.
KillCoreAtOnce ==
    /\ At("operator", "kill")
    /\ core' = [core EXCEPT !.kill = TRUE, !.armed = FALSE, !.mode = "STOPPED"]
    /\ Return("operator")
    /\ UNCHANGED <<ctl, job, entry, faults>>

\* AgentState.activate_kill_switch leaves auto_demo_enabled alone.
KillCore ==
    /\ At("operator", "kill") /\ ~job
    /\ core' = [core EXCEPT !.kill = TRUE, !.armed = FALSE, !.mode = "STOPPED"]
    /\ Return("operator")
    /\ UNCHANGED <<ctl, job, entry, faults>>

\* reset_kill_switch resets the core first, then the row.
ResetKillSwitch ==
    /\ At("operator", "idle") /\ lock = "free" /\ ~job
    /\ lock' = "operator"
    /\ core' = [core EXCEPT !.kill = FALSE, !.armed = FALSE]
    /\ Goto("operator", "reset")
    /\ UNCHANGED <<ctl, job, entry, faults>>

ResetRow ==
    /\ At("operator", "reset")
    /\ Write("operator", [ctl EXCEPT !.kill = FALSE, !.exec = "DISARMED", !.agent = "STOPPED",
                                     !.mode = "STOPPED", !.session = "STOPPED"], "idle")
    /\ UNCHANGED <<core, job, entry, faults>>

\* approve_plan(_with_challenge): _require_execution_ready, then the core.
ApprovePlan ==
    /\ ctl.conn = "CONNECTED" /\ ~ctl.kill /\ ctl.agent = "RUNNING"
    /\ ctl.exec = "ARMED" /\ ctl.mode \in {"MANUAL_APPROVAL", "AUTO"}
    /\ RequestOnly("enter", "idle")

(***************************************************************************)
(* The rounds of a cancel and of a flatten, on the core.                   *)
(***************************************************************************)
\* orchestrator.recover inside flatten: an entry may turn out to be over.
Recover ==
    /\ At("operator", "recover") /\ ~job
    /\ entry' \in {entry, "none"}
    /\ GotoThen("operator", "cancel", "exits")
    /\ UNCHANGED <<ctl, core, lock, job, faults>>

\* recover_active_orders catches nothing: a lookup or an observation that raises
\* ends flatten() before its cancel pass, with the FLATTENING row written.
RecoverFails ==
    /\ At("operator", "recover") /\ ~job /\ faults < MaxFaults
    /\ faults' = faults + 1
    /\ Return("operator")
    /\ UNCHANGED <<ctl, core, job, entry>>

\* cancel_pending_entries: the exchange takes the requests.
CancelPendingEntries(t) ==
    /\ At(t, "cancel") /\ ~job
    /\ entry' \in IF entry = "none" THEN {"none"} ELSE {"asked", "none"}
    /\ IF thr[t].next = "idle" THEN Return(t) ELSE Goto(t, thr[t].next) /\ UNCHANGED lock
    /\ UNCHANGED <<ctl, core, job, faults>>

\* An entry is not asked to cancel: the request does not get through, is
\* refused, or the row has no okx_order_id yet (the pass goes on); or the pass
\* raises, when it looks an uncertain submission up.
CancelFails(t) ==
    /\ At(t, "cancel") /\ ~job /\ faults < MaxFaults
    /\ faults' = faults + 1
    /\ \/ IF thr[t].next = "idle" THEN Return(t) ELSE Goto(t, thr[t].next) /\ UNCHANGED lock
       \/ IF t = "operator" THEN Return(t) ELSE Goto(t, "failed") /\ UNCHANGED lock
    /\ UNCHANGED <<ctl, core, job, entry>>

\* flatten_managed_positions: what the cancel pass reached may be sold off.
FlattenPositions(t) ==
    /\ At(t, "exits") /\ ~job
    /\ entry' \in IF entry = "fresh" THEN {"fresh"} ELSE {entry, "none"}
    /\ Goto(t, "checkFlat")
    /\ UNCHANGED <<ctl, core, lock, job, faults>>

\* The reads of _finish_flatten, and its two outcomes.
CheckFlat(t) ==
    /\ At(t, "checkFlat") /\ ~job
    /\ IF entry = "none" THEN Goto(t, "confirm") /\ UNCHANGED lock ELSE Return(t)
    /\ UNCHANGED <<ctl, core, job, entry, faults>>

ConfirmFlat(t) ==
    /\ At(t, "confirm")
    /\ Write(t, StoppedRow, "idle")
    /\ UNCHANGED <<core, job, entry, faults>>

(***************************************************************************)
(* The scheduler thread: runtime_tick and handle_runtime_failure.          *)
(***************************************************************************)
\* degrade(): the session is read without the lock ...
SeesRunning(t, next) == ctl.session = "RUNNING" /\ GotoThen(t, "degrade", next)

\* ... and overwritten under it, whatever it has become.
Degrade(t) ==
    /\ At(t, "degrade")
    /\ Write(t, [ctl EXCEPT !.session = "DEGRADED", !.agent = "DEGRADED",
                            !.mode = "MANUAL_APPROVAL", !.auto = FALSE,
                            !.exec = "DISARMED"], thr[t].next)
    /\ UNCHANGED <<core, job, entry, faults>>

\* The watchdog finds stale market data, or not.
Tick ==
    /\ At("scheduler", "idle")
    /\ SeesRunning("scheduler", "health") \/ Goto("scheduler", "health")
    /\ UNCHANGED <<ctl, core, lock, job, entry, faults>>

\* refresh_health: a changed connection state is stored under the lock.
RefreshHealth ==
    /\ At("scheduler", "health") /\ ~job
    /\ \E c \in Connection :
          IF c = ctl.conn THEN Goto("scheduler", "account")
          ELSE thr' = [thr EXCEPT !["scheduler"] = [pc |-> "conn", next |-> "account", conn |-> c]]
    /\ UNCHANGED <<ctl, core, lock, job, entry, faults>>

StoreConnection ==
    /\ At("scheduler", "conn")
    /\ Write("scheduler", [ctl EXCEPT !.conn = thr["scheduler"].conn], "account")
    /\ UNCHANGED <<core, job, entry, faults>>

\* Account synchronisation and recover: done, or one of them raises.
SynchronizeAccount ==
    /\ At("scheduler", "account") /\ ~job
    /\ \/ entry' \in {entry, "none"} /\ Goto("scheduler", "check")
       \/ Goto("scheduler", "failed") /\ UNCHANGED entry
    /\ UNCHANGED <<ctl, core, lock, job, faults>>

\* A managed position is found unprotected, or not.
CheckProtection ==
    /\ At("scheduler", "check")
    /\ (entry # "none" /\ SeesRunning("scheduler", "decide")) \/ Goto("scheduler", "decide")
    /\ UNCHANGED <<ctl, core, lock, job, entry, faults>>

\* continue_flatten runs its round without the lock.
ContinueFlatten ==
    /\ At("scheduler", "decide")
    /\ IF ctl.session = "FLATTENING" THEN GotoThen("scheduler", "cancel", "exits")
       ELSE Goto("scheduler", "idle")
    /\ UNCHANGED <<ctl, core, lock, job, entry, faults>>

HandleRuntimeFailure ==
    /\ At("scheduler", "failed")
    /\ \/ SeesRunning("scheduler", "idle")
       \/ ctl.session # "RUNNING" /\ ctl.agent # "STOPPED" /\ Goto("scheduler", "failClosed")
       \/ ctl.session # "RUNNING" /\ ctl.agent = "STOPPED" /\ Goto("scheduler", "idle")
    /\ UNCHANGED <<ctl, core, lock, job, entry, faults>>

FailClosed ==
    /\ At("scheduler", "failClosed")
    /\ Write("scheduler", [ctl EXCEPT !.session = "DEGRADED", !.agent = "DEGRADED",
                                      !.exec = "DISARMED", !.conn = "STALE"], "idle")
    /\ UNCHANGED <<core, job, entry, faults>>

(***************************************************************************)
(* Entries: the market thread's, and the operator's approvals.             *)
(***************************************************************************)
\* _handle_confirmed_candle for an event that is fresh.
ConfirmedCandle ==
    /\ At("market", "idle")
    /\ ctl.session = "RUNNING"
    /\ Goto("market", "analyze")
    /\ UNCHANGED <<ctl, core, lock, job, entry, faults>>

\* A BUY, no trade, or an exception: the session is degraded.
Analyze ==
    /\ At("market", "analyze") /\ ~job
    /\ Goto("market", "enter") \/ Goto("market", "idle") \/ SeesRunning("market", "idle")
    /\ UNCHANGED <<ctl, core, lock, job, entry, faults>>

AllowsNewEntries ==
    core.armed /\ ~core.kill /\ core.mode \in {"MANUAL_APPROVAL", "AUTO"}

\* What _final_entry_guard requires of the control row.
GuardPasses(c) ==
    /\ ~c.kill /\ c.conn = "CONNECTED" /\ c.agent = "RUNNING"
    /\ c.exec = "ARMED" /\ c.session = "RUNNING"

\* approve_plan on the core, up to _final_entry_guard: refused, or about to
\* call place_order with the executor busy.
EnterGuarded(t) ==
    /\ At(t, "enter") /\ ~job
    /\ \/ Return(t) /\ UNCHANGED job
       \/ /\ AllowsNewEntries /\ GuardPasses(ctl)
          /\ job' = TRUE
          /\ Goto(t, "place") /\ UNCHANGED lock
    /\ UNCHANGED <<ctl, core, entry, faults>>

\* place_order: accepted or not; an exception of the market thread's task
\* degrades the session.
PlaceOrder(t) ==
    /\ At(t, "place")
    /\ job' = FALSE
    /\ entry' \in {entry, "fresh"}
    /\ \/ Return(t)
       \/ t = "market" /\ SeesRunning(t, "idle") /\ UNCHANGED lock
    /\ UNCHANGED <<ctl, core, faults>>

\* The process ends (close() after the threads, or a crash) and starts again.
Restart ==
    /\ ctl' = SafeControl(ctl.kill)
    /\ core' = SafeCore(ctl.kill)
    /\ lock' = "free"
    /\ thr' = [t \in Threads |-> IdleThread]
    /\ job' = FALSE
    /\ entry' \in IF job THEN {entry, "fresh"} ELSE {entry}
    /\ UNCHANGED faults

Requests ==
    \/ Start \/ Refused \/ Pause \/ Stop \/ Flatten \/ ActivateKillSwitch \/ ResetKillSwitch
    \/ /\ Compat
       /\ \/ SetMode \/ StartAgent \/ StopAgent \/ Arm \/ Disarm \/ EnableAuto
          \/ DisableAuto \/ ApprovePlan

Shared(t) ==
    \/ Sync(t) \/ CancelPendingEntries(t) \/ FlattenPositions(t) \/ CheckFlat(t)
    \/ ConfirmFlat(t)

Operator == Shared("operator") \/ Reply \/ KillCore \/ ResetRow \/ Recover
            \/ EnterGuarded("operator") \/ PlaceOrder("operator")

Scheduler ==
    \/ Shared("scheduler") \/ Degrade("scheduler") \/ Tick \/ RefreshHealth \/ StoreConnection
    \/ SynchronizeAccount \/ CheckProtection \/ ContinueFlatten
    \/ HandleRuntimeFailure \/ FailClosed

Market ==
    \/ Sync("market") \/ Degrade("market") \/ Analyze
    \/ EnterGuarded("market") \/ PlaceOrder("market")

Next ==
    \/ Requests \/ Operator \/ Scheduler \/ ConfirmedCandle \/ Market \/ Restart
    \/ RecoverFails
    \/ \E t \in {"operator", "scheduler"} : CancelFails(t)

Spec == Init /\ [][Next]_vars

\* Threads run, and the executor is first-in first-out, so a task that waits
\* for it is not passed over for ever.  Requests and candles may never come.
FairSpec ==
    /\ Spec
    /\ SF_vars(Operator) /\ WF_vars(Scheduler) /\ WF_vars(Market)
    /\ SF_vars(Sync("scheduler")) /\ SF_vars(Sync("market"))

(***************************************************************************)
(* Properties.                                                             *)
(***************************************************************************)
\* While the kill switch is on nothing is armed, no session runs and AUTO is
\* off, whatever requests, failures and restarts follow the activation.
KillBlocks ==
    ctl.kill => ctl.exec = "DISARMED" /\ ctl.session # "RUNNING" /\ ~ctl.auto

\* _sync_core_state never raises: every row that is written can be mirrored, so
\* CONTROL_SYNC_FAILURE_SAFE_RESET is never needed.
RowsAreMirrorable == ~SyncRaises

\* When no control action is under way the core admits entries exactly when
\* the row says so (armed, agent not stopped, an executable mode).
CoreFollowsControl ==
    lock = "free" =>
        (AllowsNewEntries <=> /\ ctl.exec = "ARMED" /\ ctl.agent # "STOPPED"
                              /\ ctl.mode \in {"MANUAL_APPROVAL", "AUTO"})

\* Once a PAUSE, STOP, kill, disarm or fail-closed transition has returned, no
\* entry that passed the guard before it is still about to be submitted.
NoEntryAfterReturn == job /\ lock = "free" => GuardPasses(ctl)

\* When a PAUSE or FLATTEN request has returned, every entry submitted before
\* it has been reached by a cancel pass, if no recovery and no cancel pass
\* failed: either failure ends or passes over the request's own round, and a
\* second PAUSE is answered without one.
PauseReachesEntries ==
    faults = 0 /\ ctl.session \in {"PAUSED", "FLATTENING"} /\ lock = "free" => entry # "fresh"

\* No control action waits for ever: the lock, the executor and the threads do
\* not block each other.
LockReleased == \A t \in Threads : lock = t ~> lock # t

\* FLATTENING is kept until the exposure is zero or the operator decides
\* otherwise: no failure of a tick gives it up.
FlattenKept == [][ctl.session = "FLATTENING" => ctl'.session # "DEGRADED"]_vars
=============================================================================
