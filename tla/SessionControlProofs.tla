------------------------ MODULE SessionControlProofs ------------------------
(***************************************************************************)
(* Proofs about SessionControl.                                            *)
(***************************************************************************)
EXTENDS SessionControl, TLAPS

\* The core holds what the row says.
Mirrored ==
    /\ core.mode = IF ctl.agent = "STOPPED" THEN "STOPPED" ELSE ctl.mode
    /\ core.armed <=> ctl.exec = "ARMED"
    /\ core.kill = ctl.kill

\* A row was written and its core call has not been made yet.
Writing == \E t \in Threads : lock = t /\ At(t, "sync")

\* A PAUSE, STOP or FLATTEN was written and its core call is still to come.
Announced == At("operator", "sync") /\ thr["operator"].next \in {"cancel", "recover"}

\* Where the scheduler and the market thread go on after a transition.
Resumed == {"idle", "health", "account", "decide"}

\* The row: the kill switch blocks, and AUTO mode needs its permission.
RowOK ==
    /\ KillBlocks
    /\ ctl.mode = "AUTO" => ctl.auto

\* Who holds the action lock, and where its holder goes on afterwards.
LockOK ==
    /\ At("operator", "idle") <=> lock # "operator"
    /\ \A t \in {"scheduler", "market"} : At(t, "sync") <=> lock = t
    /\ At("operator", "sync") => thr["operator"].next \in {"idle", "cancel", "recover"}
    /\ \A t \in {"scheduler", "market"} :
          thr[t].pc \in {"sync", "degrade"} => thr[t].next \in Resumed
    /\ \A t \in Threads : At(t, "cancel") => thr[t].next \in {"idle", "exits"}

\* The core mirrors the row, unless the call that tells it is still to come.
CoreOK ==
    /\ Mirrored \/ Writing \/ At("operator", "kill") \/ At("operator", "reset")
    /\ At("operator", "kill") => ctl.kill /\ ctl.agent = "STOPPED"

\* At most one entry is past the guard, and the row still admits it, unless the
\* call that cancels it is still to come.
JobOK ==
    /\ \A t \in Threads : At(t, "place") => job
    /\ \A t, u \in Threads : At(t, "place") /\ At(u, "place") => t = u
    /\ job => GuardPasses(ctl) \/ Writing \/ At("operator", "kill")

\* Paused or flattening: no entry is past the guard, and one submitted without a
\* fault is still to be reached by the cancel pass.
PauseOK ==
    ctl.session \in {"PAUSED", "FLATTENING"} =>
        /\ job => Announced
        /\ faults = 0 /\ entry = "fresh" =>
              Announced \/ At("operator", "recover") \/ At("operator", "cancel")

\* The inductive invariant.
IInv == TypeOK /\ RowOK /\ LockOK /\ CoreOK /\ JobOK /\ PauseOK

\* The session states in which no entry may be submitted, and the control row.
Paused == {"PAUSED", "FLATTENING"}
ControlRow == [exec : {"DISARMED", "ARMED"}, session : Session, agent : Agent,
               mode : Mode, conn : Connection, kill : BOOLEAN, auto : BOOLEAN]

\* An idle thread, and one that goes somewhere, have the type of a thread.
LEMMA IdleType ==
    /\ IdleThread \in ThreadState
    /\ \A pc, next \in PCs : [IdleThread EXCEPT !.pc = pc, !.next = next] \in ThreadState
    /\ \A pc \in PCs : [IdleThread EXCEPT !.pc = pc] \in ThreadState
  <1>1. "idle" \in PCs /\ "DISCONNECTED" \in Connection
    BY DEF PCs, Connection
  <1>2. IdleThread \in ThreadState
    BY <1>1 DEF IdleThread, ThreadState
  <1> QED
    BY <1>2 DEF ThreadState

\* _transition: a row that may be written, before its core call.
LEMMA WriteStep ==
    ASSUME IInv, NEW t \in Threads, NEW row \in ControlRow, NEW next \in PCs,
           Write(t, row, next), UNCHANGED <<core, job, entry, faults>>,
           row.kill => row.exec = "DISARMED" /\ row.session # "RUNNING" /\ ~row.auto,
           row.mode = "AUTO" => row.auto,
           t = "operator" => next \in {"idle", "cancel", "recover"},
           t # "operator" => ~At(t, "sync") /\ next \in Resumed,
           \/ t = "operator" /\ next \in {"cancel", "recover"}
           \/ row.session = ctl.session /\ lock = "free"
           \/ row.session \notin Paused
    PROVE  IInv'
  <1>1. /\ ctl' = row /\ lock' = t /\ lock \in {"free", t}
        /\ UNCHANGED <<core, job, entry, faults>>
        /\ thr' = [thr EXCEPT ![t] = [IdleThread EXCEPT !.pc = "sync", !.next = next]]
    BY DEF Write, GotoThen
  <1>2. thr \in [Threads -> ThreadState]
    BY DEF IInv, TypeOK
  <1>3. /\ thr'[t].pc = "sync" /\ thr'[t].next = next
        /\ \A u \in Threads : u # t => thr'[u] = thr[u]
    BY <1>1, <1>2 DEF IdleThread
  <1>4. TypeOK'
    <2>1. [IdleThread EXCEPT !.pc = "sync", !.next = next] \in ThreadState
      BY IdleType DEF PCs
    <2>2. thr' \in [Threads -> ThreadState]
      BY <1>1, <1>2, <2>1
    <2> QED
      BY <1>1, <2>2 DEF IInv, TypeOK, ControlRow
  <1>5. RowOK'
    BY <1>1 DEF RowOK, KillBlocks
  <1>6. LockOK'
    BY <1>1, <1>3 DEF IInv, LockOK, At, Threads
  <1>7. Writing'
    BY <1>1, <1>3 DEF Writing, At
  <1>8. CoreOK'
    BY <1>1, <1>3, <1>7 DEF IInv, CoreOK, LockOK, At, Threads
  <1>9. JobOK'
    BY <1>1, <1>3, <1>7 DEF IInv, JobOK, At, Threads
  <1>10. PauseOK'
    BY <1>1, <1>3 DEF IInv, PauseOK, Announced, LockOK, At, Threads, Paused
  <1>11. QED
    BY <1>4, <1>5, <1>6, <1>8, <1>9, <1>10 DEF IInv

\* A thread goes on without writing the row, the core or the job.
LEMMA MoveStep ==
    ASSUME IInv, NEW t \in Threads, NEW r \in ThreadState,
           thr' = [thr EXCEPT ![t] = r], UNCHANGED <<ctl, core, job>>,
           lock' = IF t = "operator" /\ r.pc = "idle" THEN "free" ELSE lock,
           entry' \in {"none", "asked", entry},
           faults' \in 0..MaxFaults, faults' = faults \/ faults' # 0,
           thr[t].pc \notin {"sync", "kill", "reset", "place"},
           r.pc \notin {"sync", "kill", "reset", "place"},
           r.pc = "degrade" => r.next \in Resumed,
           r.pc = "cancel" => r.next \in {"idle", "exits"},
           t = "operator" => thr[t].pc # "idle",
           t = "operator" /\ thr[t].pc \in {"recover", "cancel"}
                          /\ r.pc \notin {"recover", "cancel"} =>
               entry' # "fresh" \/ faults' # 0
    PROVE  IInv'
  <1>1. thr \in [Threads -> ThreadState]
    BY DEF IInv, TypeOK
  <1>2. /\ thr'[t] = r
        /\ \A u \in Threads : u # t => thr'[u] = thr[u]
    BY <1>1
  <1>3. TypeOK'
    BY <1>1 DEF IInv, TypeOK
  <1>4. RowOK'
    BY DEF IInv, RowOK, KillBlocks
  <1>5. LockOK'
    BY <1>2 DEF IInv, LockOK, At, Threads
  <1>6. Writing' <=> Writing
    BY <1>2 DEF IInv, LockOK, Writing, At, Threads
  <1>7. CoreOK'
    BY <1>2, <1>6 DEF IInv, CoreOK, Mirrored, At, Threads
  <1>8. JobOK'
    BY <1>2, <1>6 DEF IInv, JobOK, At, Threads, GuardPasses
  <1>9. PauseOK'
    BY <1>2 DEF IInv, PauseOK, Announced, At, Threads
  <1>10. QED
    BY <1>3, <1>4, <1>5, <1>7, <1>8, <1>9 DEF IInv

\* A request of the operator that writes no row takes the lock.
LEMMA RequestOnlyStep ==
    ASSUME IInv, NEW pc \in {"reply", "cancel", "recover", "enter"}, RequestOnly(pc, "idle")
    PROVE  IInv'
  <1>1. PICK r : r = [IdleThread EXCEPT !.pc = pc, !.next = "idle"]
    OBVIOUS
  <1>2. /\ UNCHANGED <<ctl, core, job, entry, faults>>
        /\ lock = "free" /\ lock' = "operator"
        /\ thr["operator"].pc = "idle"
        /\ thr' = [thr EXCEPT !["operator"] = r]
    BY <1>1 DEF RequestOnly, GotoThen, At
  <1>3. thr \in [Threads -> ThreadState] /\ r \in ThreadState /\ r.pc = pc /\ r.next = "idle"
    BY <1>1, IdleType DEF IInv, TypeOK, PCs, IdleThread
  <1>4. /\ thr'["operator"] = r
        /\ \A u \in Threads : u # "operator" => thr'[u] = thr[u]
    BY <1>2, <1>3 DEF Threads
  <1>5. TypeOK' /\ RowOK'
    BY <1>2, <1>3 DEF IInv, TypeOK, Threads, RowOK, KillBlocks
  <1>6. LockOK'
    BY <1>2, <1>3, <1>4 DEF IInv, LockOK, At, Threads
  <1>7. ~Writing /\ ~Writing'
    BY <1>2, <1>3, <1>4 DEF Writing, At, Threads
  <1>8. CoreOK' /\ JobOK'
    BY <1>2, <1>3, <1>4, <1>7 DEF IInv, CoreOK, Mirrored, JobOK, At, Threads, GuardPasses
  <1>9. PauseOK'
    BY <1>2, <1>3, <1>4 DEF IInv, PauseOK, Announced, At, Threads
  <1>10. QED
    BY <1>5, <1>6, <1>8, <1>9 DEF IInv

\* A request of the operator that writes a row.
LEMMA RequestStep ==
    ASSUME IInv, NEW row \in ControlRow, NEW next \in {"idle", "cancel", "recover"},
           Request(row, next),
           row.kill => row.exec = "DISARMED" /\ row.session # "RUNNING" /\ ~row.auto,
           row.mode = "AUTO" => row.auto,
           row.session = ctl.session \/ row.session \notin Paused \/ next # "idle"
    PROVE  IInv'
  <1>1. /\ Write("operator", row, next) /\ lock = "free"
        /\ UNCHANGED <<core, job, entry, faults>>
    BY DEF Request
  <1>2. "operator" \in Threads /\ next \in PCs
    BY DEF Threads, PCs
  <1>3. QED
    BY <1>1, <1>2, WriteStep

(***************************************************************************)
(* Requests: one lemma each, from what the row it writes looks like.       *)
(***************************************************************************)
\* START arms a row without the kill switch.
LEMMA StartStep == ASSUME IInv, Start PROVE IInv'
  <1>1. CASE RequestOnly("reply", "idle")
    BY <1>1, RequestOnlyStep
  <1>2. ASSUME ~ctl.kill, Request([ctl EXCEPT !.session = "RUNNING", !.agent = "RUNNING", !.mode = "AUTO",
                              !.auto = TRUE, !.exec = "ARMED", !.conn = "CONNECTED"], "idle") PROVE IInv'
    <2>1. PICK row : row = [ctl EXCEPT !.session = "RUNNING", !.agent = "RUNNING", !.mode = "AUTO",
                              !.auto = TRUE, !.exec = "ARMED", !.conn = "CONNECTED"]
      OBVIOUS
    <2>2. row \in ControlRow /\ row.kill = ctl.kill /\ row.auto /\ row.session = "RUNNING"
      BY <1>2, <2>1 DEF IInv, TypeOK, RowOK, KillBlocks, ControlRow, Session, Agent, Mode, Connection
    <2>3. QED
      BY <1>2, <2>1, <2>2, RequestStep DEF Paused, IInv, RowOK, KillBlocks
  <1>3. QED
    BY <1>1, <1>2 DEF Start

\* A refused request stores the connection it found.
LEMMA RefusedStep == ASSUME IInv, Refused PROVE IInv'
  <1>1. PICK c \in Connection : Request([ctl EXCEPT !.conn = c], "idle")
    BY DEF Refused
  <1>2. PICK row : row = [ctl EXCEPT !.conn = c]
    OBVIOUS
  <1>3. /\ row \in ControlRow /\ row.kill = ctl.kill /\ row.auto = ctl.auto /\ row.exec = ctl.exec
        /\ row.session = ctl.session /\ row.mode = ctl.mode
    BY <1>2 DEF IInv, TypeOK, ControlRow
  <1>4. QED
    BY <1>1, <1>2, <1>3, RequestStep DEF IInv, RowOK, KillBlocks

\* PAUSE disarms and is followed by its cancel pass.
LEMMA PauseStep == ASSUME IInv, Pause PROVE IInv'
  <1>1. CASE RequestOnly("reply", "idle")
    BY <1>1, RequestOnlyStep
  <1>2. ASSUME Request([ctl EXCEPT !.session = "PAUSED", !.agent = "RUNNING",
                              !.mode = "MANUAL_APPROVAL", !.auto = FALSE,
                              !.exec = "DISARMED"], "cancel") PROVE IInv'
    <2>1. PICK row : row = [ctl EXCEPT !.session = "PAUSED", !.agent = "RUNNING",
                              !.mode = "MANUAL_APPROVAL", !.auto = FALSE,
                              !.exec = "DISARMED"]
      OBVIOUS
    <2>2. row \in ControlRow /\ row.exec = "DISARMED" /\ row.session = "PAUSED" /\ ~row.auto /\ row.mode # "AUTO"
      BY <1>2, <2>1 DEF IInv, TypeOK, RowOK, KillBlocks, ControlRow, Session, Agent, Mode, Connection
    <2>3. QED
      BY <1>2, <2>1, <2>2, RequestStep DEF Paused, IInv, RowOK, KillBlocks
  <1>3. QED
    BY <1>1, <1>2 DEF Pause

\* STOP writes the safe row.
LEMMA StopStep == ASSUME IInv, Stop PROVE IInv'
  <1>1. CASE RequestOnly("cancel", "idle")
    BY <1>1, RequestOnlyStep
  <1>2. ASSUME Request(StoppedRow, "cancel") PROVE IInv'
    <2>1. PICK row : row = StoppedRow
      OBVIOUS
    <2>2. row \in ControlRow /\ row.exec = "DISARMED" /\ row.session = "STOPPED" /\ ~row.auto /\ row.mode # "AUTO"
      BY <1>2, <2>1 DEF IInv, TypeOK, RowOK, KillBlocks, ControlRow, Session, Agent, Mode, Connection, StoppedRow
    <2>3. QED
      BY <1>2, <2>1, <2>2, RequestStep DEF Paused, IInv, RowOK, KillBlocks
  <1>3. QED
    BY <1>1, <1>2 DEF Stop

\* FLATTEN disarms and is followed by its round.
LEMMA FlattenStep == ASSUME IInv, Flatten PROVE IInv'
  <1>1. CASE RequestOnly("recover", "idle")
    BY <1>1, RequestOnlyStep
  <1>2. ASSUME Request([ctl EXCEPT !.session = "FLATTENING", !.agent = "RUNNING",
                              !.mode = "MANUAL_APPROVAL", !.auto = FALSE,
                              !.exec = "DISARMED"], "recover") PROVE IInv'
    <2>1. PICK row : row = [ctl EXCEPT !.session = "FLATTENING", !.agent = "RUNNING",
                              !.mode = "MANUAL_APPROVAL", !.auto = FALSE,
                              !.exec = "DISARMED"]
      OBVIOUS
    <2>2. row \in ControlRow /\ row.exec = "DISARMED" /\ row.session = "FLATTENING" /\ ~row.auto /\ row.mode # "AUTO"
      BY <1>2, <2>1 DEF IInv, TypeOK, RowOK, KillBlocks, ControlRow, Session, Agent, Mode, Connection
    <2>3. QED
      BY <1>2, <2>1, <2>2, RequestStep DEF Paused, IInv, RowOK, KillBlocks
  <1>3. QED
    BY <1>1, <1>2 DEF Flatten

\* A mode request cannot select AUTO while AUTO is off.
LEMMA SetModeStep == ASSUME IInv, SetMode PROVE IInv'
  <1>1. PICK m \in Mode :
            /\ m = "AUTO" => ctl.auto
            /\ Request(IF m = "STOPPED"
                       THEN [ctl EXCEPT !.mode = m, !.exec = "DISARMED", !.agent = "STOPPED"]
                       ELSE [ctl EXCEPT !.mode = m], "idle")
    BY DEF SetMode
  <1>2. CASE m = "STOPPED"
    <2>1. PICK row : row = [ctl EXCEPT !.mode = m, !.exec = "DISARMED", !.agent = "STOPPED"]
      OBVIOUS
    <2>2. /\ row \in ControlRow /\ row.kill = ctl.kill /\ row.auto = ctl.auto /\ row.exec = "DISARMED"
          /\ row.session = ctl.session /\ row.mode = m
      BY <2>1 DEF IInv, TypeOK, ControlRow, Agent
    <2>3. QED
      BY <1>1, <1>2, <2>1, <2>2, RequestStep DEF IInv, RowOK, KillBlocks
  <1>3. CASE m # "STOPPED"
    <2>1. PICK row : row = [ctl EXCEPT !.mode = m]
      OBVIOUS
    <2>2. /\ row \in ControlRow /\ row.kill = ctl.kill /\ row.auto = ctl.auto /\ row.exec = ctl.exec
          /\ row.session = ctl.session /\ row.mode = m
      BY <2>1 DEF IInv, TypeOK, ControlRow
    <2>3. QED
      BY <1>1, <1>3, <2>1, <2>2, RequestStep DEF IInv, RowOK, KillBlocks
  <1>4. QED
    BY <1>2, <1>3

\* The deprecated agent start changes the agent state only.
LEMMA StartAgentStep == ASSUME IInv, StartAgent PROVE IInv'
  <1>2. ASSUME Request([ctl EXCEPT !.agent = "RUNNING"], "idle") PROVE IInv'
    <2>1. PICK row : row = [ctl EXCEPT !.agent = "RUNNING"]
      OBVIOUS
    <2>2. row \in ControlRow /\ row.kill = ctl.kill /\ row.auto = ctl.auto /\ row.exec = ctl.exec /\ row.session = ctl.session /\ row.mode = ctl.mode
      BY <1>2, <2>1 DEF IInv, TypeOK, RowOK, KillBlocks, ControlRow, Session, Agent, Mode, Connection
    <2>3. QED
      BY <1>2, <2>1, <2>2, RequestStep DEF Paused, IInv, RowOK, KillBlocks
  <1>3. QED
    BY <1>2 DEF StartAgent

\* The deprecated agent stop writes the row of STOP and no cancel pass.
LEMMA StopAgentStep == ASSUME IInv, StopAgent PROVE IInv'
  <1>2. ASSUME Request(StoppedRow, "idle") PROVE IInv'
    <2>1. PICK row : row = StoppedRow
      OBVIOUS
    <2>2. row \in ControlRow /\ row.exec = "DISARMED" /\ row.session = "STOPPED" /\ ~row.auto /\ row.mode # "AUTO"
      BY <1>2, <2>1 DEF IInv, TypeOK, RowOK, KillBlocks, ControlRow, Session, Agent, Mode, Connection, StoppedRow
    <2>3. QED
      BY <1>2, <2>1, <2>2, RequestStep DEF Paused, IInv, RowOK, KillBlocks
  <1>3. QED
    BY <1>2 DEF StopAgent

\* ARM needs the kill switch off.
LEMMA ArmStep == ASSUME IInv, Arm PROVE IInv'
  <1>2. ASSUME ~ctl.kill, Request([ctl EXCEPT !.exec = "ARMED", !.conn = "CONNECTED"], "idle") PROVE IInv'
    <2>1. PICK row : row = [ctl EXCEPT !.exec = "ARMED", !.conn = "CONNECTED"]
      OBVIOUS
    <2>2. row \in ControlRow /\ row.kill = ctl.kill /\ row.auto = ctl.auto /\ row.session = ctl.session /\ row.mode = ctl.mode
      BY <1>2, <2>1 DEF IInv, TypeOK, RowOK, KillBlocks, ControlRow, Session, Agent, Mode, Connection
    <2>3. QED
      BY <1>2, <2>1, <2>2, RequestStep DEF Paused, IInv, RowOK, KillBlocks
  <1>3. QED
    BY <1>2 DEF Arm

\* DISARM keeps everything else.
LEMMA DisarmStep == ASSUME IInv, Disarm PROVE IInv'
  <1>2. ASSUME Request([ctl EXCEPT !.exec = "DISARMED"], "idle") PROVE IInv'
    <2>1. PICK row : row = [ctl EXCEPT !.exec = "DISARMED"]
      OBVIOUS
    <2>2. row \in ControlRow /\ row.kill = ctl.kill /\ row.auto = ctl.auto /\ row.exec = "DISARMED" /\ row.session = ctl.session /\ row.mode = ctl.mode
      BY <1>2, <2>1 DEF IInv, TypeOK, RowOK, KillBlocks, ControlRow, Session, Agent, Mode, Connection
    <2>3. QED
      BY <1>2, <2>1, <2>2, RequestStep DEF Paused, IInv, RowOK, KillBlocks
  <1>3. QED
    BY <1>2 DEF Disarm

\* AUTO is enabled only while the kill switch is off.
LEMMA EnableAutoStep == ASSUME IInv, EnableAuto PROVE IInv'
  <1>2. ASSUME ~ctl.kill, Request([ctl EXCEPT !.auto = TRUE], "idle") PROVE IInv'
    <2>1. PICK row : row = [ctl EXCEPT !.auto = TRUE]
      OBVIOUS
    <2>2. row \in ControlRow /\ row.kill = ctl.kill /\ row.auto /\ row.exec = ctl.exec /\ row.session = ctl.session /\ row.mode = ctl.mode
      BY <1>2, <2>1 DEF IInv, TypeOK, RowOK, KillBlocks, ControlRow, Session, Agent, Mode, Connection
    <2>3. QED
      BY <1>2, <2>1, <2>2, RequestStep DEF Paused, IInv, RowOK, KillBlocks
  <1>3. QED
    BY <1>2 DEF EnableAuto

\* Switching AUTO off leaves the mode AUTO as well.
LEMMA DisableAutoStep == ASSUME IInv, DisableAuto PROVE IInv'
  <1>1. CASE ctl.mode = "AUTO"
    <2>1. PICK row : row = [ctl EXCEPT !.auto = FALSE, !.mode = "MANUAL_APPROVAL", !.exec = "DISARMED"]
      OBVIOUS
    <2>2. /\ row \in ControlRow /\ row.kill = ctl.kill /\ ~row.auto /\ row.exec = "DISARMED"
          /\ row.session = ctl.session /\ row.mode # "AUTO"
      BY <2>1 DEF IInv, TypeOK, ControlRow, Mode
    <2>3. Request(row, "idle")
      BY <1>1, <2>1 DEF DisableAuto
    <2>4. QED
      BY <2>2, <2>3, RequestStep DEF IInv, RowOK, KillBlocks
  <1>2. CASE ctl.mode # "AUTO"
    <2>1. PICK row : row = [ctl EXCEPT !.auto = FALSE]
      OBVIOUS
    <2>2. /\ row \in ControlRow /\ row.kill = ctl.kill /\ ~row.auto /\ row.exec = ctl.exec
          /\ row.session = ctl.session /\ row.mode # "AUTO"
      BY <1>2, <2>1 DEF IInv, TypeOK, ControlRow
    <2>3. Request(row, "idle")
      BY <1>2, <2>1 DEF DisableAuto
    <2>4. QED
      BY <2>2, <2>3, RequestStep DEF IInv, RowOK, KillBlocks
  <1>3. QED
    BY <1>1, <1>2

\* The row of the kill switch is written before the core is told; entries that
\* passed the guard are still under way then.
LEMMA ActivateKillSwitchStep == ASSUME IInv, ActivateKillSwitch PROVE IInv'
  <1>1. PICK r : r = [IdleThread EXCEPT !.pc = "kill"]
    OBVIOUS
  <1>2. PICK row : row = [StoppedRow EXCEPT !.kill = TRUE]
    OBVIOUS
  <1>3. /\ UNCHANGED <<core, job, entry, faults>>
        /\ lock = "free" /\ lock' = "operator" /\ ctl' = row
        /\ thr["operator"].pc = "idle"
        /\ thr' = [thr EXCEPT !["operator"] = r]
    BY <1>1, <1>2 DEF ActivateKillSwitch, Goto, At
  <1>4. /\ row \in ControlRow /\ row.kill /\ row.exec = "DISARMED" /\ row.session = "STOPPED"
        /\ ~row.auto /\ row.mode = "STOPPED" /\ row.agent = "STOPPED"
    BY <1>2 DEF StoppedRow, IInv, TypeOK, ControlRow, Session, Agent, Mode
  <1>5. thr \in [Threads -> ThreadState] /\ r \in ThreadState /\ r.pc = "kill"
    BY <1>1, IdleType DEF IInv, TypeOK, PCs, IdleThread
  <1>6. /\ thr'["operator"] = r
        /\ \A u \in Threads : u # "operator" => thr'[u] = thr[u]
    BY <1>3, <1>5 DEF Threads
  <1>7. TypeOK'
    BY <1>3, <1>4, <1>5 DEF IInv, TypeOK, Threads, ControlRow
  <1>8. RowOK' /\ PauseOK'
    BY <1>3, <1>4 DEF RowOK, KillBlocks, PauseOK
  <1>9. LockOK' /\ CoreOK' /\ JobOK'
    BY <1>3, <1>4, <1>5, <1>6 DEF IInv, LockOK, CoreOK, JobOK, At, Threads
  <1>10. QED
    BY <1>7, <1>8, <1>9 DEF IInv

\* The core is reset first and disarmed with it, so that nothing enters until
\* the row follows.
LEMMA ResetKillSwitchStep == ASSUME IInv, ResetKillSwitch PROVE IInv'
  <1>1. PICK r : r = [IdleThread EXCEPT !.pc = "reset"]
    OBVIOUS
  <1>2. PICK c : c = [core EXCEPT !.kill = FALSE, !.armed = FALSE]
    OBVIOUS
  <1>3. /\ UNCHANGED <<ctl, job, entry, faults>> /\ ~job
        /\ lock = "free" /\ lock' = "operator" /\ core' = c
        /\ thr["operator"].pc = "idle"
        /\ thr' = [thr EXCEPT !["operator"] = r]
    BY <1>1, <1>2 DEF ResetKillSwitch, Goto, At
  <1>4. c \in [mode : Mode, auto : BOOLEAN, armed : BOOLEAN, kill : BOOLEAN]
    BY <1>2 DEF IInv, TypeOK
  <1>5. thr \in [Threads -> ThreadState] /\ r \in ThreadState /\ r.pc = "reset"
    BY <1>1, IdleType DEF IInv, TypeOK, PCs, IdleThread
  <1>6. /\ thr'["operator"] = r
        /\ \A u \in Threads : u # "operator" => thr'[u] = thr[u]
    BY <1>3, <1>5 DEF Threads
  <1>7. TypeOK' /\ RowOK'
    BY <1>3, <1>4, <1>5 DEF IInv, TypeOK, Threads, RowOK, KillBlocks
  <1>8. LockOK' /\ CoreOK' /\ JobOK'
    BY <1>3, <1>5, <1>6 DEF IInv, LockOK, CoreOK, JobOK, At, Threads
  <1>9. PauseOK'
    BY <1>3, <1>5, <1>6 DEF IInv, PauseOK, Announced, At
  <1>10. QED
    BY <1>7, <1>8, <1>9 DEF IInv

\* An approval goes on to the core with the lock held.
LEMMA ApprovePlanStep == ASSUME IInv, ApprovePlan PROVE IInv'
  BY RequestOnlyStep DEF ApprovePlan

(***************************************************************************)
(* Steps of the threads.                                                   *)
(***************************************************************************)
\* Goto and GotoThen as MoveStep wants them.
LEMMA GotoMoves ==
    ASSUME NEW t \in Threads, NEW pc \in PCs, Goto(t, pc)
    PROVE  \E r \in ThreadState : thr' = [thr EXCEPT ![t] = r] /\ r.pc = pc
  <1>1. PICK r : r = [IdleThread EXCEPT !.pc = pc]
    OBVIOUS
  <1>2. r \in ThreadState /\ r.pc = pc
    BY <1>1, IdleType DEF IdleThread
  <1>3. thr' = [thr EXCEPT ![t] = r]
    BY <1>1 DEF Goto
  <1>4. QED
    BY <1>2, <1>3

\* A thread that goes on has its type.
LEMMA GotoThenMoves ==
    ASSUME NEW t \in Threads, NEW pc \in PCs, NEW next \in PCs, GotoThen(t, pc, next)
    PROVE  \E r \in ThreadState :
               thr' = [thr EXCEPT ![t] = r] /\ r.pc = pc /\ r.next = next
  <1>1. PICK r : r = [IdleThread EXCEPT !.pc = pc, !.next = next]
    OBVIOUS
  <1>2. r \in ThreadState /\ r.pc = pc /\ r.next = next
    BY <1>1, IdleType DEF IdleThread
  <1>3. thr' = [thr EXCEPT ![t] = r]
    BY <1>1 DEF GotoThen
  <1>4. QED
    BY <1>2, <1>3

\* A thread moves between states of no interest to the invariant, and leaves
\* the entry alone or finds it over.
LEMMA QuietStep ==
    ASSUME IInv, NEW t \in Threads, NEW pc \in PCs, NEW next \in PCs,
           Goto(t, pc) \/ GotoThen(t, pc, next),
           UNCHANGED <<ctl, core, lock, job, faults>>, entry' \in {entry, "none"},
           thr[t].pc \notin {"sync", "kill", "reset", "place", "recover", "cancel"},
           pc \notin {"sync", "kill", "reset", "place"},
           pc = "degrade" => GotoThen(t, pc, next) /\ next \in Resumed,
           pc = "cancel" => GotoThen(t, pc, next) /\ next \in {"idle", "exits"},
           t = "operator" => thr[t].pc # "idle" /\ pc # "idle"
    PROVE  IInv'
  <1>1. PICK r \in ThreadState :
            thr' = [thr EXCEPT ![t] = r] /\ r.pc = pc /\ (pc \in {"degrade", "cancel"} => r.next = next)
    BY GotoMoves, GotoThenMoves
  <1>2. faults' \in 0..MaxFaults
    BY DEF IInv, TypeOK
  <1>3. lock' = IF t = "operator" /\ r.pc = "idle" THEN "free" ELSE lock
    BY <1>1
  <1>4. QED
    BY <1>1, <1>2, <1>3, MoveStep

\* Return of a thread that is not in the middle of a control action.
LEMMA ReturnStep ==
    ASSUME IInv, NEW t \in Threads, Return(t), UNCHANGED <<ctl, core, job>>,
           entry' \in {"none", "asked", entry},
           faults' \in 0..MaxFaults, faults' = faults \/ faults' # 0,
           thr[t].pc \notin {"idle", "sync", "kill", "reset", "place"},
           t = "operator" /\ thr[t].pc \in {"recover", "cancel"} =>
               entry' # "fresh" \/ faults' # 0
    PROVE  IInv'
  <1>1. Goto(t, "idle") /\ lock' = IF lock = t THEN "free" ELSE lock
    BY DEF Return
  <1>2. PICK r \in ThreadState : thr' = [thr EXCEPT ![t] = r] /\ r.pc = "idle"
    BY <1>1, GotoMoves DEF PCs
  <1>3. lock = t <=> t = "operator"
    BY DEF IInv, LockOK, At, Threads
  <1>4. lock' = IF t = "operator" /\ r.pc = "idle" THEN "free" ELSE lock
    BY <1>1, <1>2, <1>3
  <1>5. QED
    BY <1>2, <1>4, MoveStep

\* The core call of a transition waits for the executor, so no entry is about
\* to be submitted when the lock is released; its row can be mirrored.
LEMMA SyncStep == ASSUME IInv, NEW t \in Threads, Sync(t) PROVE IInv'
  <1>1. ~SyncRaises
    BY DEF IInv, RowOK, KillBlocks, SyncRaises
  <1>2. /\ thr[t].pc = "sync" /\ ~job /\ core' = CoreOf(ctl)
        /\ lock' = IF t # "operator" \/ thr[t].next = "idle" THEN "free" ELSE lock
        /\ UNCHANGED <<ctl, job, entry, faults>>
    BY <1>1 DEF Sync, At
  <1>3. PICK r \in ThreadState :
            thr' = [thr EXCEPT ![t] = r] /\ r.pc = thr[t].next /\ (r.pc = "cancel" => r.next = "idle")
    <2>1. CASE thr[t].next = "cancel"
      <3>1. GotoThen(t, "cancel", "idle")
        BY <1>1, <2>1 DEF Sync
      <3>2. QED
        BY <2>1, <3>1, GotoThenMoves DEF PCs
    <2>2. CASE thr[t].next # "cancel"
      <3>1. Goto(t, thr[t].next) /\ thr[t].next \in PCs
        BY <1>1, <2>2 DEF Sync, IInv, TypeOK, ThreadState
      <3>2. QED
        BY <2>2, <3>1, GotoMoves
    <2>3. QED
      BY <2>1, <2>2
  <1>4. thr \in [Threads -> ThreadState] /\ lock = t
    BY <1>2 DEF IInv, TypeOK, LockOK, At, Threads
  <1>5. /\ thr'[t] = r
        /\ \A u \in Threads : u # t => thr'[u] = thr[u]
    BY <1>3, <1>4
  <1>6. TypeOK' /\ RowOK'
    BY <1>2, <1>3, <1>4 DEF IInv, TypeOK, CoreOf, Mode, Threads, RowOK, KillBlocks
  <1>7. Mirrored'
    BY <1>2 DEF Mirrored, CoreOf, IInv, TypeOK
  <1>8. LockOK' /\ CoreOK'
    BY <1>2, <1>3, <1>4, <1>5, <1>7 DEF IInv, LockOK, CoreOK, At, Threads, Resumed
  <1>9. JobOK' /\ PauseOK'
    BY <1>2, <1>3, <1>4, <1>5 DEF IInv, LockOK, JobOK, PauseOK, Announced, At, Threads, Resumed
  <1>10. QED
    BY <1>6, <1>8, <1>9 DEF IInv

\* The idempotent answer releases the lock.
LEMMA ReplyStep == ASSUME IInv, Reply PROVE IInv'
  <1>1. faults' \in 0..MaxFaults
    BY DEF Reply, IInv, TypeOK
  <1>2. QED
    BY <1>1, ReturnStep DEF Reply, At, Threads

\* The core learns of the kill switch when no entry is about to be submitted.
LEMMA KillCoreStep == ASSUME IInv, KillCore PROVE IInv'
  <1>1. PICK c : c = [core EXCEPT !.kill = TRUE, !.armed = FALSE, !.mode = "STOPPED"]
    OBVIOUS
  <1>2. /\ thr["operator"].pc = "kill" /\ ~job /\ core' = c /\ Return("operator")
        /\ UNCHANGED <<ctl, job, entry, faults>>
    BY <1>1 DEF KillCore, At
  <1>3. /\ c \in [mode : Mode, auto : BOOLEAN, armed : BOOLEAN, kill : BOOLEAN]
        /\ c.kill /\ ~c.armed /\ c.mode = "STOPPED"
    BY <1>1 DEF IInv, TypeOK, Mode
  <1>4. PICK r \in ThreadState : thr' = [thr EXCEPT !["operator"] = r] /\ r.pc = "idle"
    BY <1>2, GotoMoves DEF Return, PCs, Threads
  <1>5. thr \in [Threads -> ThreadState] /\ lock = "operator" /\ lock' = "free"
    BY <1>2 DEF IInv, TypeOK, LockOK, At, Return
  <1>6. /\ thr'["operator"] = r
        /\ \A u \in Threads : u # "operator" => thr'[u] = thr[u]
    BY <1>4, <1>5 DEF Threads
  <1>7. TypeOK' /\ RowOK'
    BY <1>2, <1>3, <1>4, <1>5 DEF IInv, TypeOK, Threads, RowOK, KillBlocks
  <1>8. Mirrored'
    BY <1>2, <1>3 DEF Mirrored, IInv, TypeOK, CoreOK, RowOK, KillBlocks, At
  <1>9. LockOK' /\ CoreOK' /\ JobOK'
    BY <1>2, <1>4, <1>5, <1>6, <1>8 DEF IInv, LockOK, CoreOK, JobOK, At, Threads
  <1>10. PauseOK'
    BY <1>2, <1>4, <1>5, <1>6 DEF IInv, PauseOK, Announced, At
  <1>11. QED
    BY <1>7, <1>9, <1>10 DEF IInv

\* The row follows the core out of the kill switch, disarmed and stopped.
LEMMA ResetRowStep == ASSUME IInv, ResetRow PROVE IInv'
  <1>1. PICK row : row = [ctl EXCEPT !.kill = FALSE, !.exec = "DISARMED", !.agent = "STOPPED",
                                     !.mode = "STOPPED", !.session = "STOPPED"]
    OBVIOUS
  <1>2. /\ row \in ControlRow /\ ~row.kill /\ row.mode = "STOPPED" /\ row.session = "STOPPED"
    BY <1>1 DEF IInv, TypeOK, ControlRow, Session, Agent, Mode
  <1>3. Write("operator", row, "idle") /\ UNCHANGED <<core, job, entry, faults>>
    BY <1>1 DEF ResetRow
  <1>4. QED
    BY <1>2, <1>3, WriteStep DEF Threads, PCs, Paused

\* _finish_flatten writes the row of STOP, from the operator's thread under its
\* lock or from the scheduler's when it gets the lock.
LEMMA ConfirmFlatStep == ASSUME IInv, NEW t \in {"operator", "scheduler"}, ConfirmFlat(t) PROVE IInv'
  <1>1. PICK row : row = StoppedRow
    OBVIOUS
  <1>2. /\ row \in ControlRow /\ row.exec = "DISARMED" /\ row.session = "STOPPED" /\ ~row.auto
        /\ row.mode # "AUTO"
    BY <1>1 DEF StoppedRow, IInv, TypeOK, ControlRow, Session, Agent, Mode
  <1>3. /\ Write(t, row, "idle") /\ UNCHANGED <<core, job, entry, faults>>
        /\ thr[t].pc = "confirm"
    BY <1>1 DEF ConfirmFlat, At
  <1>4. /\ t \in Threads /\ "idle" \in PCs /\ "idle" \in Resumed
        /\ ~At(t, "sync") /\ row.session \notin Paused /\ row.session # "RUNNING"
    BY <1>2, <1>3 DEF Threads, PCs, Paused, Resumed, At
  <1>5. QED
    BY <1>2, <1>3, <1>4, WriteStep

\* orchestrator.recover changes no control state.
LEMMA RecoverStep == ASSUME IInv, Recover PROVE IInv'
  <1>1. PICK r \in ThreadState :
            thr' = [thr EXCEPT !["operator"] = r] /\ r.pc = "cancel" /\ r.next = "exits"
    BY GotoThenMoves DEF Recover, PCs, Threads
  <1>2. faults' \in 0..MaxFaults /\ faults' = faults
    BY DEF Recover, IInv, TypeOK
  <1>3. QED
    BY <1>1, <1>2, MoveStep DEF Recover, At, Threads

\* A recovery that raises ends the flatten request and uses up a fault.
LEMMA RecoverFailsStep == ASSUME IInv, RecoverFails PROVE IInv'
  <1>1. faults \in 0..MaxFaults
    BY DEF IInv, TypeOK
  <1>2. faults' \in 0..MaxFaults /\ faults' # 0
    BY <1>1, MaxFaultsAssumption DEF RecoverFails
  <1>3. QED
    BY <1>2, ReturnStep DEF RecoverFails, At, Threads

\* A cancel pass reaches every entry; one that fails uses up a fault.
LEMMA CancelStep ==
    ASSUME IInv, NEW t \in {"operator", "scheduler"},
           CancelPendingEntries(t) \/ CancelFails(t)
    PROVE  IInv'
  <1>1. /\ thr[t].pc = "cancel" /\ ~job /\ UNCHANGED <<ctl, core, job>> /\ t \in Threads
    BY DEF CancelPendingEntries, CancelFails, At, Threads
  <1>2. /\ faults' \in 0..MaxFaults /\ (faults' = faults \/ faults' # 0)
        /\ entry' \in {"none", "asked", entry} /\ (entry' # "fresh" \/ faults' # 0)
    <2>1. faults \in 0..MaxFaults
      BY DEF IInv, TypeOK
    <2>2. CASE CancelPendingEntries(t)
      BY <2>1, <2>2 DEF CancelPendingEntries
    <2>3. CASE CancelFails(t)
      BY <2>1, <2>3, MaxFaultsAssumption DEF CancelFails
    <2>4. QED
      BY <2>2, <2>3
  <1>3. CASE Return(t)
    BY <1>1, <1>2, <1>3, ReturnStep
  <1>4. ASSUME NEW pc \in {"exits", "failed"},
               Goto(t, pc), UNCHANGED lock
        PROVE  IInv'
    <2>1. PICK r \in ThreadState : thr' = [thr EXCEPT ![t] = r] /\ r.pc = pc
      BY <1>1, <1>4, GotoMoves DEF PCs
    <2>2. QED
      BY <1>1, <1>2, <1>4, <2>1, MoveStep
  <1>5. thr[t].next \in {"idle", "exits"}
    BY <1>1 DEF IInv, LockOK, At
  <1>6. Return(t) \/ (\E pc \in {"exits", "failed"} : Goto(t, pc) /\ UNCHANGED lock)
    BY <1>5 DEF CancelPendingEntries, CancelFails
  <1>7. QED
    BY <1>3, <1>4, <1>6

\* Exits are placed and the reads of _finish_flatten are made without a change
\* of the control row.
LEMMA FlattenPositionsStep ==
    ASSUME IInv, NEW t \in {"operator", "scheduler"}, FlattenPositions(t) PROVE IInv'
  <1>1. t \in Threads /\ thr[t].pc = "exits" /\ Goto(t, "checkFlat") /\ entry' \in {entry, "none"}
    BY DEF FlattenPositions, At, Threads
  <1>2. QED
    BY <1>1, QuietStep DEF FlattenPositions, PCs

\* The flatness check of a flatten round.
LEMMA CheckFlatStep ==
    ASSUME IInv, NEW t \in {"operator", "scheduler"}, CheckFlat(t) PROVE IInv'
  <1>1. /\ t \in Threads /\ thr[t].pc = "checkFlat"
        /\ UNCHANGED <<ctl, core, job, entry, faults>>
    BY DEF CheckFlat, At, Threads
  <1>2. CASE Goto(t, "confirm") /\ UNCHANGED lock
    BY <1>1, <1>2, QuietStep DEF PCs
  <1>3. CASE Return(t)
    <2>1. faults' \in 0..MaxFaults
      BY <1>1 DEF IInv, TypeOK
    <2>2. QED
      BY <1>1, <1>3, <2>1, ReturnStep
  <1>4. QED
    BY <1>2, <1>3 DEF CheckFlat

\* degrade() writes DEGRADED whatever the session has become meanwhile; that is
\* disarmed and not paused, so nothing is left to reach.
LEMMA DegradeStep == ASSUME IInv, NEW t \in {"scheduler", "market"}, Degrade(t) PROVE IInv'
  <1>1. PICK row : row = [ctl EXCEPT !.session = "DEGRADED", !.agent = "DEGRADED",
                            !.mode = "MANUAL_APPROVAL", !.auto = FALSE,
                            !.exec = "DISARMED"]
    OBVIOUS
  <1>2. /\ row \in ControlRow /\ row.exec = "DISARMED" /\ row.session = "DEGRADED" /\ ~row.auto
        /\ row.mode # "AUTO"
    BY <1>1 DEF IInv, TypeOK, ControlRow, Session, Agent, Mode
  <1>3. /\ Write(t, row, thr[t].next) /\ UNCHANGED <<core, job, entry, faults>>
        /\ thr[t].pc = "degrade"
    BY <1>1 DEF Degrade, At
  <1>4. thr[t].next \in Resumed /\ Resumed \subseteq PCs
    BY <1>3 DEF IInv, LockOK, PCs, Resumed
  <1>5. t \in Threads /\ t # "operator"
    BY DEF Threads
  <1>6. QED
    BY <1>2, <1>3, <1>4, <1>5, WriteStep DEF Paused, At

\* Steps of the scheduler that read and decide.
LEMMA SchedulerReads ==
    ASSUME IInv,
           Tick \/ CheckProtection \/ ContinueFlatten \/ HandleRuntimeFailure \/ SynchronizeAccount
    PROVE  IInv'
  <1>1. /\ UNCHANGED <<ctl, core, lock, job, faults>> /\ entry' \in {entry, "none"}
        /\ thr["scheduler"].pc \in {"idle", "check", "decide", "failed", "account"}
    BY DEF Tick, CheckProtection, ContinueFlatten, HandleRuntimeFailure, SynchronizeAccount, At
  <1>2. \/ \E next \in Resumed : GotoThen("scheduler", "degrade", next)
        \/ GotoThen("scheduler", "cancel", "exits")
        \/ \E pc \in {"health", "check", "failed", "decide", "idle", "failClosed"} :
              Goto("scheduler", pc)
    BY DEF Tick, CheckProtection, ContinueFlatten, HandleRuntimeFailure, SynchronizeAccount,
           SeesRunning, Resumed
  <1>3. "scheduler" \in Threads /\ "scheduler" # "operator"
    BY DEF Threads
  <1>4. ASSUME NEW next \in Resumed, GotoThen("scheduler", "degrade", next) PROVE IInv'
    <2>1. next \in PCs /\ "degrade" \in PCs
      BY DEF Resumed, PCs
    <2>2. QED
      BY <1>1, <1>3, <1>4, <2>1, QuietStep
  <1>5. CASE GotoThen("scheduler", "cancel", "exits")
    BY <1>1, <1>3, <1>5, QuietStep DEF PCs
  <1>6. ASSUME NEW pc \in {"health", "check", "failed", "decide", "idle", "failClosed"},
               Goto("scheduler", pc)
        PROVE  IInv'
    <2>1. pc \in PCs /\ "idle" \in PCs
      BY DEF PCs
    <2>2. QED
      BY <1>1, <1>3, <1>6, <2>1, QuietStep
  <1>7. QED
    BY <1>2, <1>4, <1>5, <1>6

\* refresh_health remembers the connection it is about to store.
LEMMA RefreshHealthStep == ASSUME IInv, RefreshHealth PROVE IInv'
  <1>1. /\ UNCHANGED <<ctl, core, lock, job, entry, faults>> /\ thr["scheduler"].pc = "health"
        /\ "scheduler" \in Threads /\ "scheduler" # "operator"
        /\ faults' \in 0..MaxFaults
    BY DEF RefreshHealth, At, Threads, IInv, TypeOK
  <1>2. CASE Goto("scheduler", "account")
    BY <1>1, <1>2, QuietStep DEF PCs
  <1>3. ASSUME NEW c \in Connection,
               thr' = [thr EXCEPT !["scheduler"] = [pc |-> "conn", next |-> "account", conn |-> c]]
        PROVE  IInv'
    <2>1. PICK r : r = [pc |-> "conn", next |-> "account", conn |-> c]
      OBVIOUS
    <2>2. r \in ThreadState /\ r.pc = "conn"
      BY <2>1 DEF ThreadState, PCs
    <2>3. QED
      BY <1>1, <1>3, <2>1, <2>2, MoveStep
  <1>4. QED
    BY <1>2, <1>3 DEF RefreshHealth

\* The scheduler stores the connection state.
LEMMA StoreConnectionStep == ASSUME IInv, StoreConnection PROVE IInv'
  <1>1. PICK row : row = [ctl EXCEPT !.conn = thr["scheduler"].conn]
    OBVIOUS
  <1>2. "scheduler" \in Threads /\ thr["scheduler"].conn \in Connection
    BY DEF Threads, IInv, TypeOK, ThreadState
  <1>3. /\ row \in ControlRow /\ row.kill = ctl.kill /\ row.auto = ctl.auto /\ row.exec = ctl.exec
        /\ row.session = ctl.session /\ row.mode = ctl.mode
    BY <1>1, <1>2 DEF IInv, TypeOK, ControlRow
  <1>4. /\ Write("scheduler", row, "account") /\ UNCHANGED <<core, job, entry, faults>>
        /\ thr["scheduler"].pc = "conn"
    BY <1>1 DEF StoreConnection, At
  <1>5. lock = "free"
    BY <1>4 DEF Write, IInv, LockOK, At
  <1>6. QED
    BY <1>2, <1>3, <1>4, <1>5, WriteStep DEF PCs, Resumed, At, IInv, RowOK, KillBlocks

\* The fail-closed transition keeps mode and AUTO and disarms.
LEMMA FailClosedStep == ASSUME IInv, FailClosed PROVE IInv'
  <1>1. PICK row : row = [ctl EXCEPT !.session = "DEGRADED", !.agent = "DEGRADED",
                                      !.exec = "DISARMED", !.conn = "STALE"]
    OBVIOUS
  <1>2. /\ row \in ControlRow /\ row.exec = "DISARMED" /\ row.session = "DEGRADED"
        /\ row.auto = ctl.auto /\ row.mode = ctl.mode /\ row.kill = ctl.kill
    BY <1>1 DEF IInv, TypeOK, ControlRow, Session, Agent, Connection
  <1>3. /\ Write("scheduler", row, "idle") /\ UNCHANGED <<core, job, entry, faults>>
        /\ thr["scheduler"].pc = "failClosed"
    BY <1>1 DEF FailClosed, At
  <1>4. QED
    BY <1>2, <1>3, WriteStep DEF Threads, PCs, Resumed, Paused, At, IInv, RowOK, KillBlocks

\* A candle is taken up or an analysis ends without an entry.
LEMMA MarketReads == ASSUME IInv, ConfirmedCandle \/ Analyze PROVE IInv'
  <1>1. /\ UNCHANGED <<ctl, core, lock, job, entry, faults>>
        /\ thr["market"].pc \in {"idle", "analyze"}
        /\ "market" \in Threads /\ "market" # "operator"
    BY DEF ConfirmedCandle, Analyze, At, Threads
  <1>2. \/ GotoThen("market", "degrade", "idle")
        \/ \E pc \in {"analyze", "enter", "idle"} : Goto("market", pc)
    BY DEF ConfirmedCandle, Analyze, SeesRunning
  <1>3. QED
    BY <1>1, <1>2, QuietStep DEF PCs, Resumed

\* An entry passes the guard only if the core allows it, so not between the
\* write of a row and its core call unless the row still allows it too.
LEMMA EnterGuardedStep ==
    ASSUME IInv, NEW t \in {"operator", "market"}, EnterGuarded(t) PROVE IInv'
  <1>1. /\ t \in Threads /\ thr[t].pc = "enter" /\ ~job /\ UNCHANGED <<ctl, core, entry, faults>>
    BY DEF EnterGuarded, At, Threads
  <1>2. CASE Return(t) /\ UNCHANGED job
    <2>1. faults' \in 0..MaxFaults
      BY <1>1 DEF IInv, TypeOK
    <2>2. QED
      BY <1>1, <1>2, <2>1, ReturnStep
  <1>3. ASSUME GuardPasses(ctl), job' = TRUE, Goto(t, "place"), UNCHANGED lock PROVE IInv'
    <2>1. PICK r \in ThreadState : thr' = [thr EXCEPT ![t] = r] /\ r.pc = "place"
      BY <1>1, <1>3, GotoMoves DEF PCs
    <2>2. thr \in [Threads -> ThreadState]
      BY DEF IInv, TypeOK
    <2>3. /\ thr'[t] = r
          /\ \A u \in Threads : u # t => thr'[u] = thr[u]
      BY <2>1, <2>2, <1>1
    <2>4. TypeOK' /\ RowOK'
      BY <1>1, <1>3, <2>1, <2>2 DEF IInv, TypeOK, RowOK, KillBlocks
    <2>5. LockOK'
      BY <1>1, <1>3, <2>1, <2>3 DEF IInv, LockOK, At, Threads
    <2>6. Writing' <=> Writing
      BY <1>1, <1>3, <2>1, <2>3 DEF Writing, At, Threads
    <2>7. CoreOK'
      BY <1>1, <1>3, <2>1, <2>3, <2>6 DEF IInv, CoreOK, Mirrored, At, Threads
    <2>8. JobOK'
      BY <1>1, <1>3, <2>1, <2>3 DEF IInv, JobOK, At, Threads, GuardPasses
    <2>9. PauseOK'
      BY <1>1, <1>3 DEF PauseOK, GuardPasses
    <2>10. QED
      BY <2>4, <2>5, <2>7, <2>8, <2>9 DEF IInv
  <1>4. QED
    BY <1>2, <1>3 DEF EnterGuarded

\* The entry is submitted: the executor is free again.
LEMMA PlaceOrderStep ==
    ASSUME IInv, NEW t \in {"operator", "market"}, PlaceOrder(t) PROVE IInv'
  <1>1. /\ t \in Threads /\ thr[t].pc = "place" /\ job /\ job' = FALSE
        /\ entry' \in {entry, "fresh"} /\ UNCHANGED <<ctl, core, faults>>
    BY DEF PlaceOrder, At, Threads, IInv, JobOK
  <1>2. PICK r \in ThreadState :
            /\ thr' = [thr EXCEPT ![t] = r]
            /\ r.pc \in {"idle", "degrade"} /\ (t = "operator" => r.pc = "idle")
            /\ r.pc = "degrade" => r.next = "idle"
            /\ lock' = IF t = "operator" THEN "free" ELSE lock
    <2>1. CASE Return(t)
      <3>1. lock = t <=> t = "operator"
        BY <1>1 DEF IInv, LockOK, At, Threads
      <3>2. QED
        BY <1>1, <2>1, <3>1, GotoMoves DEF Return, PCs
    <2>2. CASE t = "market" /\ GotoThen(t, "degrade", "idle") /\ UNCHANGED lock
      BY <1>1, <2>2, GotoThenMoves DEF PCs
    <2>3. QED
      BY <2>1, <2>2 DEF PlaceOrder, SeesRunning
  <1>3. thr \in [Threads -> ThreadState]
    BY DEF IInv, TypeOK
  <1>4. /\ thr'[t] = r
        /\ \A u \in Threads : u # t => thr'[u] = thr[u]
    BY <1>1, <1>2, <1>3
  <1>5. TypeOK' /\ RowOK'
    BY <1>1, <1>2, <1>3 DEF IInv, TypeOK, RowOK, KillBlocks, Threads
  <1>6. LockOK'
    BY <1>1, <1>2, <1>4 DEF IInv, LockOK, At, Threads, Resumed
  <1>7. Writing' <=> Writing
    BY <1>1, <1>2, <1>4 DEF IInv, LockOK, Writing, At, Threads
  <1>8. CoreOK'
    BY <1>1, <1>2, <1>4, <1>7 DEF IInv, CoreOK, Mirrored, At, Threads
  <1>9. JobOK'
    BY <1>1, <1>2, <1>4 DEF IInv, JobOK, At, Threads
  <1>10. PauseOK'
    BY <1>1, <1>2, <1>4 DEF IInv, PauseOK, Announced, At, Threads
  <1>11. QED
    BY <1>5, <1>6, <1>8, <1>9, <1>10 DEF IInv

\* A restart begins from the safe row with the core in step.
LEMMA RestartStep == ASSUME IInv, Restart PROVE IInv'
  <1>1. PICK row : row = SafeControl(ctl.kill)
    OBVIOUS
  <1>2. /\ row \in ControlRow /\ row.exec = "DISARMED" /\ row.session = "STOPPED" /\ ~row.auto
        /\ row.mode = "STOPPED" /\ row.agent = "STOPPED" /\ row.kill = ctl.kill
        /\ core' = [mode |-> "STOPPED", auto |-> FALSE, armed |-> FALSE, kill |-> ctl.kill]
        /\ ctl.kill \in BOOLEAN
    BY <1>1 DEF Restart, SafeControl, SafeCore, IInv, TypeOK, ControlRow, Session, Agent, Mode, Connection
  <1>3. /\ ctl' = row /\ lock' = "free" /\ job' = FALSE /\ faults' = faults
        /\ thr' = [t \in Threads |-> IdleThread]
        /\ entry' \in {"none", "fresh", "asked"}
    BY <1>1 DEF Restart, IInv, TypeOK
  <1>4. \A t \in Threads : thr'[t].pc = "idle"
    BY <1>3 DEF IdleThread
  <1>5. TypeOK'
    BY <1>2, <1>3, IdleType DEF IInv, TypeOK, ControlRow, Mode
  <1>6. RowOK' /\ PauseOK'
    BY <1>2, <1>3 DEF RowOK, KillBlocks, PauseOK
  <1>7. LockOK' /\ JobOK'
    BY <1>3, <1>4 DEF LockOK, JobOK, At, Threads
  <1>8. CoreOK'
    BY <1>2, <1>3, <1>4 DEF CoreOK, Mirrored, At, Threads
  <1>9. QED
    BY <1>5, <1>6, <1>7, <1>8 DEF IInv

(***************************************************************************)
(* The invariant and what follows from it.                                 *)
(***************************************************************************)
\* The safe startup row, mirrored, with every thread idle.
LEMMA InitIInv == Init => IInv
  <1> SUFFICES ASSUME Init PROVE IInv
    OBVIOUS
  <1>1. PICK kill \in BOOLEAN : ctl = SafeControl(kill) /\ core = SafeCore(kill)
    BY DEF Init
  <1>2. \A t \in Threads : thr[t] = IdleThread /\ thr[t].pc = "idle"
    BY DEF Init, IdleThread
  <1>3. TypeOK
    <2>1. ctl \in ControlRow
      BY <1>1 DEF SafeControl, ControlRow, Session, Agent, Mode, Connection
    <2>2. core \in [mode : Mode, auto : BOOLEAN, armed : BOOLEAN, kill : BOOLEAN]
      BY <1>1 DEF SafeCore, Mode
    <2>3. thr \in [Threads -> ThreadState]
      BY IdleType DEF Init
    <2>4. /\ lock \in Threads \cup {"free"} /\ job \in BOOLEAN
          /\ entry \in {"none", "fresh", "asked"} /\ faults = 0
      BY Zenon DEF Init
    <2>5. 0 \in 0..MaxFaults
      BY MaxFaultsAssumption
    <2>6. QED
      BY <2>1, <2>2, <2>3, <2>4, <2>5 DEF TypeOK, ControlRow
  <1>4. RowOK /\ PauseOK
    BY <1>1 DEF RowOK, KillBlocks, PauseOK, SafeControl
  <1>5. LockOK /\ JobOK
    BY <1>2 DEF Init, LockOK, JobOK, At, Threads
  <1>6. CoreOK
    BY <1>1, <1>2 DEF CoreOK, Mirrored, SafeControl, SafeCore, At, Threads
  <1>7. QED
    BY <1>3, <1>4, <1>5, <1>6 DEF IInv

\* Every request, every step of a thread and a restart preserve the invariant.
LEMMA NextIInv == IInv /\ [Next]_vars => IInv'
  <1> SUFFICES ASSUME IInv, [Next]_vars PROVE IInv'
    OBVIOUS
  <1>1. CASE Requests
    BY <1>1, StartStep, RefusedStep, PauseStep, StopStep, FlattenStep, ActivateKillSwitchStep,
       ResetKillSwitchStep, SetModeStep, StartAgentStep, StopAgentStep, ArmStep, DisarmStep,
       EnableAutoStep, DisableAutoStep, ApprovePlanStep
    DEF Requests
  <1>2. ASSUME NEW t \in {"operator", "scheduler"}, Shared(t) PROVE IInv'
    <2>1. t \in Threads
      BY DEF Threads
    <2>2. QED
      BY <1>2, <2>1, SyncStep, CancelStep, FlattenPositionsStep, CheckFlatStep, ConfirmFlatStep
      DEF Shared
  <1>3. CASE Operator
    BY <1>2, <1>3, ReplyStep, KillCoreStep, ResetRowStep, RecoverStep, EnterGuardedStep, PlaceOrderStep
    DEF Operator
  <1>4. CASE Scheduler
    BY <1>2, <1>4, DegradeStep, SchedulerReads, RefreshHealthStep, StoreConnectionStep, FailClosedStep
    DEF Scheduler
  <1>5. CASE ConfirmedCandle \/ Market
    <2>1. "market" \in Threads
      BY DEF Threads
    <2>2. QED
      BY <1>5, <2>1, SyncStep, DegradeStep, MarketReads, EnterGuardedStep, PlaceOrderStep DEF Market
  <1>6. CASE Restart
    BY <1>6, RestartStep
  <1>7. ASSUME NEW t \in {"operator", "scheduler"}, CancelFails(t) PROVE IInv'
    BY <1>7, CancelStep
  <1>7a. CASE RecoverFails
    BY <1>7a, RecoverFailsStep
  <1>8. CASE UNCHANGED vars
    BY <1>8 DEF vars, IInv, TypeOK, RowOK, KillBlocks, LockOK, CoreOK, Mirrored, Writing, JobOK,
       GuardPasses, PauseOK, Announced, At
  <1>9. QED
    BY <1>1, <1>3, <1>4, <1>5, <1>6, <1>7, <1>7a, <1>8 DEF Next

\* The inductive invariant: the row can be mirrored, the lock is where the
\* threads say it is, and an entry past the guard is either still allowed or
\* ahead of a core call that waits for it.
THEOREM Invariance == Spec => []IInv
  BY InitIInv, NextIInv, PTL DEF Spec

\* Type correctness of the control row, its mirror and the threads.
THEOREM TypeCorrect == Spec => []TypeOK
  <1>1. IInv => TypeOK
    BY DEF IInv
  <1>2. QED
    BY <1>1, Invariance, PTL

\* Under the kill switch nothing is armed, running or automatic, with the
\* deprecated endpoints or without.
THEOREM KillSwitchBlocks == Spec => []KillBlocks
  <1>1. IInv => KillBlocks
    BY DEF IInv, RowOK
  <1>2. QED
    BY <1>1, Invariance, PTL

\* No sequence of requests reaches a row that _sync_core_state cannot mirror.
THEOREM RowsMirrorable == Spec => []RowsAreMirrorable
  <1>1. IInv => RowsAreMirrorable
    BY DEF IInv, RowOK, KillBlocks, RowsAreMirrorable, SyncRaises
  <1>2. QED
    BY <1>1, Invariance, PTL

\* Between control actions the core admits entries exactly when the row does.
THEOREM CoreMirrorsRow == Spec => []CoreFollowsControl
  <1>1. ASSUME IInv PROVE CoreFollowsControl
    <2>1. SUFFICES ASSUME lock = "free"
                   PROVE  AllowsNewEntries <=> /\ ctl.exec = "ARMED" /\ ctl.agent # "STOPPED"
                                               /\ ctl.mode \in {"MANUAL_APPROVAL", "AUTO"}
      BY DEF CoreFollowsControl
    <2>2. Mirrored
      BY <1>1, <2>1 DEF IInv, CoreOK, LockOK, Writing, At, Threads
    <2>3. QED
      BY <1>1, <2>2 DEF IInv, RowOK, KillBlocks, Mirrored, AllowsNewEntries
  <1>2. QED
    BY <1>1, Invariance, PTL

\* Once a restricting transition has returned, no entry that passed the guard
\* before it is still to be submitted.
THEOREM NoLateEntry == Spec => []NoEntryAfterReturn
  <1>1. ASSUME IInv PROVE NoEntryAfterReturn
    BY <1>1 DEF IInv, JobOK, LockOK, Writing, At, Threads, NoEntryAfterReturn
  <1>2. QED
    BY <1>1, Invariance, PTL

\* A returned PAUSE or FLATTEN has reached every entry, if no recovery and no
\* cancel pass failed.
THEOREM PausesReachEntries == Spec => []PauseReachesEntries
  <1>1. ASSUME IInv PROVE PauseReachesEntries
    BY <1>1 DEF IInv, PauseOK, LockOK, Announced, At, PauseReachesEntries
  <1>2. QED
    BY <1>1, Invariance, PTL
=============================================================================
