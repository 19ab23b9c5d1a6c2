--------------------------- MODULE DashboardFeed ----------------------------
(***************************************************************************)
(* How the account reaches the screen: the single-flight gate of           *)
(* trading_agent/account_synchronizer.py, TradingService._synchronize_     *)
(* account, _emit, events_after and dashboard_snapshot                     *)
(* (trading_agent/service.py), and the websocket handler that sends a      *)
(* snapshot and then every later event (web_api/app.py).                   *)
(*                                                                         *)
(* The scheduler and request threads synchronise at the same time; an      *)
(* operator's actions emit events of their own; a browser                  *)
(* connects between any two of their steps.  An account is its version.    *)
(* Sequence numbers appear as distances: a handler knows how many events   *)
(* it has not fetched.                                                     *)
(***************************************************************************)
EXTENDS Integers, Sequences, FiniteSetsExt

CONSTANTS
    Threads,        \* threads that call _synchronize_account
    MaxVersion,     \* bound: changes of the account
    MaxEvents       \* maxlen of the event deque (500)

ASSUME BoundsAssumption ==
    MaxVersion \in Nat \ {0} /\ MaxEvents \in Nat \ {0}

VARIABLES
    truth,          \* the account on the exchange
    sync,           \* AccountSynchronizer: running, last projection, recent, closed
    thread,         \* the callers
    shown,          \* TradingService._last_account
    events,         \* the event deque: versions of the account, or Other
    raced,          \* history: the last account event was overtaken or overlapped
    client          \* the websocket handler and what its browser displays

vars == <<truth, sync, thread, shown, events, raced, client>>

Other == 0

\* Version 0 is no account yet: a projection of None, an empty dictionary.
IdleThread == [pc |-> "idle", got |-> 0, overlap |-> FALSE]
NoClient ==
    [pc |-> "off", reg |-> FALSE, stream |-> FALSE, account |-> 0, behind |-> 0, whole |-> FALSE]

Init ==
    /\ truth = 1
    /\ sync = [running |-> FALSE, last |-> 0, recent |-> FALSE, closed |-> FALSE]
    /\ thread = [t \in Threads |-> IdleThread]
    /\ shown = 0
    /\ events = <<>>
    /\ raced = FALSE
    /\ client = NoClient

At(t, pc) == thread[t].pc = pc
Goto(t, pc) == thread' = [thread EXCEPT ![t].pc = pc]
\* notify_all: whoever waits contends for the lock again.
Notified == [u \in Threads |-> IF At(u, "wait") THEN [thread[u] EXCEPT !.pc = "enter"]
                               ELSE thread[u]]

(***************************************************************************)
(* AccountSynchronizer.synchronize.                                        *)
(***************************************************************************)
\* Mutant: a caller that was woken does not look at the flag again.
EnterUnlessWoken(t) ==
    /\ thread[t].pc \in {"idle", "enter"}
    /\ IF sync.closed THEN Goto(t, "idle") /\ UNCHANGED sync
       ELSE IF sync.running /\ ~thread[t].overlap
            THEN thread' = [thread EXCEPT ![t].pc = "wait", ![t].overlap = TRUE] /\ UNCHANGED sync
       ELSE IF sync.last # 0 /\ sync.recent
            THEN /\ thread' = [thread EXCEPT ![t].pc = "store", ![t].got = sync.last]
                 /\ UNCHANGED sync
       ELSE sync' = [sync EXCEPT !.running = TRUE] /\ Goto(t, "load")
    /\ UNCHANGED <<truth, shown, events, raced, client>>

\* The first critical section, of a new call or again after a wait: closed, busy,
\* young enough, or the caller's turn to load.
Enter(t) ==
    /\ thread[t].pc \in {"idle", "enter"}
    /\ IF sync.closed THEN Goto(t, "idle") /\ UNCHANGED sync
       ELSE IF sync.running THEN Goto(t, "wait") /\ UNCHANGED sync
       ELSE IF sync.last # 0 /\ sync.recent
            THEN /\ thread' = [thread EXCEPT ![t].pc = "store", ![t].got = sync.last]
                 /\ UNCHANGED sync
       ELSE sync' = [sync EXCEPT !.running = TRUE] /\ Goto(t, "load")
    /\ UNCHANGED <<truth, shown, events, raced, client>>

\* The loader raised: the finally block, and the exception goes on.
LoadFails(t) ==
    /\ At(t, "load")
    /\ sync' = [sync EXCEPT !.running = FALSE]
    /\ thread' = [Notified EXCEPT ![t] = IdleThread]
    /\ UNCHANGED <<truth, shown, events, raced, client>>

\* The loader reads the account on the core thread, and the finally block
\* opens the gate, before the projection is kept.
Load(t) ==
    /\ At(t, "load")
    /\ sync' = [sync EXCEPT !.running = FALSE]
    /\ thread' = [Notified EXCEPT ![t].pc = "keep", ![t].got = truth]
    /\ UNCHANGED <<truth, shown, events, raced, client>>

\* The last critical section.
Keep(t) ==
    /\ At(t, "keep")
    /\ IF sync.closed THEN thread' = [thread EXCEPT ![t] = IdleThread] /\ UNCHANGED sync
       ELSE /\ sync' = [sync EXCEPT !.last = thread[t].got, !.recent = TRUE]
            /\ Goto(t, "store")
    /\ UNCHANGED <<truth, shown, events, raced, client>>

\* close(), called by TradingService.close.
Close ==
    /\ ~sync.closed
    /\ sync' = [sync EXCEPT !.closed = TRUE]
    /\ thread' = Notified
    /\ UNCHANGED <<truth, shown, events, raced, client>>

(***************************************************************************)
(* _synchronize_account and _emit.                                         *)
(***************************************************************************)
InEmit(u) == thread[u].pc \in {"emit", "append"}

\* The projection is compared with what is shown ...
Compare(t) ==
    /\ At(t, "store")
    /\ thread' = [thread EXCEPT ![t] = IF @.got = shown THEN IdleThread
                                       ELSE [@ EXCEPT !.pc = "assign"]]
    /\ UNCHANGED <<truth, sync, shown, events, raced, client>>

\* ... and assigned; no lock is held, so emissions may overlap.
Assign(t) ==
    /\ At(t, "assign")
    /\ shown' = thread[t].got
    /\ thread' = [u \in Threads |->
           IF u = t THEN [thread[u] EXCEPT !.pc = "emit",
                                           !.overlap = \E v \in Threads : InEmit(v)]
           ELSE IF InEmit(u) THEN [thread[u] EXCEPT !.overlap = TRUE]
           ELSE thread[u]]
    /\ UNCHANGED <<truth, sync, events, raced, client>>

\* The argument of _emit is evaluated: whatever is shown by now.
Evaluate(t) ==
    /\ At(t, "emit")
    /\ thread' = [thread EXCEPT ![t].pc = "append", ![t].got = shown]
    /\ UNCHANGED <<truth, sync, shown, events, raced, client>>

\* The critical section of _emit: a full deque drops its oldest event.  A
\* handler that has its sequence is one event further behind.
Emit(e) ==
    LET all == Append(events, e) IN
    /\ events' = IF Len(all) > MaxEvents THEN Tail(all) ELSE all
    /\ client' = IF client.pc \in {"body", "greet", "loop"} /\ client.behind <= MaxEvents
                 THEN [client EXCEPT !.behind = @ + 1] ELSE client

AppendEvent(t) ==
    /\ At(t, "append")
    /\ Emit(thread[t].got)
    /\ raced' = thread[t].overlap
    /\ thread' = [thread EXCEPT ![t] = IdleThread]
    /\ UNCHANGED <<truth, sync, shown>>

\* Any other emission: it takes a sequence number and a place in the deque.
OtherEvent ==
    /\ Emit(Other)
    /\ UNCHANGED <<truth, sync, thread, shown, raced>>

(***************************************************************************)
(* The websocket handler and dashboard_snapshot.                           *)
(***************************************************************************)
\* Accepted and registered with the session manager and with the service.
Connect ==
    /\ client.pc = "off"
    /\ client' = [NoClient EXCEPT !.pc = "sequence", !.reg = TRUE, !.stream = TRUE]
    /\ UNCHANGED <<truth, sync, thread, shown, events, raced>>

SnapshotSequence ==
    /\ client.pc = "sequence"
    /\ client' = [client EXCEPT !.pc = "body"]
    /\ UNCHANGED <<truth, sync, thread, shown, events, raced>>

SnapshotBody ==
    /\ client.pc = "body"
    /\ client' = [client EXCEPT !.pc = "greet", !.account = shown]
    /\ UNCHANGED <<truth, sync, thread, shown, events, raced>>

\* Mutant: the sequence is read when the snapshot has been sent.
SendSnapshotThenSequence ==
    /\ client.pc = "greet"
    /\ client' = [client EXCEPT !.pc = "loop", !.whole = TRUE, !.behind = 0]
    /\ UNCHANGED <<truth, sync, thread, shown, events, raced>>

SendSnapshot ==
    /\ client.pc = "greet"
    /\ client' = [client EXCEPT !.pc = "loop", !.whole = TRUE]
    /\ UNCHANGED <<truth, sync, thread, shown, events, raced>>

\* snapshot.error: the handler goes on from sequence 0, so that the browser
\* gets whatever the deque still holds.
SnapshotFails ==
    /\ client.pc \in {"sequence", "body"}
    /\ client' = [client EXCEPT !.pc = "loop", !.behind = Len(events)]
    /\ UNCHANGED <<truth, sync, thread, shown, events, raced>>

\* The handler leaves its loop; what its browser showed no longer matters.
Leaving == [NoClient EXCEPT !.pc = "closing", !.reg = client.reg, !.stream = client.stream]

\* events_after: the events the handler has not sent, as far as the deque
\* still holds them.
Fetched ==
    LET n == IF client.behind > Len(events) THEN Len(events) ELSE client.behind
    IN  SubSeq(events, Len(events) - n + 1, Len(events))

\* What the browser displays once it has the batch.
Displayed(batch) ==
    LET accounts == {i \in DOMAIN batch : batch[i] # Other}
    IN  IF accounts = {} THEN client.account ELSE batch[Max(accounts)]

\* Mutant: the registration is looked at only when a message came.
LoopTurnTrusting(message) ==
    /\ client.pc = "loop"
    /\ client' =
         IF message = "bad" \/ (message = "ack" /\ ~client.reg)
         THEN Leaving
         ELSE [client EXCEPT !.account = Displayed(Fetched), !.behind = 0,
                             !.whole = @ /\ client.behind <= Len(events)]
    /\ UNCHANGED <<truth, sync, thread, shown, events, raced>>

\* One turn of the loop: a second without a message, a good acknowledgement,
\* or anything else, which closes the stream; so does a lost registration.
LoopTurn(message) ==
    /\ client.pc = "loop"
    /\ client' =
         IF ~client.reg \/ message = "bad" THEN Leaving
         ELSE [client EXCEPT !.account = Displayed(Fetched), !.behind = 0,
                             !.whole = @ /\ client.behind <= Len(events)]
    /\ UNCHANGED <<truth, sync, thread, shown, events, raced>>

\* The finally block: both tables forget the connection.
Closed ==
    /\ client.pc = "closing"
    /\ client' = NoClient
    /\ UNCHANGED <<truth, sync, thread, shown, events, raced>>

\* The browser is gone: the next await raises, and the finally block runs.
Disconnect ==
    /\ client.pc \notin {"off", "closing"}
    /\ client' = Leaving
    /\ UNCHANGED <<truth, sync, thread, shown, events, raced>>

\* The session expires or is evicted (web_api/security.py): its table of
\* connections goes with it.
SessionEnds ==
    /\ client.reg
    /\ client' = [client EXCEPT !.reg = FALSE]
    /\ UNCHANGED <<truth, sync, thread, shown, events, raced>>

(***************************************************************************)
(* The world.                                                              *)
(***************************************************************************)
AccountChanges ==
    /\ truth < MaxVersion
    /\ truth' = truth + 1
    /\ UNCHANGED <<sync, thread, shown, events, raced, client>>

\* minimum_interval_seconds pass.
ProjectionAges ==
    /\ sync.recent
    /\ sync' = [sync EXCEPT !.recent = FALSE]
    /\ UNCHANGED <<truth, thread, shown, events, raced, client>>

ThreadStep(t) ==
    \/ Enter(t) \/ Load(t) \/ LoadFails(t) \/ Keep(t)
    \/ Compare(t) \/ Assign(t) \/ Evaluate(t) \/ AppendEvent(t)

HandlerStep ==
    \/ SnapshotSequence \/ SnapshotBody \/ SendSnapshot
    \/ LoopTurn("none") \/ Closed

Next ==
    \/ \E t \in Threads : ThreadStep(t)
    \/ Close \/ OtherEvent
    \/ Connect \/ HandlerStep \/ SnapshotFails \/ Disconnect \/ SessionEnds
    \/ \E message \in {"ack", "bad"} : LoopTurn(message)
    \/ AccountChanges \/ ProjectionAges

\* The event loop runs: wait_for gives the handler its turn after a second
\* without a message.  Nothing makes anybody call, connect or disconnect.
Fairness == WF_vars(HandlerStep)

Spec == Init /\ [][Next]_vars /\ Fairness

(***************************************************************************)
(* Properties.                                                             *)
(***************************************************************************)
ThreadPCs == {"idle", "enter", "wait", "load", "keep", "store",
              "assign", "emit", "append"}
Events == 1..MaxVersion \cup {Other}

TypeOK ==
    /\ truth \in 1..MaxVersion
    /\ sync \in [running : BOOLEAN, last : 0..MaxVersion, recent : BOOLEAN, closed : BOOLEAN]
    /\ thread \in [Threads -> [pc : ThreadPCs, got : 0..MaxVersion, overlap : BOOLEAN]]
    /\ shown \in 0..MaxVersion
    /\ events \in Seq(Events) /\ Len(events) <= MaxEvents
    /\ raced \in BOOLEAN
    /\ client \in [pc : {"off", "sequence", "body", "greet", "loop", "closing"},
                   reg : BOOLEAN, stream : BOOLEAN, account : 0..MaxVersion,
                   behind : 0..(MaxEvents + 1),
                   whole : BOOLEAN]

\* At most one caller is inside the loader (account_synchronizer.py: "single-
\* flight gate"), the flag the others wait on is set exactly while one is, and
\* nobody sleeps at an open gate: a load that ended or raised, and a close(),
\* wakes everybody.  (That a woken caller gets its turn is not promised:
\* threads that keep calling may load before it every time.)
SingleFlight ==
    /\ Cardinality({t \in Threads : At(t, "load")}) = IF sync.running THEN 1 ELSE 0
    /\ (\E t \in Threads : At(t, "wait")) => sync.running /\ ~sync.closed

\* A browser that has its snapshot and every event since, with no emission
\* under way, displays the account the service shows, wherever between the
\* snapshot's reads the account changed - unless two emissions overlapped:
\* _emit's order is then not the order of the assignments.
ViewConverges ==
    (/\ client.pc = "loop" /\ client.behind = 0 /\ client.whole
     /\ \A t \in Threads : ~InEmit(t)
     /\ ~raced)
        => client.account = shown

\* A stream whose session expired or was evicted leaves the service's table
\* of client streams, which START and the watchdog consult, although its
\* browser never sends another message.
DeadStreamsCleared ==
    (client.stream /\ ~client.reg) ~> ~client.stream
=============================================================================
