----------------------------- MODULE MarketFeed -----------------------------
(***************************************************************************)
(* The realtime market data of one symbol: the WebSocket client that       *)
(* resynchronises and reconnects (data/realtime/websocket_client.py,       *)
(* runtime.py), the rolling CandleBuffer, the readiness of                 *)
(* RealtimeMarketState with its watchdog, and the queue of confirmed 1m    *)
(* candles that drives the strategy (trading_agent/service.py).            *)
(*                                                                         *)
(* Three threads share the state under its lock: the client's event loop,  *)
(* the scheduler (runtime_tick) and the market event worker; each critical *)
(* section is one step.  Only the 1m buffer is kept: the 3m and 5m buffers *)
(* run the same code on longer intervals.  Candle t covers minute t; it is *)
(* final once the clock is past that minute.  Values are left out: two     *)
(* unconfirmed rows of a candle, or two confirmed ones, have one effect.   *)
(***************************************************************************)
EXTENDS Naturals, Sequences, SequencesExt, FiniteSetsExt

CONSTANTS
    MaxMinute,      \* bound: minutes of market time
    BootLimit,      \* bootstrap_limit: candles of a historical bootstrap
    Capacity,       \* candles a buffer keeps
    QueueCap,       \* event_queue_capacity
    KeyCap,         \* maxlen of _market_event_keys
    MaxFailures,    \* bound: failed sockets and failed resyncs
    MaxOdd,         \* bound: candle rows lost, repeated or out of order
    MaxLate         \* bound: minutes by which such a row is late

ASSUME SizesAssumption ==
    /\ BootLimit \in Nat \ {0, 1} /\ Capacity \in Nat /\ Capacity >= BootLimit
    /\ MaxMinute \in Nat /\ MaxMinute > BootLimit
    /\ QueueCap \in Nat \ {0} /\ KeyCap \in Nat \ {0}
    /\ MaxFailures \in Nat /\ MaxOdd \in Nat /\ MaxLate \in Nat

\* No candle is confirmed so late that the keys of all candles confirmed
\* around it fill _market_event_keys (256 keys at service.py:105).
ASSUME LatenessAssumption == 2 * MaxLate <= KeyCap + 1

VARIABLES
    clock,      \* two ticks a minute: up to five seconds into it, and later
    buf,        \* CandleBuffer
    st,         \* SymbolMarketState
    cl,         \* the client: where run() is, the bootstrap it fetched, its feed
    events,     \* _market_event_queue and _market_event_keys
    handling,   \* the candle the event worker evaluates, 0 when it has none
    session,    \* session_state: RUNNING, or anything else
    evals,      \* history: strategy evaluations per candle
    faults      \* failures and odd rows so far

vars == <<clock, buf, st, cl, events, handling, session, evals, faults>>

Minute == clock \div 2
Candles == 1..MaxMinute

TypeOK ==
    /\ clock \in 0..(2 * MaxMinute + 1)
    /\ buf \in [cand : SUBSET Candles, conf : SUBSET Candles,
                emitted : SUBSET Candles, complete : BOOLEAN]
    /\ buf.conf \subseteq buf.cand
    /\ st \in [stream : {"CONNECTED", "RESYNCING", "STALE", "DISCONNECTED"},
               pub : BOOLEAN, bus : BOOLEAN, seeded : BOOLEAN, book : BOOLEAN]
    /\ cl \in [pc : {"start", "fetch", "boot", "run", "broken"},
               fetched : 0..MaxMinute, cursor : 0..(MaxMinute + 1), booked : BOOLEAN]
    /\ events \in [queue : Seq(Candles), keys : Seq(Candles)]
    /\ Len(events.queue) <= QueueCap /\ Len(events.keys) <= KeyCap
    /\ handling \in 0..MaxMinute
    /\ session \in {"RUNNING", "STOPPED", "DEGRADED"}
    /\ evals \in [Candles -> Nat]
    /\ faults \in [failed : 0..MaxFailures, odd : 0..MaxOdd]

Init ==
    /\ clock = 2 * BootLimit
    /\ buf = [cand |-> {}, conf |-> {}, emitted |-> {}, complete |-> FALSE]
    /\ st = [stream |-> "DISCONNECTED", pub |-> FALSE, bus |-> FALSE,
             seeded |-> FALSE, book |-> FALSE]
    /\ cl = [pc |-> "start", fetched |-> 0, cursor |-> 0, booked |-> FALSE]
    /\ events = [queue |-> <<>>, keys |-> <<>>]
    /\ handling = 0
    /\ session = "STOPPED"
    /\ evals = [t \in Candles |-> 0]
    /\ faults = [failed |-> 0, odd |-> 0]

(***************************************************************************)
(* CandleBuffer.                                                           *)
(***************************************************************************)
\* bootstrap with the candles known at minute m, the last one still forming.
\* (Too few, duplicate or missing ones raise: see ResyncFails.)
Bootstrapped(m) ==
    LET cand == (m - BootLimit + 1)..m
    IN [cand |-> cand, conf |-> cand \ {m}, emitted |-> cand \ {m}, complete |-> TRUE]

\* apply's answer for candle t: nothing is accepted of a confirmed candle, nor
\* of one older than the newest that is not in the buffer.
Accepted(t) ==
    IF t \in buf.cand THEN t \notin buf.conf
    ELSE buf.cand = {} \/ t > Max(buf.cand)

\* Candles skipped between the newest one and t.
Missing(t) == t \notin buf.cand /\ buf.cand # {} /\ t > Max(buf.cand) + 1

\* The buffer after an accepted candle, the oldest one dropped at capacity.
Applied(t, confirmed) ==
    LET all == buf.cand \cup {t}
        kept == IF Cardinality(all) > Capacity THEN all \ {Min(all)} ELSE all
    IN [cand |-> kept,
        conf |-> IF confirmed THEN (buf.conf \cup {t}) \cap kept ELSE buf.conf \cap kept,
        emitted |-> IF confirmed THEN buf.emitted \cup {t} ELSE buf.emitted,
        complete |-> buf.complete /\ ~Missing(t)]

\* A confirmed candle the buffer has not announced since its last bootstrap.
ConfirmedEvent(t, confirmed) == Accepted(t) /\ confirmed /\ t \notin buf.emitted

(***************************************************************************)
(* RealtimeMarketState.                                                    *)
(***************************************************************************)
\* _promote_if_ready.
Promoted(s, b) ==
    IF s.pub /\ s.bus /\ s.seeded /\ b.complete THEN [s EXCEPT !.stream = "CONNECTED"]
    ELSE s

\* No fresh confirmed candle: the newest one ended more than one interval and
\* stale_after_seconds (five, here up to half a minute) ago.
CandlesStale == buf.conf = {} \/ clock > 2 * (Max(buf.conf) + 2)

\* The watchdog's test.
Unusable == st.stream # "CONNECTED" \/ ~st.seeded \/ ~st.book \/ CandlesStale

\* The symbol's state after watchdog().
Watched ==
    IF Unusable /\ st.stream # "DISCONNECTED" THEN [st EXCEPT !.stream = "STALE"] ELSE st

\* session.degrade: only a RUNNING session.
Degraded == IF session = "RUNNING" THEN "DEGRADED" ELSE session

(***************************************************************************)
(* The client's loop.                                                      *)
(***************************************************************************)
\* record_reconnect and mark_resyncing.
MarkResyncing ==
    /\ cl.pc = "start"
    /\ st' = [st EXCEPT !.stream = "RESYNCING", !.pub = FALSE, !.bus = FALSE]
    /\ cl' = [cl EXCEPT !.pc = "fetch"]
    /\ UNCHANGED <<clock, buf, events, handling, session, evals, faults>>

\* The read-only history requests; just after a minute's end the answer may
\* still show its candle forming.
FetchHistory ==
    /\ cl.pc = "fetch"
    /\ \E m \in {Minute} \cup (IF clock = 2 * Minute /\ Minute > BootLimit
                               THEN {Minute - 1} ELSE {}) :
          cl' = [cl EXCEPT !.pc = "boot", !.fetched = m]
    /\ UNCHANGED <<clock, buf, st, events, handling, session, evals, faults>>

\* Mutant: the book of the previous socket still counts.
BootstrapSymbolKeepsBook ==
    /\ cl.pc = "boot"
    /\ buf' = Bootstrapped(cl.fetched)
    /\ st' = [st EXCEPT !.seeded = TRUE, !.stream = "RESYNCING"]
    /\ cl' = [cl EXCEPT !.pc = "run", !.cursor = 0, !.booked = FALSE, !.fetched = 0]
    /\ UNCHANGED <<clock, events, handling, session, evals, faults>>

\* bootstrap_symbol, and seed_market right after it; the sockets are opened
\* next.  No socket is connected in between, so nothing is promoted.
BootstrapSymbol ==
    /\ cl.pc = "boot"
    /\ buf' = Bootstrapped(cl.fetched)
    /\ st' = [st EXCEPT !.seeded = TRUE, !.book = FALSE, !.stream = "RESYNCING"]
    /\ cl' = [cl EXCEPT !.pc = "run", !.cursor = 0, !.booked = FALSE, !.fetched = 0]
    /\ UNCHANGED <<clock, events, handling, session, evals, faults>>

\* A request failed, or its answer was incomplete or invalid.
ResyncFails ==
    /\ cl.pc \in {"fetch", "boot"} /\ faults.failed < MaxFailures
    /\ faults' = [faults EXCEPT !.failed = @ + 1]
    /\ cl' = [cl EXCEPT !.pc = "broken"]
    /\ UNCHANGED <<clock, buf, st, events, handling, session, evals>>

\* An endpoint's loop raised: connection lost, pong timeout, error event,
\* malformed row.
SocketFails ==
    /\ cl.pc = "run" /\ faults.failed < MaxFailures
    /\ faults' = [faults EXCEPT !.failed = @ + 1]
    /\ cl' = [cl EXCEPT !.pc = "broken"]
    /\ UNCHANGED <<clock, buf, st, events, handling, session, evals>>

\* run() caught it: mark_disconnected, and after the back-off the loop again.
MarkDisconnected ==
    /\ cl.pc = "broken"
    /\ st' = [st EXCEPT !.stream = "DISCONNECTED", !.pub = FALSE, !.bus = FALSE]
    /\ cl' = [cl EXCEPT !.pc = "start", !.fetched = 0]
    /\ UNCHANGED <<clock, buf, events, handling, session, evals, faults>>

\* All subscriptions of an endpoint are acknowledged: mark_endpoint_connected.
\* The candle feed starts, at the latest now, with the candle that is forming.
MarkEndpointConnected ==
    /\ cl.pc = "run"
    /\ \/ /\ ~st.pub
          /\ st' = Promoted([st EXCEPT !.pub = TRUE], buf)
          /\ UNCHANGED cl
       \/ /\ ~st.bus
          /\ st' = Promoted([st EXCEPT !.bus = TRUE], buf)
          /\ cl' = [cl EXCEPT !.cursor = IF @ = 0 THEN Minute ELSE @]
    /\ UNCHANGED <<clock, buf, events, handling, session, evals, faults>>

(***************************************************************************)
(* Messages.                                                               *)
(***************************************************************************)
\* A ticker that is newer (older and repeated ones change nothing).
ApplyTicker ==
    /\ cl.pc = "run"
    /\ st' = Promoted(st, buf)
    /\ UNCHANGED <<clock, buf, cl, events, handling, session, evals, faults>>

\* A book: newer, or after the first one far behind its sequence, which
\* raises (one a little behind is ignored).
ApplyBook ==
    /\ cl.pc = "run"
    /\ \/ /\ st' = Promoted([st EXCEPT !.book = TRUE], buf)
          /\ cl' = [cl EXCEPT !.booked = TRUE]
          /\ UNCHANGED faults
       \/ /\ st.book /\ faults.failed < MaxFailures
          /\ faults' = [faults EXCEPT !.failed = @ + 1]
          /\ st' = [st EXCEPT !.stream = "RESYNCING", !.pub = FALSE, !.book = FALSE]
          /\ cl' = [cl EXCEPT !.pc = "broken"]
    /\ UNCHANGED <<clock, buf, events, handling, session, evals>>

\* Mutant: the queue is not told apart by candle.
AnnouncedAgain(t) ==
    IF Len(events.queue) < QueueCap THEN [events EXCEPT !.queue = Append(@, t)] ELSE events

\* _on_confirmed_candle: a key already seen is ignored; when the queue is full
\* the key is taken back.  The key set always holds the keys of the deque.
Announced(t) ==
    LET keys == Append(IF Len(events.keys) = KeyCap THEN Tail(events.keys)
                       ELSE events.keys, t)
    IN IF Contains(events.keys, t) THEN events
       ELSE IF Len(events.queue) < QueueCap
            THEN [queue |-> Append(events.queue, t), keys |-> keys]
            ELSE [events EXCEPT !.keys = Front(keys)]
Overflows(t) == ~Contains(events.keys, t) /\ Len(events.queue) = QueueCap

\* _apply_candles for one row, and the callback for its confirmation.
ApplyCandle(t, confirmed) ==
    LET b == IF Accepted(t) THEN Applied(t, confirmed) ELSE buf
        gap == Accepted(t) /\ Missing(t)
    IN /\ buf' = b
       /\ st' = Promoted(IF gap THEN [st EXCEPT !.stream = "STALE"] ELSE st, b)
       /\ IF ConfirmedEvent(t, confirmed)
          THEN /\ events' = Announced(t)
               /\ session' = IF Overflows(t) THEN Degraded ELSE session
          ELSE UNCHANGED <<events, session>>
       /\ UNCHANGED <<clock, handling, evals>>

\* The feed goes on in order: a candle's updates, its confirmation, the next one.
CandleInOrder ==
    LET t == IF cl.cursor = 0 THEN Minute ELSE cl.cursor IN
    /\ cl.pc = "run" /\ t <= Minute
    /\ \E confirmed \in BOOLEAN :
          /\ confirmed => t < Minute
          /\ ApplyCandle(t, confirmed)
          /\ cl' = [cl EXCEPT !.cursor = IF confirmed THEN t + 1 ELSE t]
    /\ UNCHANGED faults

\* A row out of its turn: repeated, late, or after rows that were lost.
CandleOdd ==
    /\ cl.pc = "run" /\ cl.cursor > 0 /\ faults.odd < MaxOdd
    /\ faults' = [faults EXCEPT !.odd = @ + 1]
    /\ \E t \in Candles \ {cl.cursor}, confirmed \in BOOLEAN :
          /\ t <= Minute /\ Minute <= t + MaxLate
          /\ confirmed => t < Minute
          /\ ApplyCandle(t, confirmed)
          /\ cl' = [cl EXCEPT !.cursor = IF t < @ THEN @ ELSE IF confirmed THEN t + 1 ELSE t]

(***************************************************************************)
(* The scheduler and the event worker.                                     *)
(***************************************************************************)
\* Mutant: the watchdog only looks at connected streams.
RuntimeTickConnectedOnly ==
    /\ st' = Watched
    /\ session' = IF Unusable /\ st.stream = "CONNECTED" THEN Degraded ELSE session
    /\ UNCHANGED <<clock, buf, cl, events, handling, evals, faults>>

\* runtime_tick: the watchdog, and its consequence for the session.
RuntimeTick ==
    /\ st' = Watched
    /\ session' = IF Unusable THEN Degraded ELSE session
    /\ UNCHANGED <<clock, buf, cl, events, handling, evals, faults>>

\* START: the preflight asserts a ready market.
StartSession ==
    /\ session # "RUNNING"
    /\ st' = Watched
    /\ session' = IF Watched.stream = "CONNECTED" THEN "RUNNING" ELSE session
    /\ UNCHANGED <<clock, buf, cl, events, handling, evals, faults>>

\* _handle_confirmed_candle up to assert_entry_ready: ignored when the session
\* is not RUNNING or the event is too old.
TakeEvent ==
    /\ handling = 0 /\ events.queue # <<>>
    /\ events' = [events EXCEPT !.queue = Tail(@)]
    /\ \/ UNCHANGED <<st, handling, session>>
       \/ /\ session = "RUNNING"
          /\ st' = Watched
          /\ IF Watched.stream = "CONNECTED"
             THEN handling' = Head(events.queue) /\ UNCHANGED session
             ELSE session' = Degraded /\ UNCHANGED handling
    /\ UNCHANGED <<clock, buf, cl, evals, faults>>

\* analyze: get_snapshot runs the watchdog again and raises unless CONNECTED;
\* otherwise the strategy evaluates the snapshot.
GetSnapshot ==
    /\ handling # 0
    /\ handling' = 0
    /\ st' = Watched
    /\ IF Watched.stream = "CONNECTED"
       THEN evals' = [evals EXCEPT ![handling] = @ + 1] /\ UNCHANGED session
       ELSE session' = Degraded /\ UNCHANGED evals
    /\ UNCHANGED <<clock, buf, cl, events, faults>>

Time ==
    /\ clock < 2 * MaxMinute + 1
    /\ clock' = clock + 1
    /\ UNCHANGED <<buf, st, cl, events, handling, session, evals, faults>>

Client == MarkResyncing \/ FetchHistory \/ BootstrapSymbol \/ MarkDisconnected
          \/ MarkEndpointConnected

Feed == ResyncFails \/ SocketFails \/ ApplyTicker \/ ApplyBook \/ CandleInOrder \/ CandleOdd

Next == Client \/ Feed \/ RuntimeTick \/ StartSession \/ TakeEvent \/ GetSnapshot \/ Time

Spec == Init /\ [][Next]_vars

\* The scheduler ticks for ever, and the event worker handles what it has.
FairSpec == Spec /\ WF_vars(RuntimeTick) /\ WF_vars(TakeEvent \/ GetSnapshot)

(***************************************************************************)
(* Properties.                                                             *)
(***************************************************************************)
Evaluates == evals' # evals

\* The strategy only ever sees candles without a gap, the newest confirmed one
\* fresh to the minute (it ended at most one interval ago, as far as the model's
\* clock tells), whatever order of promotions, gaps and watchdog passes preceded
\* the snapshot.
\* With them it sees a book that came over the present connection, on two live
\* sockets.
SnapshotSound ==
    [][Evaluates => /\ \A t \in buf.cand : t = Min(buf.cand) \/ t - 1 \in buf.cand
                    /\ Max(buf.conf) + 2 >= Minute
                    /\ cl.booked /\ st.pub /\ st.bus]_vars

\* A confirmed 1m candle is evaluated at most once, across reconnects whose
\* bootstrap still shows it forming.
EvaluatedOnce == \A t \in Candles : evals[t] <= 1

\* A feed that stays unusable ends a RUNNING session: candles missing, a socket
\* down, or no fresh confirmed candle although both sockets live.
GapStopsSession ==
    <>[](~buf.complete \/ ~st.pub \/ ~st.bus \/ CandlesStale)
       => <>[](session # "RUNNING")
=============================================================================
