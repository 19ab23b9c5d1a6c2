-------------------------- MODULE MarketFeedProofs --------------------------
(***************************************************************************)
(* Proofs about the realtime market data, for any number of minutes,       *)
(* failures and odd rows and any size of the buffer, the queue and the     *)
(* keys: what the strategy sees is sound (SnapshotSound), and it evaluates *)
(* a confirmed candle at most once (EvaluatedOnce).                        *)
(***************************************************************************)
EXTENDS MarketFeed, FiniteSetTheorems, NaturalsInduction, TLAPS

(***************************************************************************)
(* The invariant.                                                          *)
(***************************************************************************)
\* The types of the buffer, the symbol's state and the client (TypeOK).
BufferType == [cand : SUBSET Candles, conf : SUBSET Candles,
               emitted : SUBSET Candles, complete : BOOLEAN]
StreamType == [stream : {"CONNECTED", "RESYNCING", "STALE", "DISCONNECTED"},
               pub : BOOLEAN, bus : BOOLEAN, seeded : BOOLEAN, book : BOOLEAN]
ClientType == [pc : {"start", "fetch", "boot", "run", "broken"},
               fetched : 0..MaxMinute, cursor : 0..(MaxMinute + 1), booked : BOOLEAN]

\* No candle is missing between two of S.
Convex(S) == \A a, b \in S : a..b \subseteq S

\* A candle the worker has evaluated, evaluates or will find in the queue.
Queued(t) == \E i \in 1..Len(events.queue) : events.queue[i] = t
Spent(t) == evals[t] > 0 \/ handling = t \/ Queued(t)

\* A fetched history is not older than the bootstrap is long, nor from the future.
FetchOK == clock >= 2 * BootLimit
           /\ (cl.pc = "boot" => cl.fetched \in BootLimit..Minute)

\* A connected stream has two live sockets and a buffer without gaps, and the
\* book on display came over the present connection.
StreamOK == /\ st.stream = "CONNECTED" => st.pub /\ st.bus /\ buf.complete
            /\ buf.complete => Convex(buf.cand)
            /\ st.book => cl.booked

\* The worker has every candle in at most one place.
PlacesOK == /\ \A t \in Candles : evals[t] \in {0, 1}
            /\ \A t \in Candles : evals[t] = 1 => handling # t /\ ~Queued(t)
            /\ \A t \in Candles : handling = t => ~Queued(t)
            /\ \A i, j \in 1..Len(events.queue) :
                  events.queue[i] = events.queue[j] => i = j

\* Keys are distinct, and of candles that have ended.
KeysOK == /\ \A i, j \in 1..Len(events.keys) : events.keys[i] = events.keys[j] => i = j
          /\ \A i \in 1..Len(events.keys) : events.keys[i] < Minute

\* The key of t is held, and behind it only candles at most MaxLate older.
Held(t) == \E i \in 1..Len(events.keys) :
              /\ events.keys[i] = t
              /\ \A j \in (i + 1)..Len(events.keys) : events.keys[j] + MaxLate > t

\* A candle given to the worker has ended, the feed in its order is past it,
\* and as long as a late row may still confirm it again its key is held.
SpentOK == \A t \in Candles : Spent(t) =>
              /\ t < Minute
              /\ cl.cursor > 0 /\ cl.pc = "run" => t < cl.cursor
              /\ Minute <= t + MaxLate => Held(t)

\* The inductive invariant.
IInv == TypeOK /\ FetchOK /\ StreamOK /\ PlacesOK /\ KeysOK /\ SpentOK

(***************************************************************************)
(* Operators.                                                              *)
(***************************************************************************)
\* A nonempty set of candles has a newest and an oldest one (Max and Min).
LEMMA ExtremesExist ==
    ASSUME NEW n \in Nat, NEW S \in SUBSET (1..n), S # {}
    PROVE  /\ Max(S) \in S /\ \A i \in S : i <= Max(S)
           /\ Min(S) \in S /\ \A i \in S : Min(S) <= i
<1> DEFINE T == {n - i : i \in S}
<1>1. T \subseteq Nat /\ T # {}
  <2>1. \A i \in S : n - i \in Nat
    OBVIOUS
  <2> QED
    BY <2>1
<1>2. PICK x \in T : \A y \in T : ~(<<y, x>> \in OpToRel(<, Nat))
  BY <1>1, NatLessThanWellFounded, WFMin
<1>3. PICK i \in S : x = n - i
  OBVIOUS
<1>4. ASSUME NEW j \in S PROVE i >= j
  <2>1. n - j \in T /\ n - j \in Nat /\ x \in Nat
    BY <1>1
  <2>2. ~(n - j < x)
    BY <1>2, <2>1 DEF OpToRel
  <2> QED
    BY <1>3, <2>1, <2>2
<1>5. \E m \in S : \A j \in S : m >= j
  BY <1>4
<1>6. Max(S) \in S /\ \A j \in S : Max(S) >= j
  BY <1>5 DEF Max
<1>7. PICK y \in S : \A z \in S : ~(<<z, y>> \in OpToRel(<, Nat))
  <2>1. S \subseteq Nat
    OBVIOUS
  <2> QED
    BY <2>1, NatLessThanWellFounded, WFMin
<1>8. ASSUME NEW j \in S PROVE y <= j
  <2>0. S \subseteq Nat
    OBVIOUS
  <2>1. j \in Nat /\ y \in Nat
    BY <2>0
  <2>2. ~(j < y)
    BY <1>7, <2>1 DEF OpToRel
  <2> QED
    BY <2>1, <2>2
<1>9. Min(S) \in S /\ \A j \in S : Min(S) <= j
  <2>1. \E m \in S : \A j \in S : m <= j
    BY <1>8
  <2> QED
    BY <2>1 DEF Min
<1> QED
  BY <1>6, <1>9

\* The minute of the clock.
LEMMA MinuteFacts ==
    ASSUME TypeOK
    PROVE  /\ Minute \in 0..MaxMinute /\ clock \in Nat
           /\ 2 * Minute <= clock /\ clock <= 2 * Minute + 1
BY SizesAssumption DEF TypeOK, BufferType, StreamType, ClientType, Minute

\* A buffer without gaps in the sense of its own test.
LEMMA ConvexFacts ==
    ASSUME NEW S \in SUBSET Candles, Convex(S)
    PROVE  \A t \in S : t = Min(S) \/ t - 1 \in S
<1> SUFFICES ASSUME NEW t \in S, t # Min(S) PROVE t - 1 \in S
  OBVIOUS
<1>1. Min(S) \in S /\ Min(S) <= t
  BY ExtremesExist, SizesAssumption DEF Candles
<1>2. Min(S) \in Nat /\ t \in Nat
  <2>1. S \subseteq Nat
    BY SizesAssumption DEF Candles
  <2> QED
    BY <1>1, <2>1
<1>3. t - 1 \in Min(S)..t
  BY <1>1, <1>2
<1> QED
  BY <1>1, <1>3 DEF Convex

\* watchdog keeps a stream or makes it STALE, and a stream that stays
\* connected passed its test.
LEMMA WatchedFacts ==
    ASSUME TypeOK
    PROVE  /\ Watched \in StreamType
           /\ Watched.pub = st.pub /\ Watched.bus = st.bus /\ Watched.book = st.book
           /\ Watched.stream = "CONNECTED" => st.stream = "CONNECTED" /\ ~Unusable
<1>1. CASE Unusable /\ st.stream # "DISCONNECTED"
  BY <1>1 DEF TypeOK, BufferType, StreamType, ClientType, Watched
<1>2. CASE ~(Unusable /\ st.stream # "DISCONNECTED")
  BY <1>2 DEF TypeOK, BufferType, StreamType, ClientType, Watched
<1> QED
  BY <1>1, <1>2

\* An accepted row keeps the buffer's type, and without a gap its convexity.
LEMMA AppliedFacts ==
    ASSUME TypeOK, NEW t \in Candles, NEW confirmed \in BOOLEAN, Accepted(t)
    PROVE  LET b == Applied(t, confirmed) IN
           /\ b \in BufferType
           /\ b.conf \subseteq b.cand
           /\ b.complete => buf.complete /\ ~Missing(t)
           /\ Convex(buf.cand) /\ ~Missing(t) => Convex(b.cand)
<1> DEFINE all == buf.cand \cup {t}
           kept == IF Cardinality(all) > Capacity THEN all \ {Min(all)} ELSE all
<1>1. Applied(t, confirmed) =
        [cand |-> kept,
         conf |-> IF confirmed THEN (buf.conf \cup {t}) \cap kept ELSE buf.conf \cap kept,
         emitted |-> IF confirmed THEN buf.emitted \cup {t} ELSE buf.emitted,
         complete |-> buf.complete /\ ~Missing(t)]
  BY DEF Applied
<1>2. all \subseteq Candles /\ kept \subseteq all /\ all # {}
  BY DEF TypeOK, BufferType, StreamType, ClientType
<1>3. Min(all) \in all /\ \A i \in all : Min(all) <= i
  BY <1>2, ExtremesExist, SizesAssumption DEF Candles
<1>4. ASSUME Convex(buf.cand), ~Missing(t) PROVE Convex(all)
  <2>1. CASE t \in buf.cand
    <3>1. all = buf.cand
      BY <2>1
    <3> QED
      BY <1>4, <3>1
  <2>2. CASE buf.cand = {}
    <3>1. all = {t}
      BY <2>2
    <3>2. t..t = {t}
      BY DEF Candles
    <3> QED
      BY <3>1, <3>2 DEF Convex
  <2>3. CASE t \notin buf.cand /\ buf.cand # {}
    <3> DEFINE m == Max(buf.cand)
    <3>1. m \in buf.cand /\ \A i \in buf.cand : i <= m
      BY <2>3, ExtremesExist, SizesAssumption DEF TypeOK, BufferType, StreamType, ClientType, Candles
    <3>2. m \in Nat /\ t \in Nat /\ buf.cand \subseteq Nat
      BY <3>1 DEF TypeOK, BufferType, StreamType, ClientType, Candles
    <3>3. t = m + 1
      BY <2>3, <1>4, <3>2 DEF Accepted, Missing
    <3> HIDE DEF m
    <3>4. ASSUME NEW a \in all, NEW b \in all, NEW c \in a..b PROVE c \in all
      <4>1. a \in Nat /\ b \in Nat /\ a <= m + 1 /\ b <= m + 1
        BY <3>1, <3>2, <3>3
      <4>2. c \in Int /\ a <= c /\ c <= b
        BY <3>4, <4>1
      <4>3. CASE c = m + 1
        BY <4>3, <3>3
      <4>4. CASE c # m + 1
        <5>1. a # t /\ c <= m
          BY <4>1, <4>2, <4>4, <3>2, <3>3
        <5>2. a \in buf.cand /\ c \in a..m
          BY <5>1, <4>1, <4>2, <3>2
        <5> QED
          BY <5>2, <3>1, <1>4 DEF Convex
      <4> QED
        BY <4>3, <4>4
    <3> QED
      BY <3>4 DEF Convex
  <2> QED
    BY <2>1, <2>2, <2>3
<1>5. ASSUME Convex(all) PROVE Convex(kept)
  <2>1. CASE kept = all
    BY <1>5, <2>1
  <2>2. CASE kept = all \ {Min(all)}
    <3>1. ASSUME NEW a \in kept, NEW b \in kept, NEW c \in a..b PROVE c \in kept
      <4>1. a \in all /\ b \in all /\ a # Min(all)
        BY <2>2, <3>1
      <4>2. c \in all
        BY <4>1, <3>1, <1>5 DEF Convex
      <4>3. Min(all) <= a /\ Min(all) \in Nat /\ a \in Nat /\ b \in Nat /\ c \in Nat
        BY <4>1, <4>2, <1>2, <1>3 DEF Candles
      <4>4. c # Min(all)
        BY <4>1, <4>3, <3>1
      <4> QED
        BY <4>2, <4>4, <2>2
    <3> QED
      BY <3>1 DEF Convex
  <2> QED
    BY <2>1, <2>2
<1> HIDE DEF kept, all
<1>6. /\ Applied(t, confirmed).cand = kept
      /\ Applied(t, confirmed).complete = (buf.complete /\ ~Missing(t))
  BY <1>1
<1>7. Applied(t, confirmed) \in BufferType
      /\ Applied(t, confirmed).conf \subseteq Applied(t, confirmed).cand
  <2>1. kept \in SUBSET Candles /\ Missing(t) \in BOOLEAN
    BY <1>2 DEF Missing
  <2> QED
    BY <1>1, <2>1 DEF TypeOK, BufferType, StreamType, ClientType
<1> QED
  BY <1>4, <1>5, <1>6, <1>7

(***************************************************************************)
(* The stream: types, fetched history, connected streams.                  *)
(***************************************************************************)
\* What TypeOK, FetchOK and StreamOK say, apart from the worker's state.
FeedInv == TypeOK /\ FetchOK /\ StreamOK

\* The initial state.
LEMMA FeedInit == Init => FeedInv
<1> SUFFICES ASSUME Init PROVE FeedInv
  OBVIOUS
<1>1. TypeOK
  BY SizesAssumption DEF Init, TypeOK, BufferType, StreamType, ClientType, Candles
<1>2. FetchOK /\ StreamOK
  BY SizesAssumption DEF Init, FetchOK, StreamOK, Convex
<1> QED
  BY <1>1, <1>2 DEF FeedInv

\* A promotion connects a stream only when everything it needs is there.
LEMMA PromotedFacts ==
    ASSUME NEW s \in StreamType,
           NEW b
    PROVE  /\ Promoted(s, b) \in StreamType
           /\ Promoted(s, b).pub = s.pub /\ Promoted(s, b).bus = s.bus
           /\ Promoted(s, b).book = s.book
           /\ Promoted(s, b).stream = "CONNECTED" =>
                s.stream = "CONNECTED" \/ (s.pub /\ s.bus /\ b.complete)
<1>1. CASE s.pub /\ s.bus /\ s.seeded /\ b.complete
  BY <1>1 DEF Promoted, StreamType
<1>2. CASE ~(s.pub /\ s.bus /\ s.seeded /\ b.complete)
  BY <1>2 DEF Promoted, StreamType
<1> QED
  BY <1>1, <1>2

\* A bootstrap fills the buffer without gaps.
LEMMA BootstrappedFacts ==
    ASSUME NEW m \in BootLimit..MaxMinute
    PROVE  /\ Bootstrapped(m) \in BufferType
           /\ Bootstrapped(m).conf \subseteq Bootstrapped(m).cand
           /\ Convex(Bootstrapped(m).cand)
<1> DEFINE cand == (m - BootLimit + 1)..m
<1>1. cand \subseteq Candles
  BY SizesAssumption DEF Candles
<1>2. Convex(cand)
  BY SizesAssumption DEF Convex
<1>3. Bootstrapped(m) = [cand |-> cand, conf |-> cand \ {m}, emitted |-> cand \ {m},
                         complete |-> TRUE]
  BY DEF Bootstrapped
<1> HIDE DEF cand
<1> QED
  BY <1>1, <1>2, <1>3 DEF BufferType

\* The events announced keep their type and both bounds.
LEMMA AnnouncedType ==
    ASSUME TypeOK, NEW t \in Candles
    PROVE  /\ Announced(t) \in [queue : Seq(Candles), keys : Seq(Candles)]
           /\ Len(Announced(t).queue) <= QueueCap /\ Len(Announced(t).keys) <= KeyCap
<1> DEFINE base == IF Len(events.keys) = KeyCap THEN Tail(events.keys) ELSE events.keys
           keys == Append(base, t)
<1>1. /\ events.queue \in Seq(Candles) /\ events.keys \in Seq(Candles)
      /\ Len(events.queue) <= QueueCap /\ Len(events.keys) <= KeyCap
      /\ events = [queue |-> events.queue, keys |-> events.keys]
  BY DEF TypeOK, BufferType, StreamType, ClientType
<1>2. base \in Seq(Candles) /\ Len(base) < KeyCap
  <2>1. CASE Len(events.keys) = KeyCap
    BY <1>1, <2>1, SizesAssumption
  <2>2. CASE Len(events.keys) # KeyCap
    BY <1>1, <2>2, SizesAssumption
  <2> QED
    BY <2>1, <2>2
<1> HIDE DEF base
<1>3. /\ keys \in Seq(Candles) /\ Len(keys) <= KeyCap
      /\ Front(keys) \in Seq(Candles) /\ Len(Front(keys)) <= KeyCap
  BY <1>2, SizesAssumption DEF Front
<1> HIDE DEF keys
<1>4. Announced(t) = IF Contains(events.keys, t) THEN events
                     ELSE IF Len(events.queue) < QueueCap
                          THEN [queue |-> Append(events.queue, t), keys |-> keys]
                          ELSE [events EXCEPT !.keys = Front(keys)]
  BY DEF Announced, keys, base
<1>5. CASE Contains(events.keys, t)
  BY <1>1, <1>4, <1>5
<1>6. CASE ~Contains(events.keys, t) /\ Len(events.queue) < QueueCap
  <2>1. Announced(t) = [queue |-> Append(events.queue, t), keys |-> keys]
    BY <1>4, <1>6
  <2>2. Append(events.queue, t) \in Seq(Candles) /\ Len(Append(events.queue, t)) <= QueueCap
    BY <1>1, <1>6, SizesAssumption
  <2> QED
    BY <2>1, <2>2, <1>3
<1>7. CASE ~Contains(events.keys, t) /\ ~(Len(events.queue) < QueueCap)
  <2>1. Announced(t) = [queue |-> events.queue, keys |-> Front(keys)]
    BY <1>1, <1>4, <1>7
  <2> QED
    BY <2>1, <1>1, <1>3
<1> QED
  BY <1>5, <1>6, <1>7

\* One row and its callback.
LEMMA ApplyCandleFeed ==
    ASSUME FeedInv, NEW t \in Candles, NEW confirmed \in BOOLEAN, ApplyCandle(t, confirmed),
           cl' \in ClientType,
           cl'.pc = "run", cl'.booked = cl.booked,
           faults' \in [failed : 0..MaxFailures, odd : 0..MaxOdd]
    PROVE  FeedInv'
<1> DEFINE b == IF Accepted(t) THEN Applied(t, confirmed) ELSE buf
           gap == Accepted(t) /\ Missing(t)
           s == IF gap THEN [st EXCEPT !.stream = "STALE"] ELSE st
<1>1. /\ buf' = b /\ st' = Promoted(s, b)
      /\ UNCHANGED <<clock, handling, evals>>
  BY DEF ApplyCandle
<1>2. /\ b \in BufferType
      /\ b.conf \subseteq b.cand
      /\ b.complete => buf.complete /\ ~gap
      /\ buf.complete /\ ~gap => b.complete
      /\ b.complete => Convex(b.cand)
  <2>1. CASE Accepted(t)
    <3>1. b = Applied(t, confirmed)
      BY <2>1
    <3>2. Applied(t, confirmed).complete = (buf.complete /\ ~Missing(t))
      BY DEF Applied
    <3> HIDE DEF b
    <3> QED
      BY <2>1, <3>1, <3>2, AppliedFacts DEF FeedInv, StreamOK
  <2>2. CASE ~Accepted(t)
    BY <2>2 DEF FeedInv, TypeOK, BufferType, StreamType, ClientType, StreamOK
  <2> QED
    BY <2>1, <2>2
<1>3. /\ s \in StreamType
      /\ s.pub = st.pub /\ s.bus = st.bus /\ s.book = st.book
      /\ s.stream = "CONNECTED" => st.stream = "CONNECTED" /\ ~gap
  <2>1. CASE gap
    <3>1. s = [st EXCEPT !.stream = "STALE"]
      BY <2>1
    <3> HIDE DEF s, gap
    <3> QED
      BY <3>1 DEF FeedInv, TypeOK, BufferType, StreamType, ClientType
  <2>2. CASE ~gap
    <3>1. s = st
      BY <2>2
    <3> HIDE DEF s, gap
    <3> QED
      BY <3>1, <2>2 DEF FeedInv, TypeOK, BufferType, StreamType, ClientType
  <2> QED
    BY <2>1, <2>2
<1> HIDE DEF b, s, gap
<1>4. /\ events' \in [queue : Seq(Candles), keys : Seq(Candles)]
      /\ Len(events'.queue) <= QueueCap /\ Len(events'.keys) <= KeyCap
      /\ session' \in {"RUNNING", "STOPPED", "DEGRADED"}
  <2>1. CASE ConfirmedEvent(t, confirmed)
    <3>1. events' = Announced(t) /\ session' = IF Overflows(t) THEN Degraded ELSE session
      BY <2>1 DEF ApplyCandle
    <3>2. session' \in {"RUNNING", "STOPPED", "DEGRADED"}
      BY <3>1 DEF FeedInv, TypeOK, BufferType, StreamType, ClientType, Degraded
    <3> QED
      BY <3>1, <3>2, AnnouncedType DEF FeedInv
  <2>2. CASE ~ConfirmedEvent(t, confirmed)
    BY <2>2 DEF ApplyCandle, FeedInv, TypeOK, BufferType, StreamType, ClientType
  <2> QED
    BY <2>1, <2>2
<1>5. /\ st' \in StreamType
      /\ st'.pub = st.pub /\ st'.bus = st.bus /\ st'.book = st.book
      /\ st'.stream = "CONNECTED" =>
           (st.stream = "CONNECTED" /\ ~gap) \/ (st.pub /\ st.bus /\ b.complete)
  BY <1>1, <1>3, PromotedFacts
<1>6. TypeOK'
  BY <1>1, <1>2, <1>4, <1>5 DEF FeedInv, TypeOK, BufferType, StreamType, ClientType
<1>7. FetchOK'
  BY <1>1 DEF FeedInv, FetchOK, Minute
<1>8. StreamOK'
  <2>1. st'.stream = "CONNECTED" => st'.pub /\ st'.bus /\ buf'.complete
    BY <1>1, <1>2, <1>5 DEF FeedInv, StreamOK
  <2>2. buf'.complete => Convex(buf'.cand)
    BY <1>1, <1>2
  <2>3. st'.book => cl'.booked
    BY <1>5 DEF FeedInv, StreamOK
  <2> QED
    BY <2>1, <2>2, <2>3 DEF StreamOK
<1> QED
  BY <1>6, <1>7, <1>8 DEF FeedInv

\* Steps of the client's loop.
LEMMA ClientFeed == ASSUME FeedInv, Client PROVE FeedInv'
<1> USE DEF FeedInv
<1>0. Minute \in 0..MaxMinute /\ clock \in Nat /\ 2 * Minute <= clock /\ clock <= 2 * Minute + 1
  BY MinuteFacts
<1>1. CASE MarkResyncing
  <2>1. TypeOK'
    BY <1>1 DEF MarkResyncing, TypeOK, BufferType, StreamType, ClientType
  <2>2. FetchOK' /\ StreamOK'
    BY <1>1 DEF MarkResyncing, TypeOK, BufferType, StreamType, ClientType, FetchOK, StreamOK
  <2> QED
    BY <2>1, <2>2
<1>2. CASE FetchHistory
  <2>1. PICK m \in {Minute} \cup (IF clock = 2 * Minute /\ Minute > BootLimit
                                  THEN {Minute - 1} ELSE {}) :
          cl' = [cl EXCEPT !.pc = "boot", !.fetched = m]
    BY <1>2 DEF FetchHistory
  <2>2. m \in BootLimit..Minute
    <3>1. Minute >= BootLimit
      BY <1>0, SizesAssumption DEF FetchOK
    <3>2. m = Minute \/ (Minute > BootLimit /\ m = Minute - 1)
      OBVIOUS
    <3> QED
      BY <1>0, <3>1, <3>2, SizesAssumption
  <2>3. UNCHANGED <<clock, buf, st, events, handling, session, evals, faults>>
    BY <1>2 DEF FetchHistory
  <2>4. TypeOK'
    <3>1. m \in 0..MaxMinute
      BY <1>0, <2>2, SizesAssumption
    <3>2. cl' \in ClientType
      BY <2>1, <3>1 DEF TypeOK, ClientType
    <3> QED
      BY <2>3, <3>2 DEF TypeOK, ClientType
  <2>5. FetchOK' /\ StreamOK'
    BY <2>1, <2>2, <2>3 DEF TypeOK, BufferType, StreamType, ClientType, FetchOK, StreamOK, Minute
  <2> QED
    BY <2>4, <2>5
<1>3. CASE BootstrapSymbol
  <2>1. cl.fetched \in BootLimit..MaxMinute
    BY <1>0, <1>3, SizesAssumption DEF BootstrapSymbol, FetchOK
  <2>2. /\ buf' \in BufferType
        /\ buf'.conf \subseteq buf'.cand
        /\ Convex(buf'.cand)
    BY <2>1, <1>3, BootstrappedFacts DEF BootstrapSymbol
  <2>3. TypeOK'
    <3>1. 0 \in 0..MaxMinute /\ 0 \in 0..(MaxMinute + 1)
      BY SizesAssumption
    <3>2. cl' \in ClientType
      BY <1>3, <3>1 DEF BootstrapSymbol, TypeOK, ClientType
    <3>3. st' \in StreamType
      BY <1>3 DEF BootstrapSymbol, TypeOK, StreamType
    <3>4. UNCHANGED <<clock, events, handling, session, evals, faults>>
      BY <1>3 DEF BootstrapSymbol
    <3> QED
      BY <2>2, <3>2, <3>3, <3>4 DEF TypeOK, BufferType, StreamType, ClientType
  <2>4. FetchOK' /\ StreamOK'
    BY <1>3, <2>2 DEF BootstrapSymbol, TypeOK, BufferType, StreamType, ClientType, FetchOK, StreamOK
  <2> QED
    BY <2>3, <2>4
<1>4. CASE MarkDisconnected
  <2>1. TypeOK'
    <3>1. 0 \in 0..MaxMinute
      BY SizesAssumption
    <3>2. cl' \in ClientType
      BY <1>4, <3>1 DEF MarkDisconnected, TypeOK, ClientType
    <3>3. st' \in StreamType
      BY <1>4 DEF MarkDisconnected, TypeOK, StreamType
    <3>4. UNCHANGED <<clock, buf, events, handling, session, evals, faults>>
      BY <1>4 DEF MarkDisconnected
    <3> QED
      BY <3>2, <3>3, <3>4 DEF TypeOK, StreamType, ClientType
  <2>2. FetchOK' /\ StreamOK'
    BY <1>4 DEF MarkDisconnected, TypeOK, BufferType, StreamType, ClientType, FetchOK, StreamOK
  <2> QED
    BY <2>1, <2>2
<1>5. CASE MarkEndpointConnected
  <2>1. PICK s \in StreamType :
          /\ st' = Promoted(s, buf) /\ s.stream = st.stream /\ s.book = st.book
          /\ st.pub => s.pub
          /\ st.bus => s.bus
          /\ \/ UNCHANGED cl
             \/ cl' = [cl EXCEPT !.cursor = IF @ = 0 THEN Minute ELSE @]
    <3>1. CASE st' = Promoted([st EXCEPT !.pub = TRUE], buf) /\ UNCHANGED cl
      <4> DEFINE s == [st EXCEPT !.pub = TRUE]
      <4>1. /\ s \in StreamType
            /\ s.stream = st.stream /\ s.book = st.book /\ s.pub /\ s.bus = st.bus
        BY DEF TypeOK, BufferType, StreamType, ClientType
      <4> HIDE DEF s
      <4>2. st' = Promoted(s, buf)
        BY <3>1 DEF s
      <4> QED
        BY <3>1, <4>1, <4>2
    <3>2. CASE /\ st' = Promoted([st EXCEPT !.bus = TRUE], buf)
               /\ cl' = [cl EXCEPT !.cursor = IF @ = 0 THEN Minute ELSE @]
      <4> DEFINE s == [st EXCEPT !.bus = TRUE]
      <4>1. /\ s \in StreamType
            /\ s.stream = st.stream /\ s.book = st.book /\ s.bus /\ s.pub = st.pub
        BY DEF TypeOK, BufferType, StreamType, ClientType
      <4> HIDE DEF s
      <4>2. st' = Promoted(s, buf)
        BY <3>2 DEF s
      <4> QED
        BY <3>2, <4>1, <4>2
    <3> QED
      BY <1>5, <3>1, <3>2 DEF MarkEndpointConnected
  <2>2. UNCHANGED <<clock, buf, events, handling, session, evals, faults>> /\ cl.pc = "run"
    BY <1>5 DEF MarkEndpointConnected
  <2>3. /\ st' \in StreamType
        /\ st'.pub = s.pub /\ st'.bus = s.bus /\ st'.book = st.book
        /\ st'.stream = "CONNECTED" =>
             st.stream = "CONNECTED" \/ (s.pub /\ s.bus /\ buf.complete)
    BY <2>1, PromotedFacts
  <2>4. /\ cl' \in ClientType
        /\ cl'.pc = "run" /\ cl'.booked = cl.booked
    <3>1. cl \in ClientType /\ Minute \in 0..(MaxMinute + 1)
      BY <1>0, SizesAssumption DEF TypeOK, ClientType
    <3>2. CASE UNCHANGED cl
      BY <2>2, <3>1, <3>2
    <3>3. CASE cl' = [cl EXCEPT !.cursor = IF @ = 0 THEN Minute ELSE @]
      BY <2>2, <3>1, <3>3 DEF ClientType
    <3> QED
      BY <2>1, <3>2, <3>3
  <2>5. TypeOK'
    BY <2>2, <2>3, <2>4 DEF TypeOK, BufferType, StreamType, ClientType
  <2>6. FetchOK' /\ StreamOK'
    BY <2>1, <2>2, <2>3, <2>4 DEF FetchOK, StreamOK, Minute
  <2> QED
    BY <2>5, <2>6
<1> QED
  BY <1>1, <1>2, <1>3, <1>4, <1>5 DEF Client

\* The bounded counts of failures and odd rows.
LEMMA FaultCounts ==
    ASSUME TypeOK
    PROVE  /\ faults.failed < MaxFailures =>
                [faults EXCEPT !.failed = @ + 1] \in [failed : 0..MaxFailures, odd : 0..MaxOdd]
           /\ faults.odd < MaxOdd =>
                [faults EXCEPT !.odd = @ + 1] \in [failed : 0..MaxFailures, odd : 0..MaxOdd]
<1>1. faults \in [failed : 0..MaxFailures, odd : 0..MaxOdd]
  BY DEF TypeOK
<1>2. faults.failed \in 0..MaxFailures /\ faults.odd \in 0..MaxOdd
  BY <1>1
<1>3. faults.failed < MaxFailures => faults.failed + 1 \in 0..MaxFailures
  BY <1>2, SizesAssumption
<1>4. faults.odd < MaxOdd => faults.odd + 1 \in 0..MaxOdd
  BY <1>2, SizesAssumption
<1> QED
  BY <1>1, <1>3, <1>4

\* Messages and failures of the connection.
LEMMA MessagesFeed == ASSUME FeedInv, Feed PROVE FeedInv'
<1> USE DEF FeedInv
<1>0. Minute \in 0..MaxMinute /\ cl \in ClientType
  BY MinuteFacts DEF TypeOK, ClientType
<1>1. CASE ResyncFails \/ SocketFails
  <2>1. /\ UNCHANGED <<clock, buf, st, events, handling, session, evals>>
        /\ cl' = [cl EXCEPT !.pc = "broken"]
        /\ faults.failed < MaxFailures
        /\ faults' = [faults EXCEPT !.failed = @ + 1]
    BY <1>1 DEF ResyncFails, SocketFails
  <2>2. cl' \in ClientType /\ cl'.booked = cl.booked /\ cl'.pc = "broken"
    BY <1>0, <2>1 DEF ClientType
  <2>3. faults' \in [failed : 0..MaxFailures, odd : 0..MaxOdd]
    BY <2>1, FaultCounts
  <2>4. TypeOK'
    BY <2>1, <2>2, <2>3 DEF TypeOK, ClientType
  <2>5. FetchOK' /\ StreamOK'
    BY <2>1, <2>2 DEF FetchOK, StreamOK
  <2> QED
    BY <2>4, <2>5
<1>2. CASE ApplyTicker
  <2>1. /\ st' = Promoted(st, buf)
        /\ UNCHANGED <<clock, buf, cl, events, handling, session, evals, faults>>
    BY <1>2 DEF ApplyTicker
  <2>2. st \in StreamType
    BY DEF TypeOK, StreamType
  <2>3. /\ st' \in StreamType /\ st'.pub = st.pub /\ st'.bus = st.bus /\ st'.book = st.book
        /\ st'.stream = "CONNECTED" =>
             st.stream = "CONNECTED" \/ (st.pub /\ st.bus /\ buf.complete)
    BY <2>1, <2>2, PromotedFacts
  <2>4. TypeOK'
    BY <2>1, <2>3 DEF TypeOK, StreamType
  <2>5. FetchOK' /\ StreamOK'
    BY <2>1, <2>3 DEF FetchOK, StreamOK, Minute
  <2> QED
    BY <2>4, <2>5
<1>3. CASE ApplyBook
  <2>0. UNCHANGED <<clock, buf, events, handling, session, evals>>
    BY <1>3 DEF ApplyBook
  <2>1. CASE /\ st' = Promoted([st EXCEPT !.book = TRUE], buf)
             /\ cl' = [cl EXCEPT !.booked = TRUE]
             /\ UNCHANGED faults
    <3> DEFINE s == [st EXCEPT !.book = TRUE]
    <3>1. s \in StreamType /\ s.pub = st.pub /\ s.bus = st.bus /\ s.stream = st.stream
      BY DEF TypeOK, StreamType
    <3> HIDE DEF s
    <3>2. st' = Promoted(s, buf)
      BY <2>1 DEF s
    <3>3. /\ st' \in StreamType /\ st'.pub = st.pub /\ st'.bus = st.bus
          /\ st'.stream = "CONNECTED" =>
               st.stream = "CONNECTED" \/ (st.pub /\ st.bus /\ buf.complete)
      <4>1. /\ Promoted(s, buf) \in StreamType
            /\ Promoted(s, buf).pub = s.pub /\ Promoted(s, buf).bus = s.bus
            /\ Promoted(s, buf).stream = "CONNECTED" =>
                 s.stream = "CONNECTED" \/ (s.pub /\ s.bus /\ buf.complete)
        BY <3>1, PromotedFacts
      <4> QED
        BY <3>1, <3>2, <4>1, Zenon
    <3>4. cl' \in ClientType /\ cl'.booked /\ cl'.pc = cl.pc /\ cl'.fetched = cl.fetched
      BY <1>0, <2>1 DEF ClientType
    <3>5. TypeOK'
      BY <2>0, <2>1, <3>3, <3>4 DEF TypeOK, StreamType, ClientType
    <3>6. FetchOK' /\ StreamOK'
      BY <2>0, <3>3, <3>4 DEF FetchOK, StreamOK, Minute
    <3> QED
      BY <3>5, <3>6
  <2>2. CASE /\ faults.failed < MaxFailures
             /\ faults' = [faults EXCEPT !.failed = @ + 1]
             /\ st' = [st EXCEPT !.stream = "RESYNCING", !.pub = FALSE, !.book = FALSE]
             /\ cl' = [cl EXCEPT !.pc = "broken"]
    <3>1. cl' \in ClientType /\ cl'.booked = cl.booked /\ cl'.pc = "broken"
      BY <1>0, <2>2 DEF ClientType
    <3>2. faults' \in [failed : 0..MaxFailures, odd : 0..MaxOdd]
      BY <2>2, FaultCounts
    <3>3. st' \in StreamType /\ st'.stream # "CONNECTED" /\ ~st'.book
      BY <2>2 DEF TypeOK, StreamType
    <3>4. TypeOK'
      BY <2>0, <3>1, <3>2, <3>3 DEF TypeOK, StreamType, ClientType
    <3>5. FetchOK' /\ StreamOK'
      BY <2>0, <3>1, <3>3 DEF FetchOK, StreamOK
    <3> QED
      BY <3>4, <3>5
  <2> QED
    BY <1>3, <2>1, <2>2 DEF ApplyBook
<1>4. CASE CandleInOrder
  <2> DEFINE t == IF cl.cursor = 0 THEN Minute ELSE cl.cursor
  <2>1. /\ cl.pc = "run" /\ t <= Minute /\ UNCHANGED faults
        /\ \E confirmed \in BOOLEAN :
             /\ ApplyCandle(t, confirmed)
             /\ cl' = [cl EXCEPT !.cursor = IF confirmed THEN t + 1 ELSE t]
    BY <1>4 DEF CandleInOrder
  <2>2. PICK confirmed \in BOOLEAN :
             /\ ApplyCandle(t, confirmed)
             /\ cl' = [cl EXCEPT !.cursor = IF confirmed THEN t + 1 ELSE t]
    BY <2>1
  <2>3. Minute >= 1
    BY MinuteFacts, SizesAssumption DEF FetchOK
  <2>4. t \in Candles
    BY <1>0, <2>1, <2>3, SizesAssumption DEF ClientType, Candles
  <2> HIDE DEF t
  <2>5. t \in 0..(MaxMinute + 1) /\ t + 1 \in 0..(MaxMinute + 1)
    BY <2>4, SizesAssumption DEF Candles
  <2>6. cl' \in ClientType /\ cl'.booked = cl.booked /\ cl'.pc = "run"
    BY <1>0, <2>1, <2>2, <2>5 DEF ClientType
  <2>7. faults' \in [failed : 0..MaxFailures, odd : 0..MaxOdd]
    BY <2>1 DEF TypeOK
  <2> QED
    BY <2>2, <2>4, <2>6, <2>7, ApplyCandleFeed
<1>5. CASE CandleOdd
  <2>1. /\ cl.pc = "run" /\ faults.odd < MaxOdd
        /\ faults' = [faults EXCEPT !.odd = @ + 1]
    BY <1>5 DEF CandleOdd
  <2>2. PICK t \in Candles, confirmed \in BOOLEAN :
          /\ ApplyCandle(t, confirmed)
          /\ cl' = [cl EXCEPT !.cursor = IF t < @ THEN @ ELSE IF confirmed THEN t + 1 ELSE t]
    BY <1>5 DEF CandleOdd
  <2>3. t \in 0..(MaxMinute + 1) /\ t + 1 \in 0..(MaxMinute + 1)
    BY SizesAssumption DEF Candles
  <2>4. cl' \in ClientType /\ cl'.booked = cl.booked /\ cl'.pc = "run"
    BY <1>0, <2>1, <2>2, <2>3 DEF ClientType
  <2>5. faults' \in [failed : 0..MaxFailures, odd : 0..MaxOdd]
    BY <2>1, FaultCounts
  <2> QED
    BY <2>2, <2>4, <2>5, ApplyCandleFeed
<1> QED
  BY <1>1, <1>2, <1>3, <1>4, <1>5 DEF Feed

\* The scheduler, the worker and the clock.
LEMMA WorkerFeed ==
    ASSUME FeedInv, RuntimeTick \/ StartSession \/ TakeEvent \/ GetSnapshot \/ Time
    PROVE  FeedInv'
<1> USE DEF FeedInv
<1>0. /\ Watched \in StreamType /\ Watched.pub = st.pub /\ Watched.bus = st.bus
      /\ Watched.book = st.book /\ (Watched.stream = "CONNECTED" => st.stream = "CONNECTED")
      /\ st \in StreamType
  BY WatchedFacts DEF TypeOK, StreamType
<1>1. ASSUME st' = Watched \/ st' = st, UNCHANGED <<clock, buf, cl>>
      PROVE  FetchOK' /\ StreamOK' /\ st' \in StreamType
  BY <1>0, <1>1 DEF FetchOK, StreamOK, Minute
<1>2. Degraded \in {"RUNNING", "STOPPED", "DEGRADED"} /\ session \in {"RUNNING", "STOPPED", "DEGRADED"}
  BY DEF TypeOK, Degraded
<1>3. CASE RuntimeTick \/ StartSession
  <2>1. /\ st' = Watched /\ session' \in {"RUNNING", "STOPPED", "DEGRADED"}
        /\ UNCHANGED <<clock, buf, cl, events, handling, evals, faults>>
    BY <1>2, <1>3 DEF RuntimeTick, StartSession
  <2>2. TypeOK'
    BY <1>1, <2>1 DEF TypeOK, StreamType
  <2> QED
    BY <1>1, <2>1, <2>2
<1>4. CASE TakeEvent
  <2>1. /\ events.queue \in Seq(Candles) /\ events.queue # <<>>
        /\ events.keys \in Seq(Candles) /\ Len(events.keys) <= KeyCap
        /\ Len(events.queue) <= QueueCap
        /\ events' = [events EXCEPT !.queue = Tail(@)]
        /\ events = [queue |-> events.queue, keys |-> events.keys]
    BY <1>4 DEF TakeEvent, TypeOK
  <2>2. /\ Tail(events.queue) \in Seq(Candles) /\ Len(Tail(events.queue)) <= QueueCap
        /\ Head(events.queue) \in Candles
    BY <2>1, SizesAssumption
  <2>3. events' = [queue |-> Tail(events.queue), keys |-> events.keys]
    BY <2>1
  <2>4. /\ events' \in [queue : Seq(Candles), keys : Seq(Candles)]
        /\ Len(events'.queue) <= QueueCap /\ Len(events'.keys) <= KeyCap
    BY <2>1, <2>2, <2>3
  <2>5. /\ st' = Watched \/ st' = st
        /\ session' \in {"RUNNING", "STOPPED", "DEGRADED"}
        /\ handling' = handling \/ handling' = Head(events.queue)
        /\ UNCHANGED <<clock, buf, cl, evals, faults>>
    BY <1>2, <1>4 DEF TakeEvent
  <2>6. handling' \in 0..MaxMinute
    <3>1. Candles \subseteq 0..MaxMinute
      BY SizesAssumption DEF Candles
    <3>2. handling \in 0..MaxMinute
      BY DEF TypeOK
    <3> QED
      BY <2>2, <2>5, <3>1, <3>2
  <2>7. TypeOK'
    BY <1>1, <2>4, <2>5, <2>6 DEF TypeOK, StreamType
  <2> QED
    BY <1>1, <2>5, <2>7
<1>5. CASE GetSnapshot
  <2>1. /\ st' = Watched /\ handling # 0 /\ handling' = 0
        /\ session' \in {"RUNNING", "STOPPED", "DEGRADED"}
        /\ evals' = evals \/ evals' = [evals EXCEPT ![handling] = @ + 1]
        /\ UNCHANGED <<clock, buf, cl, events, faults>>
    BY <1>2, <1>5 DEF GetSnapshot
  <2>2. handling' \in 0..MaxMinute /\ handling \in Candles
    BY <2>1, SizesAssumption DEF TypeOK, Candles
  <2>3. evals' \in [Candles -> Nat]
    BY <2>1, <2>2 DEF TypeOK
  <2>4. TypeOK'
    BY <1>1, <2>1, <2>2, <2>3 DEF TypeOK, StreamType
  <2> QED
    BY <1>1, <2>1, <2>4
<1>6. CASE Time
  <2>1. /\ clock < 2 * MaxMinute + 1 /\ clock' = clock + 1
        /\ UNCHANGED <<buf, st, cl, events, handling, session, evals, faults>>
    BY <1>6 DEF Time
  <2>2. clock \in 0..(2 * MaxMinute + 1) /\ clock' \in 0..(2 * MaxMinute + 1)
    BY <2>1, SizesAssumption DEF TypeOK
  <2>3. TypeOK'
    BY <2>1, <2>2 DEF TypeOK
  <2>4. Minute' \in Nat /\ Minute \in Nat /\ Minute' >= Minute
    BY <2>1, <2>2, SizesAssumption DEF Minute
  <2>5. FetchOK'
    BY <2>1, <2>2, <2>4, SizesAssumption DEF FetchOK
  <2>6. StreamOK'
    BY <2>1 DEF StreamOK
  <2> QED
    BY <2>3, <2>5, <2>6
<1> QED
  BY <1>3, <1>4, <1>5, <1>6

\* Every step preserves the feed's part of the invariant.
LEMMA FeedStep == FeedInv /\ [Next]_vars => FeedInv'
<1> SUFFICES ASSUME FeedInv, [Next]_vars PROVE FeedInv'
  OBVIOUS
<1>1. CASE UNCHANGED vars
  BY <1>1 DEF vars, FeedInv, TypeOK, FetchOK, StreamOK, Minute
<1>2. CASE Next
  BY <1>2, ClientFeed, MessagesFeed, WorkerFeed DEF Next
<1> QED
  BY <1>1, <1>2

\* Only an analysis on a stream that passed the watchdog evaluates.
LEMMA EvaluationStep ==
    ASSUME FeedInv, [Next]_vars, Evaluates
    PROVE  /\ \A t \in buf.cand : t = Min(buf.cand) \/ t - 1 \in buf.cand
           /\ Max(buf.conf) + 2 >= Minute
           /\ cl.booked /\ st.pub /\ st.bus
<1> USE DEF FeedInv
<1>1. GetSnapshot /\ Watched.stream = "CONNECTED"
  <2>1. ~UNCHANGED evals
    BY DEF Evaluates
  <2>2. ASSUME NEW t, NEW confirmed, ApplyCandle(t, confirmed) PROVE UNCHANGED evals
    BY <2>2 DEF ApplyCandle
  <2>3. CandleInOrder => UNCHANGED evals
    BY <2>2 DEF CandleInOrder
  <2>4. CandleOdd => UNCHANGED evals
    BY <2>2 DEF CandleOdd
  <2>5. Client => UNCHANGED evals
    BY DEF Client, MarkResyncing, FetchHistory, BootstrapSymbol, MarkDisconnected,
           MarkEndpointConnected
  <2>6. Feed => UNCHANGED evals
    BY <2>3, <2>4 DEF Feed, ResyncFails, SocketFails, ApplyTicker, ApplyBook
  <2>7. RuntimeTick \/ StartSession \/ TakeEvent \/ Time => UNCHANGED evals
    BY DEF RuntimeTick, StartSession, TakeEvent, Time
  <2>8. GetSnapshot
    BY <2>1, <2>5, <2>6, <2>7 DEF Next, vars
  <2> QED
    BY <2>1, <2>8 DEF GetSnapshot
<1>2. st.stream = "CONNECTED" /\ ~Unusable
  BY <1>1, WatchedFacts
<1>3. /\ st.pub /\ st.bus /\ st.book /\ buf.complete
      /\ buf.conf # {} /\ ~(clock > 2 * (Max(buf.conf) + 2))
  BY <1>2 DEF Unusable, CandlesStale, StreamOK
<1>4. \A t \in buf.cand : t = Min(buf.cand) \/ t - 1 \in buf.cand
  BY <1>3, ConvexFacts DEF TypeOK, StreamOK
<1>5. Max(buf.conf) \in Candles
  BY <1>3, ExtremesExist, SizesAssumption DEF TypeOK, Candles
<1>6. Max(buf.conf) \in Nat
  BY <1>5, SizesAssumption DEF Candles
<1>7. Max(buf.conf) + 2 >= Minute
  BY <1>3, <1>6, MinuteFacts
<1> QED
  BY <1>3, <1>4, <1>7 DEF StreamOK

\* What the strategy evaluates is gapless, fresh and of the present connection:
\* the step that runs it, get_snapshot, passes the watchdog, and a connected
\* stream has its sockets, its book and a complete buffer.
THEOREM StrategySeesSoundData == Spec => SnapshotSound
<1>1. FeedInv /\ [Next]_vars =>
        [Evaluates => /\ \A t \in buf.cand : t = Min(buf.cand) \/ t - 1 \in buf.cand
                      /\ Max(buf.conf) + 2 >= Minute
                      /\ cl.booked /\ st.pub /\ st.bus]_vars
  BY EvaluationStep
<1> QED
  BY <1>1, FeedInit, FeedStep, PTL DEF Spec, SnapshotSound

(***************************************************************************)
(* The worker: each candle in one place, and its key held.                 *)
(***************************************************************************)
\* What the worker keeps.
WorkInv == PlacesOK /\ KeysOK /\ SpentOK

\* The initial state.
LEMMA WorkInit == Init => WorkInv
BY DEF Init, WorkInv, PlacesOK, KeysOK, SpentOK, Spent, Queued, Candles

\* The client may move, and time pass, as long as the worker's state stays and
\* the feed does not go back behind a candle the worker has.
LEMMA StillStep ==
    ASSUME WorkInv, UNCHANGED <<events, handling, evals>>,
           Minute \in Nat, Minute' \in Nat, Minute' >= Minute,
           cl.cursor \in Nat, cl'.cursor \in Nat, MaxLate \in Nat, Candles \subseteq Nat,
           events.keys \in Seq(Candles),
           cl'.cursor > 0 /\ cl'.pc = "run" =>
               \/ cl'.cursor >= Minute
               \/ cl.cursor > 0 /\ cl.pc = "run" /\ cl'.cursor >= cl.cursor
    PROVE  WorkInv'
<1>1. PlacesOK'
  BY DEF WorkInv, PlacesOK, Queued
<1>2. KeysOK'
  <2>1. \A i \in 1..Len(events.keys) : events.keys[i] \in Candles
    OBVIOUS
  <2>2. \A i \in 1..Len(events.keys) : events.keys[i] \in Nat
    BY <2>1
  <2> QED
    BY <2>2 DEF WorkInv, KeysOK
<1>3. SpentOK'
  <2> SUFFICES ASSUME NEW t \in Candles, Spent(t)'
               PROVE  /\ t < Minute'
                      /\ cl'.cursor > 0 /\ cl'.pc = "run" => t < cl'.cursor
                      /\ Minute' <= t + MaxLate => Held(t)'
    BY DEF SpentOK
  <2>1. Spent(t) /\ t \in Nat
    BY DEF Spent, Queued
  <2>2. /\ t < Minute
        /\ cl.cursor > 0 /\ cl.pc = "run" => t < cl.cursor
        /\ Minute <= t + MaxLate => Held(t)
    BY <2>1 DEF WorkInv, SpentOK
  <2>3. Held(t) => Held(t)'
    BY DEF Held
  <2>4. Minute' <= t + MaxLate => Minute <= t + MaxLate
    BY <2>1
  <2>5. cl'.cursor > 0 /\ cl'.pc = "run" => t < cl'.cursor
    BY <2>1, <2>2
  <2>6. t < Minute'
    BY <2>1, <2>2
  <2> QED
    BY <2>2, <2>3, <2>4, <2>5, <2>6
<1> QED
  BY <1>1, <1>2, <1>3 DEF WorkInv

\* When a key has to go, the oldest one is not of a candle a late row may still
\* confirm: too many other candles would have to lie within MaxLate of it.
LEMMA KeyRoom ==
    ASSUME TypeOK, KeysOK, NEW t \in Candles, NEW k \in Candles,
           Len(events.keys) = KeyCap, Minute <= t + MaxLate, t < Minute,
           ~Contains(events.keys, k), k < Minute, k + MaxLate > t,
           events.keys[1] = t,
           \A j \in 2..Len(events.keys) : events.keys[j] + MaxLate > t
    PROVE  FALSE
<1> DEFINE I == (t + 1 - MaxLate)..(t + MaxLate - 1)
           f == [i \in 0..KeyCap |-> IF i = 0 THEN k ELSE events.keys[i]]
<1>1. /\ events.keys \in Seq(Candles) /\ t \in Nat /\ k \in Nat /\ Minute \in Nat
      /\ KeyCap \in Nat \ {0} /\ MaxLate \in Nat /\ Candles \subseteq Nat
  <2>1. Candles \subseteq Nat
    BY SizesAssumption DEF Candles
  <2>2. Minute \in Nat
    BY MinuteFacts
  <2>3. events.keys \in Seq(Candles)
    BY DEF TypeOK
  <2> QED
    BY <2>1, <2>2, <2>3, SizesAssumption
<1>2. \A i \in 1..KeyCap : events.keys[i] \in Nat /\ events.keys[i] < Minute
  <2>1. \A i \in 1..KeyCap : events.keys[i] \in Candles
    BY <1>1
  <2> QED
    BY <1>1, <2>1 DEF KeysOK
<1>3. f \in [0..KeyCap -> I]
  <2>1. ASSUME NEW i \in 0..KeyCap PROVE f[i] \in I
    <3>1. CASE i = 0
      BY <1>1, <3>1
    <3>2. CASE i = 1
      BY <1>1, <1>2, <3>2
    <3>3. CASE i \in 2..KeyCap
      <4>1. events.keys[i] + MaxLate > t /\ events.keys[i] \in Nat /\ events.keys[i] < Minute
        BY <1>1, <1>2, <3>3
      <4> QED
        BY <1>1, <3>3, <4>1
    <3> QED
      BY <1>1, <3>1, <3>2, <3>3
  <2> QED
    BY <2>1
<1>4. IsFiniteSet(I) /\ Cardinality(I) <= 2 * MaxLate - 1
  <2>1. t + 1 - MaxLate \in Int /\ t + MaxLate - 1 \in Int
    BY <1>1
  <2>2. MaxLate >= 1
    BY <1>1
  <2>3. Cardinality(I) = IF t + 1 - MaxLate > t + MaxLate - 1 THEN 0
                         ELSE (t + MaxLate - 1) - (t + 1 - MaxLate) + 1
    BY <2>1, FS_Interval
  <2> QED
    BY <1>1, <2>1, <2>2, <2>3, FS_Interval
<1>5. IsFiniteSet(0..KeyCap) /\ Cardinality(0..KeyCap) = KeyCap + 1
  BY <1>1, FS_Interval
<1>6. Cardinality(I) \in Nat
  BY <1>4, FS_CardinalityType
<1> HIDE DEF I
<1>7. Cardinality(I) < Cardinality(0..KeyCap)
  BY <1>1, <1>4, <1>5, <1>6, LatenessAssumption
<1>8. PICK i, j \in 0..KeyCap : i # j /\ f[i] = f[j]
  <2> HIDE DEF f
  <2> QED
    BY <1>3, <1>4, <1>5, <1>7, FS_PigeonHole
<1>9. ASSUME NEW i1 \in 0..KeyCap, NEW j1 \in 0..KeyCap, i1 < j1, f[i1] = f[j1] PROVE FALSE
  <2>1. j1 \in 1..KeyCap /\ f[j1] = events.keys[j1]
    BY <1>1, <1>9
  <2>2. CASE i1 = 0
    BY <1>1, <1>9, <2>1, <2>2 DEF Contains
  <2>3. CASE i1 # 0
    <3>1. i1 \in 1..KeyCap /\ f[i1] = events.keys[i1]
      BY <1>1, <2>3
    <3> QED
      BY <1>1, <1>9, <2>1, <3>1 DEF KeysOK
  <2> QED
    BY <2>2, <2>3
<1> QED
  BY <1>1, <1>8, <1>9

\* _on_confirmed_candle for a candle k that the worker has not seen, or whose
\* key is held.
LEMMA AnnounceStep ==
    ASSUME TypeOK, WorkInv, NEW k \in Candles, k < Minute,
           events' = Announced(k), UNCHANGED <<clock, handling, evals>>,
           Spent(k) => Contains(events.keys, k),
           \A t \in Candles : Spent(t) /\ Minute <= t + MaxLate => k + MaxLate > t,
           cl'.cursor > 0 /\ cl'.pc = "run" =>
               k < cl'.cursor /\ \A t \in Candles : Spent(t) => t < cl'.cursor
    PROVE  WorkInv'
<1> DEFINE base == IF Len(events.keys) = KeyCap THEN Tail(events.keys) ELSE events.keys
           HeldIn(s, t) == \E i \in 1..Len(s) :
                             /\ s[i] = t
                             /\ \A j \in (i + 1)..Len(s) : s[j] + MaxLate > t
<1>1. /\ events.keys \in Seq(Candles) /\ events.queue \in Seq(Candles)
      /\ Candles \subseteq Nat /\ k \in Nat /\ Minute \in Nat
      /\ MaxLate \in Nat /\ KeyCap \in Nat \ {0}
      /\ events = [queue |-> events.queue, keys |-> events.keys]
  <2>1. Candles \subseteq Nat
    BY SizesAssumption DEF Candles
  <2>2. Minute \in Nat
    BY MinuteFacts
  <2>3. /\ events.keys \in Seq(Candles) /\ events.queue \in Seq(Candles)
        /\ events = [queue |-> events.queue, keys |-> events.keys]
    BY DEF TypeOK
  <2> QED
    BY <2>1, <2>2, <2>3, SizesAssumption
<1>2. Minute' = Minute
  BY DEF Minute
<1>3. CASE Contains(events.keys, k)
  <2>1. events' = events
    BY <1>3 DEF Announced
  <2>2. PlacesOK' /\ KeysOK'
    BY <1>2, <2>1 DEF WorkInv, PlacesOK, KeysOK, Queued
  <2>3. \A t \in Candles : (Spent(t)' <=> Spent(t)) /\ (Held(t)' <=> Held(t))
    BY <2>1 DEF Spent, Queued, Held
  <2>4. SpentOK'
    BY <1>2, <2>3 DEF WorkInv, SpentOK
  <2> QED
    BY <2>2, <2>4 DEF WorkInv
<1>4. CASE ~Contains(events.keys, k)
  <2>1. /\ base \in Seq(Candles)
        /\ \A i, j \in 1..Len(base) : base[i] = base[j] => i = j
        /\ \A i \in 1..Len(base) : base[i] < Minute /\ base[i] # k
    <3>1. CASE Len(events.keys) = KeyCap
      <4>1. /\ base = Tail(events.keys) /\ Len(base) = Len(events.keys) - 1
            /\ base \in Seq(Candles)
            /\ \A i \in 1..Len(base) : base[i] = events.keys[i + 1] /\ i + 1 \in 1..Len(events.keys)
        BY <1>1, <3>1
      <4> HIDE DEF base
      <4>2. ASSUME NEW i \in 1..Len(base), NEW j \in 1..Len(base), base[i] = base[j]
            PROVE  i = j
        <5>1. i + 1 = j + 1
          BY <4>1, <4>2 DEF WorkInv, KeysOK
        <5> QED
          BY <5>1
      <4>3. ASSUME NEW i \in 1..Len(base) PROVE base[i] < Minute /\ base[i] # k
        BY <1>4, <4>1 DEF WorkInv, KeysOK, Contains
      <4> QED
        BY <4>1, <4>2, <4>3
    <3>2. CASE Len(events.keys) # KeyCap
      BY <1>1, <1>4, <3>2 DEF WorkInv, KeysOK, Contains
    <3> QED
      BY <3>1, <3>2
  <2>2. ASSUME NEW t \in Candles, Spent(t), Minute <= t + MaxLate
        PROVE  HeldIn(base, t)
    <3>1. PICK i \in 1..Len(events.keys) :
              /\ events.keys[i] = t
              /\ \A j \in (i + 1)..Len(events.keys) : events.keys[j] + MaxLate > t
      BY <2>2 DEF WorkInv, SpentOK, Held
    <3>2. CASE Len(events.keys) = KeyCap
      <4>1. i # 1
        <5> SUFFICES ASSUME i = 1 PROVE FALSE
          OBVIOUS
        <5>1. \A j \in 2..Len(events.keys) : events.keys[j] + MaxLate > t
          BY <3>1
        <5>2. k + MaxLate > t /\ t < Minute
          BY <2>2 DEF WorkInv, SpentOK
        <5> QED
          BY <1>4, <2>2, <3>1, <3>2, <5>1, <5>2, KeyRoom DEF WorkInv
      <4>0. base = Tail(events.keys) /\ Len(events.keys) >= 1
        BY <1>1, <3>2
      <4> HIDE DEF base
      <4>2. /\ Len(base) = Len(events.keys) - 1
            /\ \A j \in 1..Len(base) : base[j] = events.keys[j + 1]
            /\ Len(events.keys) \in Nat
        BY <1>1, <4>0
      <4>3. i - 1 \in 1..Len(base) /\ base[i - 1] = t
        BY <4>1, <4>2, <3>1
      <4>4. ASSUME NEW j \in ((i - 1) + 1)..Len(base) PROVE base[j] + MaxLate > t
        <5>1. j \in 1..Len(base) /\ j + 1 \in (i + 1)..Len(events.keys)
          BY <4>1, <4>2, <4>4
        <5> QED
          BY <3>1, <4>2, <5>1
      <4> QED
        BY <4>3, <4>4
    <3>3. CASE Len(events.keys) # KeyCap
      BY <3>1, <3>3
    <3> QED
      BY <3>2, <3>3
  <2> HIDE DEF base
  <2>3. CASE Len(events.queue) < QueueCap
    <3>1. /\ events'.queue = Append(events.queue, k)
          /\ events'.keys = Append(base, k)
      BY <1>4, <2>3 DEF Announced, base
    <3>2. /\ Len(events'.queue) = Len(events.queue) + 1
          /\ events'.queue[Len(events.queue) + 1] = k
          /\ \A i \in 1..Len(events.queue) : events'.queue[i] = events.queue[i]
          /\ Len(events.queue) \in Nat
      BY <1>1, <3>1
    <3>3. /\ Len(events'.keys) = Len(base) + 1
          /\ events'.keys[Len(base) + 1] = k
          /\ \A i \in 1..Len(base) : events'.keys[i] = base[i]
          /\ Len(base) \in Nat
      BY <2>1, <3>1
    <3>4. ~Spent(k)
      BY <1>4
    <3>5. ASSUME NEW t \in Candles PROVE Queued(t)' <=> Queued(t) \/ t = k
      <4>1. Queued(t)' => Queued(t) \/ t = k
        <5> SUFFICES ASSUME NEW i \in 1..Len(events'.queue), events'.queue[i] = t
                     PROVE  Queued(t) \/ t = k
          BY DEF Queued
        <5>1. i \in 1..Len(events.queue) \/ i = Len(events.queue) + 1
          BY <3>2
        <5> QED
          BY <3>2, <5>1 DEF Queued
      <4>2. Queued(t) => Queued(t)'
        <5> SUFFICES ASSUME NEW i \in 1..Len(events.queue), events.queue[i] = t
                     PROVE  Queued(t)'
          BY DEF Queued
        <5>1. i \in 1..Len(events'.queue) /\ events'.queue[i] = t
          BY <3>2
        <5> QED
          BY <5>1 DEF Queued
      <4>3. Queued(k)'
        <5>1. Len(events.queue) + 1 \in 1..Len(events'.queue)
          BY <3>2
        <5> QED
          BY <3>2, <5>1 DEF Queued
      <4> QED
        BY <4>1, <4>2, <4>3
    <3>6. PlacesOK'
      <4>1. \A t \in Candles : evals'[t] \in {0, 1}
        BY DEF WorkInv, PlacesOK
      <4>2. evals[k] \in {0, 1} /\ evals[k] # 1 /\ handling # k
        <5>1. evals[k] \in {0, 1}
          BY DEF WorkInv, PlacesOK
        <5> QED
          BY <3>4, <5>1 DEF Spent
      <4>3. \A t \in Candles : evals'[t] = 1 => handling' # t /\ ~Queued(t)'
        BY <3>5, <4>2 DEF WorkInv, PlacesOK
      <4>4. \A t \in Candles : handling' = t => ~Queued(t)'
        BY <3>5, <4>2 DEF WorkInv, PlacesOK
      <4>5. ASSUME NEW i \in 1..Len(events'.queue), NEW j \in 1..Len(events'.queue),
                   events'.queue[i] = events'.queue[j]
            PROVE  i = j
        <5>1. \A n \in 1..Len(events.queue) : events.queue[n] # k
          BY <3>4 DEF Spent, Queued
        <5>2. /\ i \in 1..Len(events.queue) \/ i = Len(events.queue) + 1
              /\ j \in 1..Len(events.queue) \/ j = Len(events.queue) + 1
          BY <3>2
        <5> QED
          BY <3>2, <4>5, <5>1, <5>2 DEF WorkInv, PlacesOK
      <4> QED
        BY <4>1, <4>3, <4>4, <4>5 DEF PlacesOK
    <3>7. KeysOK'
      <4>0. ASSUME NEW i \in 1..Len(events'.keys)
            PROVE  i \in 1..Len(base) \/ i = Len(base) + 1
        BY <3>3
      <4>1. ASSUME NEW i \in 1..Len(events'.keys), NEW j \in 1..Len(events'.keys),
                   events'.keys[i] = events'.keys[j]
            PROVE  i = j
        BY <2>1, <3>3, <4>0, <4>1
      <4>2. ASSUME NEW i \in 1..Len(events'.keys) PROVE events'.keys[i] < Minute'
        BY <1>2, <2>1, <3>3, <4>0
      <4> QED
        BY <4>1, <4>2 DEF KeysOK
    <3>8. SpentOK'
      <4> SUFFICES ASSUME NEW t \in Candles, Spent(t)'
                   PROVE  /\ t < Minute'
                          /\ cl'.cursor > 0 /\ cl'.pc = "run" => t < cl'.cursor
                          /\ Minute' <= t + MaxLate => Held(t)'
        BY DEF SpentOK
      <4>1. Spent(t) \/ t = k
        BY <3>5 DEF Spent
      <4>2. t < Minute' /\ (cl'.cursor > 0 /\ cl'.pc = "run" => t < cl'.cursor)
        BY <1>2, <4>1 DEF WorkInv, SpentOK
      <4>3. CASE t = k
        <5>1. Len(base) + 1 \in 1..Len(events'.keys)
              /\ ((Len(base) + 1) + 1)..Len(events'.keys) = {}
          BY <3>3
        <5>2. Held(t)'
          BY <3>3, <4>3, <5>1 DEF Held
        <5> QED
          BY <4>2, <5>2
      <4>4. CASE Spent(t) /\ Minute <= t + MaxLate
        <5>1. PICK i \in 1..Len(base) :
                  /\ base[i] = t
                  /\ \A j \in (i + 1)..Len(base) : base[j] + MaxLate > t
          BY <2>2, <4>4
        <5>2. i \in 1..Len(events'.keys) /\ events'.keys[i] = t
          BY <3>3, <5>1
        <5>3. ASSUME NEW j \in (i + 1)..Len(events'.keys)
              PROVE  events'.keys[j] + MaxLate > t
          <6>1. j \in (i + 1)..Len(base) \/ j = Len(base) + 1
            BY <3>3, <5>3
          <6>2. j \in (i + 1)..Len(base) => j \in 1..Len(base)
            BY <3>3
          <6>3. k + MaxLate > t
            BY <4>4
          <6> QED
            BY <3>3, <5>1, <6>1, <6>2, <6>3
        <5>4. Held(t)'
          BY <5>2, <5>3 DEF Held
        <5> QED
          BY <4>2, <5>4
      <4> QED
        BY <1>2, <4>1, <4>2, <4>3, <4>4
    <3> QED
      BY <3>6, <3>7, <3>8 DEF WorkInv
  <2>4. CASE ~(Len(events.queue) < QueueCap)
    <3>1. Front(Append(base, k)) = base
      BY <2>1 DEF Front
    <3>2. events' = [events EXCEPT !.keys = base]
      BY <1>4, <2>4, <3>1 DEF Announced, base
    <3>3. events'.queue = events.queue /\ events'.keys = base
      BY <1>1, <3>2
    <3>4. \A t \in Candles : (Queued(t)' <=> Queued(t)) /\ (Spent(t)' <=> Spent(t))
      BY <3>3 DEF Spent, Queued
    <3>5. PlacesOK'
      BY <3>3, <3>4 DEF WorkInv, PlacesOK
    <3>6. KeysOK'
      BY <1>2, <2>1, <3>3 DEF KeysOK
    <3>7. SpentOK'
      <4> SUFFICES ASSUME NEW t \in Candles, Spent(t)'
                   PROVE  /\ t < Minute'
                          /\ cl'.cursor > 0 /\ cl'.pc = "run" => t < cl'.cursor
                          /\ Minute' <= t + MaxLate => Held(t)'
        BY DEF SpentOK
      <4>1. Spent(t)
        BY <3>4
      <4>2. Minute' <= t + MaxLate => Held(t)'
        BY <1>2, <2>2, <3>3, <4>1 DEF Held
      <4> QED
        BY <1>2, <4>1, <4>2 DEF WorkInv, SpentOK
    <3> QED
      BY <3>5, <3>6, <3>7 DEF WorkInv
  <2> QED
    BY <2>3, <2>4
<1> QED
  BY <1>3, <1>4

\* A row of the feed, in its order or late by at most MaxLate, and its callback.
LEMMA RowStep ==
    ASSUME FeedInv, WorkInv, NEW t \in Candles, NEW confirmed \in BOOLEAN,
           ApplyCandle(t, confirmed), confirmed => t < Minute,
           cl.pc = "run", cl'.cursor \in Nat,
           (cl.cursor > 0 /\ t < cl.cursor) => Minute <= t + MaxLate,
           cl.cursor = 0 => t = Minute,
           cl'.cursor >= cl.cursor, cl'.cursor >= t, confirmed => cl'.cursor > t
    PROVE  WorkInv'
<1>0. /\ Minute \in Nat /\ Candles \subseteq Nat /\ cl.cursor \in Nat /\ MaxLate \in Nat
      /\ events.keys \in Seq(Candles)
  <2>1. Candles \subseteq Nat
    BY SizesAssumption DEF Candles
  <2>2. Minute \in Nat
    BY MinuteFacts DEF FeedInv
  <2>3. cl.cursor \in Nat /\ events.keys \in Seq(Candles)
    BY SizesAssumption DEF FeedInv, TypeOK
  <2> QED
    BY <2>1, <2>2, <2>3, SizesAssumption
<1>1. UNCHANGED <<clock, handling, evals>> /\ Minute' = Minute /\ t \in Nat
  BY <1>0 DEF ApplyCandle, Minute
<1>2. CASE ~ConfirmedEvent(t, confirmed)
  <2>1. UNCHANGED <<events, handling, evals>>
    BY <1>1, <1>2 DEF ApplyCandle
  <2>2. cl'.cursor > 0 /\ cl'.pc = "run" =>
               \/ cl'.cursor >= Minute
               \/ cl.cursor > 0 /\ cl.pc = "run" /\ cl'.cursor >= cl.cursor
    BY <1>0, <1>1
  <2> QED
    BY <1>0, <1>1, <2>1, <2>2, StillStep
<1>3. CASE ConfirmedEvent(t, confirmed)
  <2>1. events' = Announced(t) /\ confirmed /\ t < Minute /\ t < cl'.cursor /\ cl.cursor > 0
    BY <1>0, <1>1, <1>3 DEF ApplyCandle, ConfirmedEvent
  <2>2. ASSUME NEW u \in Candles, Spent(u)
        PROVE  /\ u < Minute /\ u < cl.cursor
               /\ Minute <= u + MaxLate => Held(u)
    BY <2>1, <2>2 DEF WorkInv, SpentOK
  <2>3. ASSUME NEW u \in Candles, Spent(u), Minute <= u + MaxLate PROVE t + MaxLate > u
    <3>1. u \in Nat /\ u < Minute /\ u < cl.cursor
      BY <1>0, <2>2, <2>3
    <3>2. CASE t < cl.cursor
      BY <1>0, <1>1, <2>1, <3>1, <3>2
    <3>3. CASE ~(t < cl.cursor)
      BY <1>0, <1>1, <3>1, <3>3
    <3> QED
      BY <3>2, <3>3
  <2>4. ASSUME Spent(t) PROVE Contains(events.keys, t)
    <3>1. t < cl.cursor /\ Minute <= t + MaxLate
      BY <2>1, <2>2, <2>4
    <3>2. Held(t)
      BY <2>2, <2>4, <3>1
    <3> QED
      BY <3>2 DEF Held, Contains
  <2>5. \A u \in Candles : Spent(u) => u < cl'.cursor
    BY <1>0, <2>2
  <2> QED
    BY <1>1, <2>1, <2>3, <2>4, <2>5, AnnounceStep DEF FeedInv
<1> QED
  BY <1>2, <1>3

\* Every step preserves the worker's part of the invariant.
LEMMA WorkStep == FeedInv /\ WorkInv /\ [Next]_vars => WorkInv'
<1> SUFFICES ASSUME FeedInv, WorkInv, [Next]_vars PROVE WorkInv'
  OBVIOUS
<1>0. /\ Minute \in Nat /\ Candles \subseteq Nat /\ cl.cursor \in Nat /\ MaxLate \in Nat
      /\ events.keys \in Seq(Candles) /\ events.queue \in Seq(Candles)
      /\ cl'.cursor \in Nat /\ Minute' \in Nat /\ handling \in Nat
      /\ cl \in ClientType
  <2>1. Candles \subseteq Nat
    BY SizesAssumption DEF Candles
  <2>2. Minute \in Nat /\ TypeOK'
    BY MinuteFacts, FeedStep DEF FeedInv
  <2>3. cl.cursor \in Nat /\ cl'.cursor \in Nat
    BY <2>2, SizesAssumption DEF FeedInv, TypeOK
  <2>4. clock' \in Nat
    BY <2>2, SizesAssumption DEF TypeOK
  <2>5. Minute' \in Nat
    <3>1. \A c \in Nat : c \div 2 \in Nat
      OBVIOUS
    <3> QED
      BY <2>4, <3>1 DEF Minute
  <2>6. /\ events.keys \in Seq(Candles) /\ events.queue \in Seq(Candles)
        /\ handling \in Nat /\ cl \in ClientType
    BY SizesAssumption DEF FeedInv, TypeOK, ClientType
  <2> QED
    BY <2>1, <2>2, <2>3, <2>5, <2>6, SizesAssumption
<1>1. ASSUME UNCHANGED <<clock, events, handling, evals>>,
             \/ UNCHANGED cl
             \/ cl'.cursor = 0
             \/ cl'.pc # "run"
             \/ cl'.cursor = Minute
      PROVE  WorkInv'
  <2>1. Minute' = Minute
    BY <1>1 DEF Minute
  <2>2. cl'.cursor > 0 /\ cl'.pc = "run" =>
               \/ cl'.cursor >= Minute
               \/ cl.cursor > 0 /\ cl.pc = "run" /\ cl'.cursor >= cl.cursor
    BY <1>0, <1>1
  <2> QED
    BY <1>0, <1>1, <2>1, <2>2, StillStep
<1>2. CASE UNCHANGED vars
  BY <1>1, <1>2 DEF vars
<1>3. CASE MarkResyncing \/ FetchHistory
  <2>1. /\ cl'.pc # "run"
        /\ UNCHANGED <<clock, events, handling, evals>>
    BY <1>0, <1>3 DEF MarkResyncing, FetchHistory, ClientType
  <2> QED
    BY <1>1, <2>1
<1>4. CASE BootstrapSymbol \/ MarkDisconnected
  <2>1. /\ cl'.cursor = 0 \/ cl'.pc # "run"
        /\ UNCHANGED <<clock, events, handling, evals>>
    BY <1>0, <1>4 DEF BootstrapSymbol, MarkDisconnected, ClientType
  <2> QED
    BY <1>1, <2>1
<1>5. CASE MarkEndpointConnected
  <2>1. /\ UNCHANGED <<clock, events, handling, evals>>
        /\ UNCHANGED cl \/ cl' = [cl EXCEPT !.cursor = IF @ = 0 THEN Minute ELSE @]
    BY <1>5 DEF MarkEndpointConnected
  <2>2. UNCHANGED cl \/ cl'.cursor = Minute
    <3>1. CASE cl.cursor = 0 /\ cl' = [cl EXCEPT !.cursor = IF @ = 0 THEN Minute ELSE @]
      BY <1>0, <3>1 DEF ClientType
    <3>2. CASE cl.cursor # 0 /\ cl' = [cl EXCEPT !.cursor = IF @ = 0 THEN Minute ELSE @]
      BY <1>0, <3>2 DEF ClientType
    <3> QED
      BY <2>1, <3>1, <3>2
  <2> QED
    BY <1>1, <2>1, <2>2
<1>6. CASE ResyncFails \/ SocketFails \/ ApplyTicker
  <2>1. /\ UNCHANGED cl \/ cl'.pc # "run"
        /\ UNCHANGED <<clock, events, handling, evals>>
    BY <1>0, <1>6 DEF ResyncFails, SocketFails, ApplyTicker, ClientType
  <2> QED
    BY <1>1, <2>1
<1>7. CASE ApplyBook
  <2>1. UNCHANGED <<clock, events, handling, evals>>
    BY <1>7 DEF ApplyBook
  <2>2. CASE cl' = [cl EXCEPT !.booked = TRUE]
    <3>1. cl'.cursor = cl.cursor /\ cl'.pc = cl.pc
      BY <1>0, <2>2 DEF ClientType
    <3>2. Minute' = Minute
      BY <2>1 DEF Minute
    <3> QED
      BY <1>0, <2>1, <3>1, <3>2, StillStep
  <2>3. CASE cl' = [cl EXCEPT !.pc = "broken"]
    <3>1. cl'.pc # "run"
      BY <1>0, <2>3 DEF ClientType
    <3> QED
      BY <1>1, <2>1, <3>1
  <2> QED
    BY <1>7, <2>2, <2>3 DEF ApplyBook
<1>8. CASE CandleInOrder
  <2> DEFINE t == IF cl.cursor = 0 THEN Minute ELSE cl.cursor
  <2>1. /\ cl.pc = "run" /\ t <= Minute
        /\ \E confirmed \in BOOLEAN :
             /\ confirmed => t < Minute
             /\ ApplyCandle(t, confirmed)
             /\ cl' = [cl EXCEPT !.cursor = IF confirmed THEN t + 1 ELSE t]
    BY <1>8 DEF CandleInOrder
  <2>2. PICK confirmed \in BOOLEAN :
             /\ confirmed => t < Minute
             /\ ApplyCandle(t, confirmed)
             /\ cl' = [cl EXCEPT !.cursor = IF confirmed THEN t + 1 ELSE t]
    BY <2>1
  <2>3. Minute \in 1..MaxMinute
    BY MinuteFacts, SizesAssumption DEF FeedInv, FetchOK
  <2>4. t \in Candles /\ t \in Nat
    BY <1>0, <2>1, <2>3, SizesAssumption DEF Candles
  <2>5. (cl.cursor = 0 => t = Minute) /\ t >= cl.cursor
    BY <1>0
  <2> HIDE DEF t
  <2>6. cl'.cursor = IF confirmed THEN t + 1 ELSE t
    BY <1>0, <2>2 DEF ClientType
  <2> QED
    BY <1>0, <2>1, <2>2, <2>4, <2>5, <2>6, RowStep
<1>9. CASE CandleOdd
  <2>1. PICK t \in Candles, confirmed \in BOOLEAN :
          /\ t # cl.cursor /\ Minute <= t + MaxLate
          /\ confirmed => t < Minute
          /\ ApplyCandle(t, confirmed)
          /\ cl' = [cl EXCEPT !.cursor = IF t < @ THEN @ ELSE IF confirmed THEN t + 1 ELSE t]
    BY <1>9 DEF CandleOdd
  <2>2. cl.pc = "run" /\ cl.cursor > 0 /\ t \in Nat
    BY <1>0, <1>9 DEF CandleOdd
  <2>3. cl'.cursor = IF t < cl.cursor THEN cl.cursor ELSE IF confirmed THEN t + 1 ELSE t
    BY <1>0, <2>1 DEF ClientType
  <2>4. cl'.cursor >= cl.cursor /\ cl'.cursor >= t /\ (confirmed => cl'.cursor > t)
    BY <1>0, <2>2, <2>3
  <2> QED
    BY <1>0, <2>1, <2>2, <2>4, RowStep
<1>10. CASE RuntimeTick \/ StartSession
  <2>1. UNCHANGED <<clock, cl, events, handling, evals>>
    BY <1>10 DEF RuntimeTick, StartSession
  <2> QED
    BY <1>1, <2>1
<1>11. CASE Time
  <2>1. clock' = clock + 1 /\ UNCHANGED <<cl, events, handling, evals>>
    BY <1>11 DEF Time
  <2>2. Minute' >= Minute
    BY <2>1, MinuteFacts DEF FeedInv, Minute
  <2> QED
    BY <1>0, <2>1, <2>2, StillStep
<1>12. CASE TakeEvent
  <2>0. PICK h \in Candles : h = Head(events.queue)
    BY <1>0, <1>12 DEF TakeEvent
  <2>1. /\ handling = 0 /\ events.queue # <<>>
        /\ events'.queue = Tail(events.queue) /\ events'.keys = events.keys
        /\ handling' = 0 \/ handling' = h
        /\ UNCHANGED <<clock, cl, evals>>
    BY <1>12, <2>0 DEF TakeEvent, FeedInv, TypeOK
  <2>2. /\ h = events.queue[1]
        /\ Len(events.queue) \in Nat /\ Len(events.queue) >= 1
        /\ Len(events'.queue) = Len(events.queue) - 1
        /\ \A i \in 1..Len(events'.queue) : events'.queue[i] = events.queue[i + 1]
    BY <1>0, <2>0, <2>1
  <2>3. \A i \in 1..Len(events'.queue) : i + 1 \in 1..Len(events.queue)
    BY <2>2
  <2>4. \A t \in Candles : Queued(t)' => Queued(t)
    BY <2>2, <2>3 DEF Queued
  <2>5. Queued(h)
    BY <2>2 DEF Queued
  <2>6. ~Queued(h)'
    <3> SUFFICES ASSUME NEW i \in 1..Len(events'.queue), events'.queue[i] = h PROVE FALSE
      BY DEF Queued
    <3>1. i + 1 = 1
      BY <2>2, <2>3 DEF WorkInv, PlacesOK
    <3> QED
      BY <3>1
  <2>7. PlacesOK'
    <3>1. \A t \in Candles : evals'[t] = 1 => handling' # t /\ ~Queued(t)'
      <4> SUFFICES ASSUME NEW t \in Candles, evals[t] = 1 PROVE handling' # t /\ ~Queued(t)'
        BY <2>1
      <4>1. ~Queued(t)
        BY DEF WorkInv, PlacesOK
      <4>2. t # 0
        BY SizesAssumption DEF Candles
      <4> QED
        BY <2>1, <2>4, <2>5, <4>1, <4>2
    <3>2. \A t \in Candles : handling' = t => ~Queued(t)'
      <4>1. \A t \in Candles : t # 0
        BY SizesAssumption DEF Candles
      <4> QED
        BY <2>1, <2>6, <4>1
    <3>3. ASSUME NEW i \in 1..Len(events'.queue), NEW j \in 1..Len(events'.queue),
                 events'.queue[i] = events'.queue[j]
          PROVE  i = j
      <4>0. /\ i + 1 \in 1..Len(events.queue) /\ j + 1 \in 1..Len(events.queue)
            /\ events.queue[i + 1] = events.queue[j + 1]
        BY <2>2, <2>3, <3>3
      <4>1. i + 1 = j + 1
        BY <4>0 DEF WorkInv, PlacesOK
      <4> QED
        BY <4>1
    <3> QED
      BY <2>1, <3>1, <3>2, <3>3 DEF WorkInv, PlacesOK
  <2>8. KeysOK'
    BY <2>1 DEF WorkInv, KeysOK, Minute
  <2>9. SpentOK'
    <3>1. \A t \in Candles : Spent(t)' => Spent(t)
      <4>1. \A t \in Candles : t # 0
        BY SizesAssumption DEF Candles
      <4> QED
        BY <2>1, <2>4, <2>5, <4>1 DEF Spent
    <3>2. \A t \in Candles : Held(t) => Held(t)'
      BY <2>1 DEF Held
    <3>3. Minute' = Minute
      BY <2>1 DEF Minute
    <3> QED
      BY <2>1, <3>1, <3>2, <3>3 DEF WorkInv, SpentOK
  <2> QED
    BY <2>7, <2>8, <2>9 DEF WorkInv
<1>13. CASE GetSnapshot
  <2>1. /\ handling # 0 /\ handling' = 0 /\ UNCHANGED <<clock, cl, events>>
        /\ evals' = evals \/ evals' = [evals EXCEPT ![handling] = @ + 1]
    BY <1>13 DEF GetSnapshot
  <2>2. handling \in Candles /\ evals \in [Candles -> Nat]
    BY <2>1, SizesAssumption DEF FeedInv, TypeOK, Candles
  <2>3. \A t \in Candles : Queued(t)' <=> Queued(t)
    BY <2>1 DEF Queued
  <2>4. evals[handling] = 0 /\ ~Queued(handling)
    BY <2>2 DEF WorkInv, PlacesOK
  <2>5. \A t \in Candles : evals'[t] = evals[t] \/ (t = handling /\ evals'[t] = 1)
    BY <2>1, <2>2, <2>4
  <2>6. PlacesOK'
    <3>1. \A t \in Candles : evals'[t] \in {0, 1}
      BY <2>5 DEF WorkInv, PlacesOK
    <3>2. \A t \in Candles : evals'[t] = 1 => handling' # t /\ ~Queued(t)'
      <4>1. \A t \in Candles : t # 0
        BY SizesAssumption DEF Candles
      <4> QED
        BY <2>1, <2>3, <2>4, <2>5, <4>1 DEF WorkInv, PlacesOK
    <3>3. \A t \in Candles : handling' = t => ~Queued(t)'
      <4>1. \A t \in Candles : t # 0
        BY SizesAssumption DEF Candles
      <4> QED
        BY <2>1, <4>1
    <3> QED
      BY <2>1, <3>1, <3>2, <3>3 DEF WorkInv, PlacesOK
  <2>7. KeysOK'
    BY <2>1 DEF WorkInv, KeysOK, Minute
  <2>8. SpentOK'
    <3>1. \A t \in Candles : Spent(t)' => Spent(t)
      <4>1. \A t \in Candles : t # 0
        BY SizesAssumption DEF Candles
      <4> QED
        BY <2>1, <2>3, <2>5, <4>1 DEF Spent
    <3>2. \A t \in Candles : Held(t) => Held(t)'
      BY <2>1 DEF Held
    <3>3. Minute' = Minute
      BY <2>1 DEF Minute
    <3> QED
      BY <2>1, <3>1, <3>2, <3>3 DEF WorkInv, SpentOK
  <2> QED
    BY <2>6, <2>7, <2>8 DEF WorkInv
<1> QED
  BY <1>2, <1>3, <1>4, <1>5, <1>6, <1>7, <1>8, <1>9, <1>10, <1>11, <1>12, <1>13
     DEF Next, Client, Feed

\* The inductive invariant holds in every reachable state.
THEOREM Invariance == Spec => []IInv
<1>1. Init => FeedInv /\ WorkInv
  BY FeedInit, WorkInit
<1>2. FeedInv /\ WorkInv /\ [Next]_vars => FeedInv' /\ WorkInv'
  BY FeedStep, WorkStep
<1>3. FeedInv /\ WorkInv => IInv
  BY DEF FeedInv, WorkInv, IInv
<1> QED
  BY <1>1, <1>2, <1>3, PTL DEF Spec

\* A confirmed candle is evaluated at most once, although a bootstrap may show it
\* forming again and rows repeat: it is in one place of the worker, and its key
\* is held as long as a row may confirm it again.
THEOREM CandleEvaluatedOnce == Spec => []EvaluatedOnce
<1>1. IInv => EvaluatedOnce
  <2> SUFFICES ASSUME IInv, NEW t \in Candles PROVE evals[t] <= 1
    BY DEF EvaluatedOnce
  <2>1. evals[t] \in {0, 1}
    BY DEF IInv, PlacesOK
  <2> QED
    BY <2>1
<1> QED
  BY <1>1, Invariance, PTL
=============================================================================
