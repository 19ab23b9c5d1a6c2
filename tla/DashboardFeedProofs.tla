------------------------ MODULE DashboardFeedProofs ------------------------
(***************************************************************************)
(* Proofs about DashboardFeed, for every set of threads, number of account *)
(* versions and size of the event deque: the single-flight gate lets one   *)
(* caller load, and a browser that has its snapshot and every event since  *)
(* displays the account the service shows.                                 *)
(***************************************************************************)
EXTENDS DashboardFeed, FiniteSetTheorems, SequenceTheorems,
        WellFoundedInduction, TLAPS

\* The types of a thread, the synchroniser and the client (TypeOK).
ThreadType == [pc : ThreadPCs, got : 0..MaxVersion, overlap : BOOLEAN]
SyncType == [running : BOOLEAN, last : 0..MaxVersion, recent : BOOLEAN, closed : BOOLEAN]
ClientType == [pc : {"off", "sequence", "body", "greet", "loop", "closing"},
               reg : BOOLEAN, stream : BOOLEAN, account : 0..MaxVersion,
               behind : 0..(MaxEvents + 1), whole : BOOLEAN]

(***************************************************************************)
(* The deque, counted from its end.                                        *)
(***************************************************************************)
\* The last n events are about something else than the account.
Quiet(s, n) == \A k \in 0..(n - 1) : s[Len(s) - k] = Other

\* Of the last n events, the last one about the account carries version v.
Latest(s, n, v) ==
    /\ v # Other
    /\ \E k \in 0..(n - 1) : /\ s[Len(s) - k] = v
                             /\ \A j \in 0..(k - 1) : s[Len(s) - j] = Other

\* The deque after an emission.
Pushed(s, e) == IF Len(s) + 1 > MaxEvents THEN Tail(Append(s, e)) ELSE Append(s, e)

\* An emission puts the event last, keeps the bound and moves every other
\* event that stays by one place.
LEMMA PushedFacts ==
    ASSUME NEW s \in Seq(Events), Len(s) <= MaxEvents, NEW e \in Events
    PROVE  /\ Pushed(s, e) \in Seq(Events)
           /\ Len(Pushed(s, e)) \in 1..MaxEvents
           /\ Len(Pushed(s, e)) \in {Len(s), Len(s) + 1}
           /\ Pushed(s, e)[Len(Pushed(s, e))] = e
           /\ \A k \in 1..(Len(Pushed(s, e)) - 1) :
                 Pushed(s, e)[Len(Pushed(s, e)) - k] = s[Len(s) - (k - 1)]
<1>1. PICK all : all = Append(s, e)
  OBVIOUS
<1>2. /\ all \in Seq(Events) /\ Len(all) = Len(s) + 1 /\ all[Len(all)] = e
      /\ \A i \in 1..Len(s) : all[i] = s[i]
  BY <1>1
<1>3. MaxEvents \in Nat \ {0} /\ Len(s) \in Nat
  BY BoundsAssumption
<1>4. CASE Len(s) + 1 > MaxEvents
  <2>1. Pushed(s, e) = Tail(all)
    BY <1>1, <1>4 DEF Pushed
  <2>2. /\ Tail(all) \in Seq(Events) /\ Len(Tail(all)) = Len(s)
        /\ \A i \in 1..Len(s) : Tail(all)[i] = all[i + 1]
    BY <1>2
  <2>3. Len(Tail(all)) = Len(s) /\ Len(s) \in 1..MaxEvents /\ Tail(all)[Len(s)] = e
    BY <1>2, <1>3, <1>4, <2>2
  <2>4. ASSUME NEW k \in 1..(Len(s) - 1)
        PROVE  Tail(all)[Len(s) - k] = s[Len(s) - (k - 1)]
    BY <1>2, <1>3, <2>2
  <2> QED
    BY <2>1, <2>2, <2>3, <2>4
<1>5. CASE ~(Len(s) + 1 > MaxEvents)
  <2>1. Pushed(s, e) = all
    BY <1>1, <1>5 DEF Pushed
  <2> QED
    BY <1>2, <1>3, <1>5, <2>1
<1> QED
  BY <1>4, <1>5

\* An event about something else changes neither.
LEMMA PushOther ==
    ASSUME NEW s \in Seq(Events), Len(s) <= MaxEvents, NEW n \in Nat, NEW v,
           n + 1 <= Len(Pushed(s, Other))
    PROVE  /\ n <= Len(s)
           /\ Quiet(s, n) => Quiet(Pushed(s, Other), n + 1)
           /\ Latest(s, n, v) => Latest(Pushed(s, Other), n + 1, v)
<1>0. Other \in Events
  BY DEF Events
<1>1. PICK w, l : w = Pushed(s, Other) /\ l = Len(w)
  OBVIOUS
<1>2. /\ l \in 1..MaxEvents /\ l \in {Len(s), Len(s) + 1} /\ w[l] = Other
      /\ \A k \in 1..(l - 1) : w[l - k] = s[Len(s) - (k - 1)]
  <2>1. /\ Len(Pushed(s, Other)) \in 1..MaxEvents
        /\ Len(Pushed(s, Other)) \in {Len(s), Len(s) + 1}
        /\ Pushed(s, Other)[Len(Pushed(s, Other))] = Other
        /\ \A k \in 1..(Len(Pushed(s, Other)) - 1) :
              Pushed(s, Other)[Len(Pushed(s, Other)) - k] = s[Len(s) - (k - 1)]
    BY <1>0, PushedFacts
  <2> QED
    BY <1>1, <2>1, Zenon
<1>3. n + 1 <= l /\ Len(s) \in Nat /\ l \in Nat /\ l = Len(w)
  BY <1>1, <1>2, BoundsAssumption
<1>4. n <= Len(s)
  BY <1>2, <1>3
<1>5. ASSUME NEW k \in Nat, k < n PROVE w[l - (k + 1)] = s[Len(s) - k]
  <2>1. k + 1 \in 1..(l - 1) /\ (k + 1) - 1 = k
    BY <1>3, <1>5
  <2> QED
    BY <1>2, <2>1
<1>6. ASSUME NEW j \in Nat, NEW m \in Nat, j <= m, m <= n,
             \A i \in 0..(m - 1) : s[Len(s) - i] = Other
      PROVE  w[l - j] = Other
  <2>1. CASE j = 0
    <3>1. l - j = l
      BY <1>3, <2>1
    <3> QED
      BY <1>2, <3>1
  <2>2. CASE j # 0
    <3>1. PICK i \in Nat : j = i + 1
      <4>1. j - 1 \in Nat /\ j = (j - 1) + 1
        BY <2>2
      <4> QED
        BY <4>1
    <3>2. i < n /\ i \in 0..(m - 1)
      BY <1>6, <3>1
    <3>3. w[l - (i + 1)] = s[Len(s) - i]
      BY <1>5, <3>2
    <3> QED
      BY <1>6, <3>1, <3>2, <3>3
  <2> QED
    BY <2>1, <2>2
<1>7. ASSUME Quiet(s, n) PROVE Quiet(w, n + 1)
  <2>1. \A i \in 0..(n - 1) : s[Len(s) - i] = Other
    BY <1>7 DEF Quiet
  <2>2. \A j \in 0..((n + 1) - 1) : j \in Nat /\ j <= n
    OBVIOUS
  <2>3. \A j \in 0..((n + 1) - 1) : w[l - j] = Other
    BY <1>6, <2>1, <2>2
  <2> QED
    BY <1>1, <2>3 DEF Quiet
<1>8. ASSUME Latest(s, n, v) PROVE Latest(w, n + 1, v)
  <2>1. PICK k \in 0..(n - 1) : /\ s[Len(s) - k] = v
                                /\ \A j \in 0..(k - 1) : s[Len(s) - j] = Other
    BY <1>8 DEF Latest
  <2>2. k \in Nat /\ k < n /\ k <= n
    OBVIOUS
  <2>3. w[l - (k + 1)] = v
    BY <1>5, <2>1, <2>2
  <2>4. \A j \in 0..((k + 1) - 1) : j \in Nat /\ j <= k
    BY <2>2
  <2>5. \A j \in 0..((k + 1) - 1) : w[l - j] = Other
    BY <1>6, <2>1, <2>2, <2>4
  <2>6. k + 1 \in 0..((n + 1) - 1)
    BY <2>2
  <2>7. v # Other
    BY <1>8 DEF Latest
  <2> QED
    BY <1>1, <2>3, <2>5, <2>6, <2>7 DEF Latest
<1> QED
  BY <1>1, <1>4, <1>7, <1>8

\* An account event is the latest one.
LEMMA PushAccount ==
    ASSUME NEW s \in Seq(Events), Len(s) <= MaxEvents, NEW n \in Nat,
           NEW v \in Events, v # Other
    PROVE  Latest(Pushed(s, v), n + 1, v)
<1>1. PICK w, l : w = Pushed(s, v) /\ l = Len(w)
  OBVIOUS
<1>2. w[l] = v /\ l \in 1..MaxEvents
  BY <1>1, PushedFacts
<1>3. l - 0 = l
  BY <1>2, BoundsAssumption
<1>4. w[l - 0] = v
  BY <1>2, <1>3
<1>5. 0 \in 0..((n + 1) - 1) /\ \A j \in 0..(0 - 1) : w[l - j] = Other
  OBVIOUS
<1> QED
  BY <1>1, <1>4, <1>5 DEF Latest

(***************************************************************************)
(* What the browser displays after a batch.                                *)
(***************************************************************************)
\* A nonempty set of positions has a last one.
LEMMA MaxFacts ==
    ASSUME NEW n \in Nat, NEW S \in SUBSET (1..n), S # {}
    PROVE  Max(S) \in S /\ \A i \in S : i <= Max(S)
<1> DEFINE T == {n - i : i \in S}
<1>1. T \subseteq Nat /\ T # {}
  <2>1. \A i \in S : n - i \in Nat
    OBVIOUS
  <2> QED
    BY <2>1
<1>2. PICK x \in T : \A y \in T : ~(<<y, x>> \in OpToRel(<, Nat))
  BY <1>1, NatLessThanWellFounded, WFMin
<1>3. PICK i \in S : x = n - i
  OBVIOUS
<1>4. ASSUME NEW j \in S PROVE i >= j
  <2>1. n - j \in T /\ n - j \in Nat /\ x \in Nat
    BY <1>1
  <2>2. ~(n - j < x)
    BY <1>2, <2>1 DEF OpToRel
  <2> QED
    BY <1>3, <2>1, <2>2
<1>5. \E m \in S : \A j \in S : m >= j
  BY <1>4
<1>6. Max(S) \in S /\ \A j \in S : Max(S) >= j
  BY <1>5 DEF Max
<1> QED
  BY <1>6

\* events_after returns the last events, in order.
LEMMA FetchedFacts ==
    ASSUME TypeOK, NEW n, n = IF client.behind > Len(events) THEN Len(events) ELSE client.behind
    PROVE  /\ n \in 0..Len(events)
           /\ Fetched \in Seq(Events) /\ Len(Fetched) = n
           /\ \A i \in 1..n : Fetched[i] = events[Len(events) - n + i]
<1>1. events \in Seq(Events) /\ Len(events) \in Nat /\ client.behind \in 0..(MaxEvents + 1)
  BY DEF TypeOK
<1>2. n \in 0..Len(events)
  BY <1>1, BoundsAssumption
<1>3. Fetched = SubSeq(events, Len(events) - n + 1, Len(events))
  BY DEF Fetched
<1>4. PICK m : m = Len(events) - n + 1
  OBVIOUS
<1>5. m \in 1..(Len(events) + 1) /\ Len(events) - m + 1 = n
  BY <1>1, <1>2, <1>4
<1>6. Fetched \in Seq(Events) /\ Len(Fetched) = n /\ \A i \in 1..n : Fetched[i] = events[m + i - 1]
  <2>1. m \in Int /\ Len(events) \in Int /\ \A i \in m..Len(events) : events[i] \in Events
    BY <1>1, <1>5
  <2>2. PICK s : s = SubSeq(events, m, Len(events))
    OBVIOUS
  <2>3. /\ s \in Seq(Events)
        /\ Len(s) = IF m <= Len(events) THEN Len(events) - m + 1 ELSE 0
        /\ \A i \in 1..(Len(events) - m + 1) : s[i] = events[m + i - 1]
    BY <2>1, <2>2, SubSeqProperties
  <2>4. Len(s) = n
    BY <1>1, <1>2, <1>5, <2>3
  <2> QED
    BY <1>3, <1>4, <1>5, <2>2, <2>3, <2>4
<1>7. \A i \in 1..n : m + i - 1 = Len(events) - n + i
  BY <1>1, <1>2, <1>4
<1> QED
  BY <1>2, <1>6, <1>7

\* The browser displays the last account of a batch, or goes on displaying
\* what it did.
LEMMA DisplayedFacts ==
    ASSUME TypeOK
    PROVE  /\ Displayed(Fetched) \in 0..MaxVersion
           /\ client.behind <= Len(events) =>
                 /\ Quiet(events, client.behind) => Displayed(Fetched) = client.account
                 /\ \A v : Latest(events, client.behind, v) => Displayed(Fetched) = v
<1>1. PICK n, l, b : /\ n = IF client.behind > Len(events) THEN Len(events) ELSE client.behind
                     /\ l = Len(events) /\ b = Fetched
  OBVIOUS
<1>2. /\ n \in 0..l /\ l \in Nat
      /\ b \in Seq(Events) /\ Len(b) = n
      /\ \A i \in 1..n : b[i] = events[l - n + i]
  <2>1. Len(events) \in Nat
    BY DEF TypeOK
  <2> QED
    BY <1>1, <2>1, FetchedFacts
<1> DEFINE accounts == {i \in DOMAIN b : b[i] # Other}
<1>3. DOMAIN b = 1..n /\ n \in Nat
  BY <1>2
<1>4. accounts \in SUBSET (1..n)
  BY <1>3
<1>5. accounts # {} => Max(accounts) \in accounts /\ \A i \in accounts : i <= Max(accounts)
  BY <1>3, <1>4, MaxFacts
<1>6. Displayed(b) = IF accounts = {} THEN client.account ELSE b[Max(accounts)]
  BY DEF Displayed
<1>7. Displayed(b) \in 0..MaxVersion
  <2>1. CASE accounts = {}
    BY <1>6, <2>1 DEF TypeOK
  <2>2. CASE accounts # {}
    <3>1. b[Max(accounts)] \in Events
      BY <1>2, <1>4, <1>5, <2>2
    <3> QED
      BY <1>6, <2>2, <3>1, BoundsAssumption DEF Events, Other
  <2> QED
    BY <2>1, <2>2
<1>8. ASSUME client.behind <= l
      PROVE  n = client.behind
  BY <1>1, <1>2, <1>8 DEF TypeOK
<1>9. ASSUME NEW i \in 1..n
      PROVE  n - i \in 0..(n - 1) /\ b[i] = events[l - (n - i)]
  BY <1>2
<1>10. ASSUME client.behind <= l, Quiet(events, client.behind)
       PROVE  Displayed(b) = client.account
  <2>1. \A i \in 1..n : b[i] = Other
    BY <1>1, <1>8, <1>9, <1>10 DEF Quiet
  <2>2. accounts = {}
    BY <1>3, <2>1
  <2> QED
    BY <1>6, <2>2
<1>11. ASSUME client.behind <= l, NEW v, Latest(events, client.behind, v)
       PROVE  Displayed(b) = v
  <2>1. PICK k \in 0..(n - 1) : /\ events[l - k] = v
                                /\ \A j \in 0..(k - 1) : events[l - j] = Other
    BY <1>1, <1>8, <1>11 DEF Latest
  <2>2. v # Other
    BY <1>11 DEF Latest
  <2>3. n - k \in 1..n /\ n - (n - k) = k
    BY <1>2
  <2>4. b[n - k] = v
    BY <1>9, <2>1, <2>3
  <2>5. n - k \in accounts
    BY <1>3, <2>2, <2>3, <2>4
  <2>6. ASSUME NEW i \in accounts
        PROVE  i <= n - k
    <3>1. i \in 1..n /\ b[i] # Other
      BY <1>3
    <3>2. n - i \notin 0..(k - 1)
      BY <1>9, <2>1, <3>1
    <3> QED
      BY <1>2, <3>1, <3>2
  <2>7. Max(accounts) = n - k
    <3>1. Max(accounts) \in accounts /\ n - k <= Max(accounts) /\ Max(accounts) <= n - k
      BY <1>5, <2>5, <2>6
    <3>2. Max(accounts) \in Int /\ n - k \in Int
      BY <1>2, <1>4, <3>1
    <3> QED
      BY <3>1, <3>2
  <2> QED
    BY <1>6, <2>4, <2>5, <2>7
<1> QED
  BY <1>1, <1>7, <1>10, <1>11

(***************************************************************************)
(* The inductive invariant.                                                *)
(***************************************************************************)
\* The gate: SingleFlight, with the loader named instead of counted.
LoaderOK ==
    /\ (\E t \in Threads : At(t, "load")) <=> sync.running
    /\ \A t, u \in Threads : At(t, "load") /\ At(u, "load") => t = u
    /\ \A t \in Threads : At(t, "wait") => sync.running /\ ~sync.closed

\* The emissions: what is on its way is an account, and an emission that met no
\* other carries the account that is shown.
EmitOK ==
    /\ \A t \in Threads :
          /\ thread[t].pc \in {"keep", "store", "assign", "append"} => thread[t].got # 0
          /\ InEmit(t) => shown # 0
          /\ At(t, "append") /\ ~thread[t].overlap => thread[t].got = shown
    /\ \A t, u \in Threads : InEmit(t) /\ InEmit(u) /\ t # u => thread[t].overlap

\* No emission is under way, and the last one met no other.
Calm == ~raced /\ \A t \in Threads : ~InEmit(t)

\* The stream: what the handler has not fetched makes up for whatever the
\* snapshot missed, as long as the deque still holds it.
ViewOK ==
    /\ client.pc = "sequence" => client.behind = 0
    /\ client.pc # "loop" => ~client.whole
    /\ (Calm /\ client.behind <= Len(events)) =>
          /\ client.pc = "body" =>
                Quiet(events, client.behind) \/ Latest(events, client.behind, shown)
          /\ client.pc = "greet" \/ client.whole =>
                \/ Quiet(events, client.behind) /\ client.account = shown
                \/ Latest(events, client.behind, shown)

\* The inductive invariant.
IInv == TypeOK /\ LoaderOK /\ EmitOK /\ ViewOK

\* TypeOK, by variable.
LEMMA TypeParts ==
    TypeOK <=> /\ truth \in 1..MaxVersion /\ sync \in SyncType
               /\ thread \in [Threads -> ThreadType] /\ shown \in 0..MaxVersion
               /\ events \in Seq(Events) /\ Len(events) <= MaxEvents
               /\ raced \in BOOLEAN /\ client \in ClientType
  BY DEF TypeOK, SyncType, ThreadType, ClientType

\* A thread and a client at rest.
LEMMA IdleFacts ==
    /\ IdleThread \in ThreadType /\ IdleThread.pc = "idle"
    /\ NoClient \in ClientType /\ NoClient.pc = "off" /\ ~NoClient.whole /\ NoClient.behind = 0
<1>1. 0 \in 0..MaxVersion /\ 0 \in 0..(MaxEvents + 1)
  BY BoundsAssumption
<1> QED
  BY <1>1 DEF IdleThread, ThreadType, ThreadPCs, NoClient, ClientType

\* The initial state.
LEMMA InitHolds == Init => IInv
<1> SUFFICES ASSUME Init PROVE IInv
  OBVIOUS
<1>1. 0 \in 0..MaxVersion /\ 1 \in 1..MaxVersion /\ 0 <= MaxEvents
  BY BoundsAssumption
<1>2. sync \in SyncType
  BY <1>1 DEF Init, SyncType
<1>3. thread \in [Threads -> ThreadType] /\ \A t \in Threads : thread[t].pc = "idle"
  BY IdleFacts DEF Init
<1>4. events \in Seq(Events) /\ Len(events) = 0
  BY DEF Init
<1>5. TypeOK
  BY <1>1, <1>2, <1>3, <1>4, IdleFacts, TypeParts DEF Init
<1>6. LoaderOK
  BY <1>3 DEF Init, LoaderOK, At
<1>7. EmitOK
  BY <1>3 DEF EmitOK, At, InEmit
<1>8. ViewOK
  BY IdleFacts DEF Init, ViewOK
<1> QED
  BY <1>5, <1>6, <1>7, <1>8 DEF IInv

(***************************************************************************)
(* The callers.                                                            *)
(***************************************************************************)
CoreHold ==
    /\ truth' \in 1..MaxVersion /\ sync' \in SyncType
    /\ thread' \in [Threads -> ThreadType] /\ shown' \in 0..MaxVersion
    /\ raced' \in BOOLEAN /\ LoaderOK' /\ EmitOK'

\* One caller changes place.
LEMMA OneThread ==
    ASSUME TypeOK, NEW t \in Threads, NEW x \in ThreadType,
           thread' = [thread EXCEPT ![t] = x]
    PROVE  /\ thread' \in [Threads -> ThreadType] /\ thread'[t] = x
           /\ \A u \in Threads \ {t} : thread'[u] = thread[u]
  BY DEF TypeOK, ThreadType

\* notify_all leaves nobody waiting and moves nobody else.
LEMMA NotifiedFacts ==
    ASSUME TypeOK
    PROVE  /\ Notified \in [Threads -> ThreadType]
           /\ \A u \in Threads :
                 /\ Notified[u].got = thread[u].got /\ Notified[u].overlap = thread[u].overlap
                 /\ \/ Notified[u].pc = thread[u].pc /\ thread[u].pc # "wait"
                    \/ Notified[u].pc = "enter" /\ thread[u].pc = "wait"
<1>1. ASSUME NEW u \in Threads
      PROVE  /\ Notified[u] \in ThreadType
             /\ Notified[u].got = thread[u].got /\ Notified[u].overlap = thread[u].overlap
             /\ \/ Notified[u].pc = thread[u].pc /\ thread[u].pc # "wait"
                \/ Notified[u].pc = "enter" /\ thread[u].pc = "wait"
  <2>1. thread[u] \in ThreadType
    BY TypeParts
  <2>2. CASE At(u, "wait")
    BY <2>1, <2>2 DEF Notified, At, ThreadType, ThreadPCs
  <2>3. CASE ~At(u, "wait")
    BY <2>1, <2>3 DEF Notified, At
  <2> QED
    BY <2>2, <2>3
<1> QED
  BY <1>1 DEF Notified

\* The first critical section.
LEMMA EnterHolds ==
    ASSUME TypeOK, LoaderOK, EmitOK, NEW t \in Threads, Enter(t)
    PROVE  CoreHold
<1>1. /\ UNCHANGED <<truth, shown, raced>> /\ thread[t].pc \in {"idle", "enter"}
      /\ thread[t] \in ThreadType /\ sync \in SyncType
  BY TypeParts DEF Enter
<1>2. truth' \in 1..MaxVersion /\ shown' \in 0..MaxVersion /\ raced' \in BOOLEAN
  BY <1>1, TypeParts
<1>4. ASSUME NEW pc \in {"idle", "wait"}, Goto(t, pc), sync' = sync,
             pc = "wait" => sync.running /\ ~sync.closed
      PROVE  CoreHold
  <2>1. PICK y : y = [thread[t] EXCEPT !.pc = pc]
    OBVIOUS
  <2>2. y \in ThreadType /\ y.pc = pc /\ thread' = [thread EXCEPT ![t] = y]
    BY <1>1, <1>4, <2>1, TypeParts DEF Goto, ThreadType, ThreadPCs
  <2>3. /\ thread' \in [Threads -> ThreadType] /\ thread'[t].pc = pc
        /\ \A u \in Threads \ {t} : thread'[u] = thread[u]
    BY <2>2, OneThread
  <2>4. LoaderOK'
    BY <1>1, <1>4, <2>3 DEF LoaderOK, At
  <2>5. EmitOK'
    BY <1>1, <1>4, <2>3 DEF EmitOK, At, InEmit
  <2> QED
    BY <1>1, <1>2, <1>4, <2>3, <2>4, <2>5 DEF CoreHold
<1>5. ASSUME sync.last # 0, sync' = sync,
             thread' = [thread EXCEPT ![t].pc = "store", ![t].got = sync.last]
      PROVE  CoreHold
  <2>1. PICK y : y = [thread[t] EXCEPT !.pc = "store", !.got = sync.last]
    OBVIOUS
  <2>2. sync.last \in 0..MaxVersion
    BY <1>1 DEF SyncType
  <2>3. y \in ThreadType /\ y.pc = "store" /\ y.got = sync.last
    BY <1>1, <2>1, <2>2 DEF ThreadType, ThreadPCs
  <2>4. thread' = [thread EXCEPT ![t] = y]
    BY <1>5, <2>1, TypeParts
  <2>5. /\ thread' \in [Threads -> ThreadType] /\ thread'[t] = y
        /\ \A u \in Threads \ {t} : thread'[u] = thread[u]
    BY <2>3, <2>4, OneThread
  <2>6. LoaderOK'
    BY <1>1, <1>5, <2>3, <2>5 DEF LoaderOK, At
  <2>7. EmitOK'
    BY <1>1, <1>5, <2>3, <2>5 DEF EmitOK, At, InEmit
  <2> QED
    BY <1>1, <1>2, <1>5, <2>5, <2>6, <2>7 DEF CoreHold
<1>6. ASSUME ~sync.running, sync' = [sync EXCEPT !.running = TRUE], Goto(t, "load")
      PROVE  CoreHold
  <2>1. PICK y : y = [thread[t] EXCEPT !.pc = "load"]
    OBVIOUS
  <2>2. y \in ThreadType /\ y.pc = "load" /\ thread' = [thread EXCEPT ![t] = y]
    BY <1>1, <1>6, <2>1, TypeParts DEF Goto, ThreadType, ThreadPCs
  <2>3. /\ thread' \in [Threads -> ThreadType] /\ thread'[t].pc = "load"
        /\ \A u \in Threads \ {t} : thread'[u] = thread[u]
    BY <2>2, OneThread
  <2>4. sync' \in SyncType /\ sync'.running = TRUE /\ sync'.closed = sync.closed
    BY <1>1, <1>6 DEF SyncType
  <2>5. LoaderOK'
    BY <1>1, <1>6, <2>3, <2>4 DEF LoaderOK, At
  <2>6. EmitOK'
    BY <1>1, <1>6, <2>3 DEF EmitOK, At, InEmit
  <2> QED
    BY <1>2, <2>3, <2>4, <2>5, <2>6 DEF CoreHold
<1> QED
  BY <1>4, <1>5, <1>6 DEF Enter

\* The end of a load: the gate opens and everybody who waits is woken.
LEMMA GateOpens ==
    ASSUME TypeOK, LoaderOK, EmitOK, NEW t \in Threads, At(t, "load"),
           sync' = [sync EXCEPT !.running = FALSE],
           UNCHANGED <<truth, shown, raced>>,
           NEW x \in ThreadType, thread' = [Notified EXCEPT ![t] = x],
           x.pc = "idle" \/ (x.pc = "keep" /\ x.got # 0)
    PROVE  CoreHold
<1>1. truth' \in 1..MaxVersion /\ shown' \in 0..MaxVersion /\ raced' \in BOOLEAN
  BY TypeParts
<1>2. sync' \in SyncType /\ sync'.running = FALSE
  BY TypeParts DEF SyncType
<1>3. PICK w : w = Notified
  OBVIOUS
<1>4. /\ w \in [Threads -> ThreadType]
      /\ \A u \in Threads :
            /\ w[u].got = thread[u].got /\ w[u].overlap = thread[u].overlap
            /\ \/ w[u].pc = thread[u].pc /\ thread[u].pc # "wait"
               \/ w[u].pc = "enter" /\ thread[u].pc = "wait"
  BY <1>3, NotifiedFacts
<1>5. /\ thread' \in [Threads -> ThreadType] /\ thread'[t] = x
      /\ \A u \in Threads \ {t} : thread'[u] = w[u]
  BY <1>3, <1>4
<1>6. \A u \in Threads : thread'[u].pc \notin {"load", "wait"}
  BY <1>4, <1>5 DEF LoaderOK, At
<1>7. LoaderOK'
  BY <1>2, <1>6 DEF LoaderOK, At
<1>8. \A u \in Threads \ {t} :
         /\ thread'[u].got = thread[u].got /\ thread'[u].overlap = thread[u].overlap
         /\ thread'[u].pc # thread[u].pc => thread'[u].pc = "enter"
  BY <1>4, <1>5
<1>9. EmitOK'
  BY <1>5, <1>8 DEF EmitOK, At, InEmit
<1> QED
  BY <1>1, <1>2, <1>5, <1>7, <1>9 DEF CoreHold

\* The loader raised.
LEMMA LoadFailsHolds ==
    ASSUME TypeOK, LoaderOK, EmitOK, NEW t \in Threads, LoadFails(t)
    PROVE  CoreHold
  BY GateOpens, IdleFacts DEF LoadFails

\* The loader returned an account.
LEMMA LoadHolds ==
    ASSUME TypeOK, LoaderOK, EmitOK, NEW t \in Threads, Load(t)
    PROVE  CoreHold
<1>1. truth \in 0..MaxVersion /\ truth # 0
  BY TypeParts, BoundsAssumption
<1>2. Notified \in [Threads -> ThreadType]
  BY NotifiedFacts
<1>3. PICK x : x = [Notified[t] EXCEPT !.pc = "keep", !.got = truth]
  OBVIOUS
<1>4. x \in ThreadType /\ x.pc = "keep" /\ x.got = truth
  BY <1>1, <1>2, <1>3 DEF ThreadType, ThreadPCs
<1>5. thread' = [Notified EXCEPT ![t] = x]
  BY <1>2, <1>3 DEF Load
<1> QED
  BY <1>1, <1>4, <1>5, GateOpens DEF Load

\* A caller that is neither loading nor waiting goes on to a place where it is
\* neither, carrying an account where it must.
LEMMA CallerMoves ==
    ASSUME TypeOK, LoaderOK, EmitOK, NEW t \in Threads, NEW x \in ThreadType,
           thread' = [thread EXCEPT ![t] = x],
           thread[t].pc \notin {"load", "wait"},
           x.pc \in {"idle", "store", "assign"}, x.pc # "idle" => x.got # 0,
           UNCHANGED <<truth, shown>>, raced' \in BOOLEAN,
           sync' \in SyncType, sync'.running = sync.running, sync'.closed = sync.closed
    PROVE  CoreHold
<1>1. truth' \in 1..MaxVersion /\ shown' \in 0..MaxVersion
  BY TypeParts
<1>2. /\ thread' \in [Threads -> ThreadType] /\ thread'[t] = x
      /\ \A u \in Threads \ {t} : thread'[u] = thread[u]
  BY OneThread
<1>3. LoaderOK'
  BY <1>2 DEF LoaderOK, At
<1>4. EmitOK'
  BY <1>2 DEF EmitOK, At, InEmit
<1> QED
  BY <1>1, <1>2, <1>3, <1>4 DEF CoreHold

\* synchronize keeps the last projection.
LEMMA KeepHolds ==
    ASSUME TypeOK, LoaderOK, EmitOK, NEW t \in Threads, Keep(t)
    PROVE  CoreHold
<1>1. /\ thread[t] \in ThreadType /\ thread[t].pc = "keep" /\ thread[t].got # 0
      /\ thread[t].got \in 0..MaxVersion /\ sync \in SyncType /\ raced \in BOOLEAN
      /\ UNCHANGED <<truth, shown, raced>>
  BY TypeParts DEF Keep, At, EmitOK, ThreadType
<1>2. CASE sync.closed
  BY <1>1, <1>2, IdleFacts, CallerMoves DEF Keep
<1>3. CASE ~sync.closed
  <2>1. PICK x : x = [thread[t] EXCEPT !.pc = "store"]
    OBVIOUS
  <2>2. x \in ThreadType /\ x.pc = "store" /\ x.got # 0
    BY <1>1, <2>1 DEF ThreadType, ThreadPCs
  <2>3. thread' = [thread EXCEPT ![t] = x]
    BY <1>3, <2>1, TypeParts DEF Keep, Goto
  <2>4. sync' \in SyncType /\ sync'.running = sync.running /\ sync'.closed = sync.closed
    BY <1>1, <1>3 DEF Keep, SyncType
  <2> QED
    BY <1>1, <2>2, <2>3, <2>4, CallerMoves
<1> QED
  BY <1>2, <1>3

\* The service compares what it got with what it shows.
LEMMA CompareHolds ==
    ASSUME TypeOK, LoaderOK, EmitOK, NEW t \in Threads, Compare(t)
    PROVE  CoreHold
<1>1. /\ thread[t] \in ThreadType /\ thread[t].pc = "store" /\ thread[t].got # 0
      /\ sync \in SyncType /\ raced \in BOOLEAN /\ UNCHANGED <<truth, sync, shown, raced>>
  BY TypeParts DEF Compare, At, EmitOK
<1>2. CASE thread[t].got = shown
  <2>1. thread' = [thread EXCEPT ![t] = IdleThread]
    BY <1>2 DEF Compare
  <2> QED
    BY <1>1, <2>1, IdleFacts, CallerMoves
<1>3. CASE thread[t].got # shown
  <2>1. PICK x : x = [thread[t] EXCEPT !.pc = "assign"]
    OBVIOUS
  <2>2. x \in ThreadType /\ x.pc = "assign" /\ x.got # 0
    BY <1>1, <2>1 DEF ThreadType, ThreadPCs
  <2>3. thread' = [thread EXCEPT ![t] = x]
    BY <1>3, <2>1 DEF Compare
  <2> QED
    BY <1>1, <2>2, <2>3, CallerMoves
<1> QED
  BY <1>2, <1>3

\* The event is appended.
LEMMA AppendHolds ==
    ASSUME TypeOK, LoaderOK, EmitOK, NEW t \in Threads, AppendEvent(t)
    PROVE  CoreHold
<1>1. /\ thread[t] \in ThreadType /\ thread[t].pc = "append" /\ sync \in SyncType
      /\ UNCHANGED <<truth, sync, shown>> /\ raced' = thread[t].overlap
      /\ thread' = [thread EXCEPT ![t] = IdleThread]
  BY TypeParts DEF AppendEvent, At
<1>2. raced' \in BOOLEAN
  BY <1>1 DEF ThreadType
<1> QED
  BY <1>1, <1>2, IdleFacts, CallerMoves

\* The synchroniser is closed.
LEMMA CloseHolds ==
    ASSUME TypeOK, LoaderOK, EmitOK, Close
    PROVE  CoreHold
<1>1. truth' \in 1..MaxVersion /\ shown' \in 0..MaxVersion /\ raced' \in BOOLEAN
         /\ UNCHANGED <<truth, shown, raced>>
  BY TypeParts DEF Close
<1>2. sync' \in SyncType /\ sync'.running = sync.running
  BY TypeParts DEF Close, SyncType
<1>3. /\ thread' \in [Threads -> ThreadType]
      /\ \A u \in Threads :
            /\ thread'[u].got = thread[u].got /\ thread'[u].overlap = thread[u].overlap
            /\ \/ thread'[u].pc = thread[u].pc /\ thread[u].pc # "wait"
               \/ thread'[u].pc = "enter" /\ thread[u].pc = "wait"
  BY NotifiedFacts DEF Close
<1>4. LoaderOK'
  BY <1>2, <1>3 DEF LoaderOK, At
<1>5. EmitOK'
  BY <1>1, <1>3 DEF EmitOK, At, InEmit
<1> QED
  BY <1>1, <1>2, <1>3, <1>4, <1>5 DEF CoreHold

\* synchronize's first critical section: load, wait or return.
LEMMA EvaluateHolds ==
    ASSUME TypeOK, LoaderOK, EmitOK, NEW t \in Threads, Evaluate(t)
    PROVE  CoreHold
<1>1. /\ thread[t] \in ThreadType /\ thread[t].pc = "emit"
      /\ sync \in SyncType /\ shown \in 0..MaxVersion /\ shown # 0
      /\ truth \in 1..MaxVersion /\ raced \in BOOLEAN
      /\ UNCHANGED <<truth, sync, shown, raced>>
  BY TypeParts DEF Evaluate, At, EmitOK, InEmit
<1>2. PICK x : x = [thread[t] EXCEPT !.pc = "append", !.got = shown]
  OBVIOUS
<1>3. x \in ThreadType /\ x.pc = "append" /\ x.got = shown /\ x.overlap = thread[t].overlap
  BY <1>1, <1>2 DEF ThreadType, ThreadPCs
<1>4. thread' = [thread EXCEPT ![t] = x]
  BY <1>2, TypeParts DEF Evaluate
<1>5. /\ thread' \in [Threads -> ThreadType] /\ thread'[t] = x
      /\ \A u \in Threads \ {t} : thread'[u] = thread[u]
  BY <1>3, <1>4, OneThread
<1>6. LoaderOK'
  BY <1>1, <1>3, <1>5 DEF LoaderOK, At
<1>7. EmitOK'
  <2>1. \A u \in Threads : InEmit(u)' <=> InEmit(u)
    BY <1>1, <1>3, <1>5 DEF InEmit
  <2>2. \A u \in Threads : thread'[u].overlap = thread[u].overlap
    BY <1>3, <1>5
  <2>3. \A u, v \in Threads : InEmit(u)' /\ InEmit(v)' /\ u # v => thread'[u].overlap
    BY <2>1, <2>2 DEF EmitOK
  <2>4. ASSUME NEW u \in Threads
        PROVE  /\ thread'[u].pc \in {"keep", "store", "assign", "append"} => thread'[u].got # 0
               /\ InEmit(u)' => shown' # 0
               /\ At(u, "append")' /\ ~thread'[u].overlap => thread'[u].got = shown'
    BY <1>1, <1>3, <1>5 DEF EmitOK, At, InEmit
  <2> QED
    BY <2>3, <2>4 DEF EmitOK
<1> QED
  BY <1>1, <1>5, <1>6, <1>7 DEF CoreHold

\* The service shows a new account.
LEMMA AssignHolds ==
    ASSUME TypeOK, LoaderOK, EmitOK, NEW t \in Threads, Assign(t)
    PROVE  CoreHold /\ InEmit(t)'
<1>1. /\ thread[t] \in ThreadType /\ thread[t].pc = "assign" /\ thread[t].got # 0
      /\ sync \in SyncType /\ shown' = thread[t].got /\ shown' \in 0..MaxVersion
      /\ truth \in 1..MaxVersion /\ raced \in BOOLEAN
      /\ UNCHANGED <<truth, sync, raced>>
  BY TypeParts DEF Assign, At, EmitOK, ThreadType
<1>2. PICK met : met = \E v \in Threads : InEmit(v)
  OBVIOUS
<1>3. met \in BOOLEAN /\ (met <=> \E v \in Threads : InEmit(v))
  <2>1. (\E v \in Threads : InEmit(v)) \in BOOLEAN
    BY SMT
  <2> QED
    BY <1>2, <2>1, Zenon
<1>4. thread' = [u \in Threads |->
           IF u = t THEN [thread[u] EXCEPT !.pc = "emit", !.overlap = met]
           ELSE IF InEmit(u) THEN [thread[u] EXCEPT !.overlap = TRUE]
           ELSE thread[u]]
  BY <1>2 DEF Assign
<1>5. /\ thread'[t] \in ThreadType /\ thread'[t].pc = "emit" /\ thread'[t].overlap = met
  BY <1>1, <1>3, <1>4 DEF ThreadType, ThreadPCs
<1>6. ASSUME NEW u \in Threads \ {t}
      PROVE  /\ thread'[u] \in ThreadType /\ thread'[u].pc = thread[u].pc
             /\ thread'[u].got = thread[u].got
             /\ InEmit(u) => thread'[u].overlap
  <2>1. thread[u] \in ThreadType
    BY TypeParts
  <2>2. CASE InEmit(u)
    BY <1>4, <2>1, <2>2 DEF ThreadType
  <2>3. CASE ~InEmit(u)
    BY <1>4, <2>1, <2>3
  <2> QED
    BY <2>2, <2>3
<1>7. thread' \in [Threads -> ThreadType]
  <2>1. \A u \in Threads : thread'[u] \in ThreadType
    BY <1>5, <1>6
  <2> QED
    BY <1>4, <2>1
<1>8. LoaderOK'
  BY <1>1, <1>5, <1>6 DEF LoaderOK, At
<1>9. EmitOK'
  <2>1. \A u \in Threads \ {t} : InEmit(u)' <=> InEmit(u)
    BY <1>6 DEF InEmit
  <2>2. ASSUME NEW u \in Threads, NEW v \in Threads, InEmit(u)', InEmit(v)', u # v
        PROVE  thread'[u].overlap
    <3>1. CASE u = t
      BY <1>3, <1>5, <2>1, <2>2, <3>1
    <3>2. CASE u # t
      BY <1>6, <2>1, <2>2, <3>2
    <3> QED
      BY <3>1, <3>2
  <2>3. ASSUME NEW u \in Threads
        PROVE  /\ thread'[u].pc \in {"keep", "store", "assign", "append"} => thread'[u].got # 0
               /\ At(u, "append")' /\ ~thread'[u].overlap => thread'[u].got = shown'
    <3>1. CASE u = t
      BY <1>5, <3>1 DEF At
    <3>2. CASE u # t
      BY <1>6, <3>2 DEF EmitOK, At, InEmit
    <3> QED
      BY <3>1, <3>2
  <2>4. shown' # 0
    BY <1>1
  <2> QED
    BY <2>2, <2>3, <2>4 DEF EmitOK
<1>10. InEmit(t)'
  BY <1>5 DEF InEmit
<1> QED
  BY <1>1, <1>7, <1>8, <1>9, <1>10 DEF CoreHold

\* Steps of the client only.
LEMMA CoreSame ==
    ASSUME TypeOK, LoaderOK, EmitOK, UNCHANGED <<truth, sync, thread, shown, raced>>
    PROVE  CoreHold
  BY TypeParts DEF CoreHold, LoaderOK, EmitOK, At, InEmit

\* Time and the world.
LEMMA WorldHolds ==
    ASSUME TypeOK, LoaderOK, EmitOK, AccountChanges \/ ProjectionAges
    PROVE  CoreHold
<1>1. UNCHANGED <<thread, shown, raced>>
  BY DEF AccountChanges, ProjectionAges
<1>2. truth' \in 1..MaxVersion
  <2>1. CASE AccountChanges
    BY <2>1, TypeParts, BoundsAssumption DEF AccountChanges
  <2>2. CASE ProjectionAges
    BY <2>2, TypeParts DEF ProjectionAges
  <2> QED
    BY <2>1, <2>2
<1>3. sync' \in SyncType /\ sync'.running = sync.running /\ sync'.closed = sync.closed
  BY TypeParts DEF AccountChanges, ProjectionAges, SyncType
<1> QED
  BY <1>1, <1>2, <1>3, TypeParts DEF CoreHold, LoaderOK, EmitOK, At, InEmit

(***************************************************************************)
(* The deque and the handler.                                              *)
(***************************************************************************)
ViewHold ==
    /\ events' \in Seq(Events) /\ Len(events') <= MaxEvents
    /\ client' \in ClientType /\ ViewOK'

\* An emission: the deque and the distance of a handler that has its sequence.
LEMMA EmitFacts ==
    ASSUME TypeOK, NEW e \in Events, Emit(e)
    PROVE  /\ events' = Pushed(events, e)
           /\ events' \in Seq(Events) /\ Len(events') <= MaxEvents
           /\ client' \in ClientType
           /\ client'.pc = client.pc /\ client'.whole = client.whole
           /\ client'.account = client.account
           /\ client.pc \notin {"body", "greet", "loop"} => client'.behind = client.behind
           /\ client.pc \in {"body", "greet", "loop"} =>
                 \/ client'.behind = client.behind + 1
                 \/ client'.behind > MaxEvents
<1>1. /\ events \in Seq(Events) /\ Len(events) <= MaxEvents /\ client \in ClientType
      /\ MaxEvents \in Nat
  BY TypeParts, BoundsAssumption
<1>2. Len(Append(events, e)) = Len(events) + 1
  BY <1>1
<1>3. events' = Pushed(events, e)
  BY <1>2 DEF Emit, Pushed
<1>4. Pushed(events, e) \in Seq(Events) /\ Len(Pushed(events, e)) \in 1..MaxEvents
  BY <1>1, PushedFacts
<1>5. events' \in Seq(Events) /\ Len(events') <= MaxEvents
  BY <1>1, <1>3, <1>4
<1>6. CASE client.pc \in {"body", "greet", "loop"} /\ client.behind <= MaxEvents
  <2>1. PICK n : n = client.behind + 1
    OBVIOUS
  <2>2. client' = [client EXCEPT !.behind = n]
    BY <1>6, <2>1 DEF Emit
  <2>3. n \in 0..(MaxEvents + 1)
    BY <1>1, <1>6, <2>1 DEF ClientType
  <2>4. /\ client' \in ClientType /\ client'.behind = n
        /\ client'.pc = client.pc /\ client'.whole = client.whole
        /\ client'.account = client.account
    BY <1>1, <2>2, <2>3 DEF ClientType
  <2> QED
    BY <1>3, <1>5, <1>6, <2>1, <2>4
<1>7. CASE ~(client.pc \in {"body", "greet", "loop"} /\ client.behind <= MaxEvents)
  <2>1. client' = client
    BY <1>7 DEF Emit
  <2>2. client.behind \in Nat
    BY <1>1 DEF ClientType
  <2>3. client.behind <= MaxEvents \/ client.behind > MaxEvents
    BY <1>1, <2>2
  <2> QED
    BY <1>1, <1>3, <1>5, <1>7, <2>1, <2>3
<1> QED
  BY <1>6, <1>7

\* An event that carries no account.
LEMMA OtherEventHolds ==
    ASSUME TypeOK, ViewOK, OtherEvent
    PROVE  ViewHold
<1>1. Other \in Events
  BY DEF Events
<1>2. PICK n, m : n = client.behind /\ m = client'.behind
  OBVIOUS
<1>3. /\ events' = Pushed(events, Other)
      /\ events' \in Seq(Events) /\ Len(events') <= MaxEvents
      /\ client' \in ClientType
      /\ client'.pc = client.pc /\ client'.whole = client.whole
      /\ client'.account = client.account
      /\ client.pc \notin {"body", "greet", "loop"} => m = n
      /\ client.pc \in {"body", "greet", "loop"} => m = n + 1 \/ m > MaxEvents
  BY <1>1, <1>2, EmitFacts DEF OtherEvent
<1>4. Calm' <=> Calm
  BY DEF OtherEvent, Calm, InEmit
<1>5. shown' = shown
  BY DEF OtherEvent
<1>6. events \in Seq(Events) /\ Len(events) <= MaxEvents /\ n \in Nat /\ m \in Nat
  BY <1>2, <1>3, TypeParts, BoundsAssumption DEF ClientType
<1>7. ASSUME Calm', m <= Len(events'), client.pc \in {"body", "greet", "loop"}
      PROVE  /\ m = n + 1 /\ n <= Len(events)
             /\ Quiet(events, n) => Quiet(events', m)
             /\ Latest(events, n, shown) => Latest(events', m, shown)
  <2>1. m = n + 1 /\ n + 1 <= Len(Pushed(events, Other))
    BY <1>3, <1>6, <1>7, BoundsAssumption
  <2> QED
    BY <1>3, <1>6, <2>1, PushOther
<1>8. client.whole => client.pc = "loop"
  BY DEF ViewOK
<1>9. ViewOK'
  BY <1>2, <1>3, <1>4, <1>5, <1>7, <1>8 DEF ViewOK
<1> QED
  BY <1>3, <1>9 DEF ViewHold

\* An account event reaches the deque, and through it the client.
LEMMA AppendView ==
    ASSUME TypeOK, EmitOK, ViewOK, NEW t \in Threads, AppendEvent(t)
    PROVE  ViewHold
<1>1. PICK v, n, m : v = thread[t].got /\ n = client.behind /\ m = client'.behind
  OBVIOUS
<1>2. /\ At(t, "append") /\ v # 0 /\ v \in 0..MaxVersion /\ Emit(v)
      /\ raced' = thread[t].overlap /\ shown' = shown
  BY <1>1, TypeParts DEF AppendEvent, At, EmitOK, ThreadType
<1>3. v \in Events /\ v # Other
  BY <1>2, BoundsAssumption DEF Events, Other
<1>4. /\ events' = Pushed(events, v)
      /\ events' \in Seq(Events) /\ Len(events') <= MaxEvents
      /\ client' \in ClientType
      /\ client'.pc = client.pc /\ client'.whole = client.whole
      /\ client'.account = client.account
      /\ client.pc \notin {"body", "greet", "loop"} => m = n
      /\ client.pc \in {"body", "greet", "loop"} => m = n + 1 \/ m > MaxEvents
  BY <1>1, <1>2, <1>3, EmitFacts
<1>5. events \in Seq(Events) /\ Len(events) <= MaxEvents /\ n \in Nat /\ m \in Nat
  BY <1>1, <1>4, TypeParts, BoundsAssumption DEF ClientType
<1>6. ASSUME Calm', m <= Len(events'), client.pc \in {"body", "greet", "loop"}
      PROVE  Latest(events', m, shown')
  <2>1. v = shown
    BY <1>1, <1>2, <1>6 DEF Calm, EmitOK
  <2>2. m = n + 1
    BY <1>4, <1>5, <1>6, BoundsAssumption
  <2> QED
    BY <1>2, <1>3, <1>4, <1>5, <2>1, <2>2, PushAccount
<1>7. client.whole => client.pc = "loop"
  BY DEF ViewOK
<1>8. ViewOK'
  BY <1>1, <1>4, <1>6, <1>7 DEF ViewOK
<1> QED
  BY <1>4, <1>8 DEF ViewHold

\* Steps of the callers that emit nothing.
LEMMA CalmStays ==
    ASSUME TypeOK, ViewOK, UNCHANGED <<events, client>>,
           Calm' => Calm /\ shown' = shown
    PROVE  ViewHold
  BY TypeParts DEF ViewHold, ViewOK

\* Steps of the handler.
LEMMA ClientMoves ==
    ASSUME TypeOK, UNCHANGED <<thread, shown, events, raced>>, client' \in ClientType,
           client'.pc = "sequence" => client'.behind = 0,
           client'.pc # "loop" => ~client'.whole,
           (Calm /\ client'.behind <= Len(events)) =>
              /\ client'.pc = "body" =>
                    Quiet(events, client'.behind) \/ Latest(events, client'.behind, shown)
              /\ client'.pc = "greet" \/ client'.whole =>
                    \/ Quiet(events, client'.behind) /\ client'.account = shown
                    \/ Latest(events, client'.behind, shown)
    PROVE  ViewHold
<1>1. Calm' <=> Calm
  BY DEF Calm, InEmit
<1> QED
  BY <1>1, TypeParts DEF ViewHold, ViewOK

\* Nothing is quieter than no event.
LEMMA QuietZero == ASSUME NEW s PROVE Quiet(s, 0)
  BY DEF Quiet

\* A client that is being disconnected.
LEMMA LeavingFacts ==
    ASSUME TypeOK
    PROVE  Leaving \in ClientType /\ Leaving.pc = "closing" /\ ~Leaving.whole
<1>1. client \in ClientType /\ NoClient \in ClientType
  BY TypeParts, IdleFacts
<1> QED
  BY <1>1, IdleFacts DEF Leaving, ClientType

\* Connect, the snapshot, and the ends of a connection.
LEMMA HandlerHolds ==
    ASSUME TypeOK, ViewOK,
           \/ Connect \/ SnapshotSequence \/ SnapshotBody \/ SendSnapshot \/ SnapshotFails
           \/ Closed \/ Disconnect \/ SessionEnds
    PROVE  ViewHold
<1>1. UNCHANGED <<thread, shown, events, raced>>
  BY DEF Connect, SnapshotSequence, SnapshotBody, SendSnapshot, SnapshotFails, Closed,
         Disconnect, SessionEnds
<1>2. /\ client \in ClientType /\ shown \in 0..MaxVersion /\ NoClient \in ClientType
      /\ Len(events) \in 0..(MaxEvents + 1)
  BY TypeParts, IdleFacts, BoundsAssumption
<1>3. CASE Connect
  <2>1. client' \in ClientType /\ client'.pc = "sequence" /\ ~client'.whole /\ client'.behind = 0
    BY <1>2, <1>3, IdleFacts DEF Connect, ClientType
  <2> QED
    BY <1>1, <2>1, ClientMoves
<1>4. CASE SnapshotSequence
  <2>1. client' \in ClientType /\ client'.pc = "body" /\ client'.whole = client.whole
           /\ client'.behind = client.behind
    BY <1>2, <1>4 DEF SnapshotSequence, ClientType
  <2>2. client.behind = 0 /\ ~client.whole
    BY <1>4 DEF SnapshotSequence, ViewOK
  <2>3. Quiet(events, client'.behind)
    BY <2>1, <2>2, QuietZero
  <2> QED
    BY <1>1, <2>1, <2>2, <2>3, ClientMoves
<1>5. CASE SnapshotBody
  <2>1. /\ client' \in ClientType /\ client'.pc = "greet" /\ client'.whole = client.whole
        /\ client'.behind = client.behind /\ client'.account = shown
    BY <1>2, <1>5 DEF SnapshotBody, ClientType
  <2>2. ~client.whole /\ client.pc = "body"
    BY <1>5 DEF SnapshotBody, ViewOK
  <2> QED
    BY <1>1, <2>1, <2>2, ClientMoves DEF ViewOK
<1>6. CASE SendSnapshot
  <2>1. /\ client' \in ClientType /\ client'.pc = "loop" /\ client'.whole
        /\ client'.behind = client.behind /\ client'.account = client.account
        /\ client.pc = "greet"
    BY <1>2, <1>6 DEF SendSnapshot, ClientType
  <2> QED
    BY <1>1, <2>1, ClientMoves DEF ViewOK
<1>7. CASE SnapshotFails
  <2>1. client' \in ClientType /\ client'.pc = "loop" /\ client'.whole = client.whole
    BY <1>2, <1>7 DEF SnapshotFails, ClientType
  <2>2. ~client.whole
    BY <1>7 DEF SnapshotFails, ViewOK
  <2> QED
    BY <1>1, <2>1, <2>2, ClientMoves
<1>8. CASE Closed
  <2>1. client' = NoClient
    BY <1>8 DEF Closed
  <2> QED
    BY <1>1, <2>1, IdleFacts, ClientMoves
<1>9. CASE Disconnect
  <2>1. client' = Leaving
    BY <1>9 DEF Disconnect
  <2> QED
    BY <1>1, <2>1, LeavingFacts, ClientMoves
<1>10. CASE SessionEnds
  <2>1. /\ client' \in ClientType /\ client'.pc = client.pc /\ client'.whole = client.whole
        /\ client'.behind = client.behind /\ client'.account = client.account
    BY <1>2, <1>10 DEF SessionEnds, ClientType
  <2> QED
    BY <1>1, <2>1, ClientMoves DEF ViewOK
<1> QED
  BY <1>3, <1>4, <1>5, <1>6, <1>7, <1>8, <1>9, <1>10

\* One turn of the socket's loop.
LEMMA LoopTurnHolds ==
    ASSUME TypeOK, ViewOK, NEW message, LoopTurn(message)
    PROVE  ViewHold
<1>1. UNCHANGED <<thread, shown, events, raced>> /\ client.pc = "loop"
  BY DEF LoopTurn
<1>2. CASE ~client.reg \/ message = "bad"
  <2>1. client' = Leaving
    BY <1>2 DEF LoopTurn
  <2> QED
    BY <1>1, <2>1, LeavingFacts, ClientMoves
<1>3. CASE ~(~client.reg \/ message = "bad")
  <2>1. PICK d, w : d = Displayed(Fetched) /\ w = (client.whole /\ client.behind <= Len(events))
    OBVIOUS
  <2>2. client' = [client EXCEPT !.account = d, !.behind = 0, !.whole = w]
    BY <1>3, <2>1 DEF LoopTurn
  <2>3. w \in BOOLEAN /\ (w => client.whole /\ client.behind <= Len(events))
    BY <2>1, Zenon
  <2>4. client \in ClientType /\ d \in 0..MaxVersion /\ 0 \in 0..(MaxEvents + 1)
    BY <2>1, DisplayedFacts, TypeParts, BoundsAssumption
  <2>5. /\ client' \in ClientType /\ client'.pc = "loop" /\ client'.account = d
        /\ client'.behind = 0 /\ client'.whole = w
    BY <1>1, <2>2, <2>3, <2>4 DEF ClientType
  <2>6. ASSUME Calm, w PROVE d = shown
    <3>1. client.behind <= Len(events) /\ client.whole
      BY <2>3, <2>6
    <3>2. \/ Quiet(events, client.behind) /\ client.account = shown
          \/ Latest(events, client.behind, shown)
      BY <2>6, <3>1 DEF ViewOK
    <3> QED
      BY <2>1, <3>1, <3>2, DisplayedFacts
  <2>7. Quiet(events, client'.behind)
    BY <2>5, QuietZero
  <2> QED
    BY <1>1, <2>5, <2>6, <2>7, ClientMoves
<1> QED
  BY <1>2, <1>3

(***************************************************************************)
(* The theorems.                                                           *)
(***************************************************************************)
\* A step of a caller other than Assign and AppendEvent emits nothing and
\* leaves the emissions under way as they are.
LEMMA CallerView ==
    ASSUME TypeOK, ViewOK, NEW t \in Threads,
           \/ Enter(t) \/ Load(t) \/ LoadFails(t) \/ Keep(t) \/ Compare(t) \/ Evaluate(t)
    PROVE  ViewHold
<1>1. UNCHANGED <<shown, events, raced, client>>
  BY DEF Enter, Load, LoadFails, Keep, Compare, Evaluate
<1>2. ASSUME NEW u \in Threads, InEmit(u) PROVE InEmit(u)'
  <2>1. thread \in [Threads -> ThreadType]
    BY TypeParts
  <2>2. CASE Evaluate(t)
    BY <1>2, <2>1, <2>2 DEF Evaluate, InEmit, ThreadType
  <2>3. CASE Enter(t) \/ Keep(t) \/ Compare(t)
    <3>1. u # t
      BY <1>2, <2>3 DEF Enter, Keep, Compare, InEmit, At
    <3>2. thread'[u] = thread[u]
      BY <2>1, <2>3, <3>1 DEF Enter, Keep, Compare, Goto
    <3> QED
      BY <1>2, <3>2 DEF InEmit
  <2>4. CASE Load(t) \/ LoadFails(t)
    <3>1. u # t
      BY <1>2, <2>4 DEF Load, LoadFails, InEmit, At
    <3>2. Notified \in [Threads -> ThreadType] /\ Notified[u].pc = thread[u].pc
      BY <1>2, NotifiedFacts DEF InEmit
    <3>3. thread'[u] = Notified[u]
      BY <2>4, <3>1, <3>2 DEF Load, LoadFails
    <3> QED
      BY <1>2, <3>2, <3>3 DEF InEmit
  <2> QED
    BY <2>2, <2>3, <2>4
<1>3. Calm' => Calm
  BY <1>1, <1>2 DEF Calm
<1> QED
  BY <1>1, <1>3, CalmStays

\* Every step preserves the invariant.
LEMMA NextHolds == IInv /\ [Next]_vars => IInv'
<1> SUFFICES ASSUME IInv, [Next]_vars PROVE CoreHold /\ ViewHold
  BY TypeParts DEF IInv, CoreHold, ViewHold, TypeOK, SyncType, ThreadType, ClientType
<1> USE DEF IInv
<1>1. ASSUME NEW t \in Threads, ThreadStep(t)
      PROVE  CoreHold /\ ViewHold
  <2>1. CASE Enter(t) \/ Load(t) \/ LoadFails(t) \/ Keep(t) \/ Compare(t) \/ Evaluate(t)
    BY <2>1, EnterHolds, LoadHolds, LoadFailsHolds, KeepHolds, CompareHolds, EvaluateHolds,
       CallerView
  <2>2. CASE AppendEvent(t)
    BY <2>2, AppendHolds, AppendView
  <2>3. CASE Assign(t)
    <3>1. CoreHold /\ InEmit(t)'
      BY <2>3, AssignHolds
    <3>2. UNCHANGED <<events, client>>
      BY <2>3 DEF Assign
    <3> QED
      BY <3>1, <3>2, CalmStays DEF Calm
  <2> QED
    BY <1>1, <2>1, <2>2, <2>3 DEF ThreadStep
<1>2. CASE Close
  <2>1. UNCHANGED <<shown, events, raced, client>>
    BY <1>2 DEF Close
  <2>2. \A u \in Threads : InEmit(u) => InEmit(u)'
    BY <1>2, NotifiedFacts DEF Close, InEmit
  <2> QED
    BY <1>2, <2>1, <2>2, CloseHolds, CalmStays DEF Calm
<1>3. CASE OtherEvent
  <2>1. UNCHANGED <<truth, sync, thread, shown, raced>>
    BY <1>3 DEF OtherEvent
  <2> QED
    BY <1>3, <2>1, CoreSame, OtherEventHolds
<1>4. CASE \/ Connect \/ SnapshotSequence \/ SnapshotBody \/ SendSnapshot \/ SnapshotFails
           \/ Closed \/ Disconnect \/ SessionEnds
  <2>1. UNCHANGED <<truth, sync, thread, shown, raced>>
    BY <1>4 DEF Connect, SnapshotSequence, SnapshotBody, SendSnapshot, SnapshotFails, Closed,
         Disconnect, SessionEnds
  <2> QED
    BY <1>4, <2>1, CoreSame, HandlerHolds
<1>5. ASSUME NEW message, LoopTurn(message)
      PROVE  CoreHold /\ ViewHold
  <2>1. UNCHANGED <<truth, sync, thread, shown, raced>>
    BY <1>5 DEF LoopTurn
  <2> QED
    BY <1>5, <2>1, CoreSame, LoopTurnHolds
<1>6. CASE AccountChanges \/ ProjectionAges
  <2>1. UNCHANGED <<thread, shown, events, raced, client>>
    BY <1>6 DEF AccountChanges, ProjectionAges
  <2>2. Calm' => Calm
    BY <2>1 DEF Calm, InEmit
  <2> QED
    BY <1>6, <2>1, <2>2, WorldHolds, CalmStays
<1>7. CASE UNCHANGED vars
  <2>1. Calm' => Calm
    BY <1>7 DEF vars, Calm, InEmit
  <2> QED
    BY <1>7, <2>1, CoreSame, CalmStays DEF vars
<1> QED
  BY <1>1, <1>2, <1>3, <1>4, <1>5, <1>6, <1>7 DEF Next, HandlerStep

\* The invariant of the account's way to the screen.
THEOREM Invariance == Spec => []IInv
  BY InitHolds, NextHolds, PTL DEF Spec

\* Every variable of the feed has its type.
THEOREM TypeCorrect == Spec => []TypeOK
<1>1. IInv => TypeOK
  BY DEF IInv
<1> QED
  BY <1>1, Invariance, PTL

\* The single-flight gate: one loader, the flag is set while it loads, and
\* nobody sleeps at an open gate.
THEOREM GateLetsOneLoad == Spec => []SingleFlight
<1>1. ASSUME IInv PROVE SingleFlight
  <2> DEFINE loaders == {t \in Threads : At(t, "load")}
  <2>1. CASE sync.running
    <3>1. PICK t \in Threads : loaders = {t}
      BY <1>1, <2>1 DEF IInv, LoaderOK
    <3>2. Cardinality(loaders) = 1
      BY <3>1, FS_Singleton
    <3> QED
      BY <1>1, <2>1, <3>2 DEF IInv, LoaderOK, SingleFlight
  <2>2. CASE ~sync.running
    <3>1. loaders = {}
      BY <1>1, <2>2 DEF IInv, LoaderOK
    <3>2. Cardinality(loaders) = 0
      BY <3>1, FS_EmptySet
    <3> QED
      BY <1>1, <2>2, <3>2 DEF IInv, LoaderOK, SingleFlight
  <2> QED
    BY <2>1, <2>2
<1> QED
  BY <1>1, Invariance, PTL

\* The browser displays what the service shows, wherever between the reads of
\* the snapshot the account changed.
THEOREM BrowserConverges == Spec => []ViewConverges
<1>1. ASSUME IInv PROVE ViewConverges
  <2> SUFFICES ASSUME client.pc = "loop", client.behind = 0, client.whole,
                      \A t \in Threads : ~InEmit(t), ~raced
               PROVE  client.account = shown
    BY DEF ViewConverges
  <2>1. Calm /\ client.behind <= Len(events)
    <3>1. Len(events) \in Nat
      BY <1>1 DEF IInv, TypeOK
    <3> QED
      BY <3>1 DEF Calm
  <2>2. ~Latest(events, 0, shown)
    BY DEF Latest
  <2> QED
    BY <1>1, <2>1, <2>2 DEF IInv, ViewOK
<1> QED
  BY <1>1, Invariance, PTL
=============================================================================
