-------------------------- MODULE McpChannelProofs --------------------------
(***************************************************************************)
(* Proofs about McpChannel, for every set of callers, every bound on       *)
(* requests and on lines that answer nothing and every size of the pipe:   *)
(* what place_order reports to its caller is true, and no call consumes    *)
(* the answer another one waits for.                                       *)
(***************************************************************************)
EXTENDS McpChannel, SequenceTheorems, TLAPS

\* The type of a call.
CallType == [pc : {"idle", "lock", "write", "read"}, kind : Kind, id : Ids \cup {0}]

\* Requests and lines under way.
Pending == work \cup LinesOf(stdin)
Lines == LinesOf(stdout) \cup LinesOf(buffer)

(***************************************************************************)
(* The inductive invariant.                                                *)
(***************************************************************************)
\* _request_lock covers the whole exchange: only its owner has a request id,
\* nobody was told anything about that id, and it is not on the wire before
\* it is written.
HolderOK ==
    \A c \in Callers :
        /\ call[c].pc \in {"write", "read"} => lock = c /\ call[c].id \in Ids
        /\ call[c].pc \in {"idle", "lock"} => call[c].id = 0
        /\ call[c].id # 0 => call[c].id < nextId /\ result[call[c].id] = "none"
        /\ call[c].pc = "write" => call[c].id \notin InFlight \cup Answered

\* Ids are handed out in order: one not handed out yet is nowhere.
IdsOK ==
    /\ \A i \in InFlight \cup Answered : i < nextId
    /\ \A i \in Ids : result[i] # "none" => i < nextId

\* The child has each request once, and answers it once.
OnceOK ==
    /\ \A r, s \in work : r.id = s.id => r = s
    /\ \A r \in work : \A j \in 1..Len(stdin) : stdin[j].id # r.id
    /\ \A j, k \in 1..Len(stdin) : stdin[j].id = stdin[k].id => j = k
    /\ InFlight \cap Answered = {}

\* A request says what its caller asked for, and the answer to a placement
\* says whether the exchange took the order (if it can be read at all).
AnswersOK ==
    \A c \in Callers :
        /\ \A r \in Pending : r.id = call[c].id => r.kind = call[c].kind
        /\ \A l \in Lines : l.id = call[c].id /\ l.id # 0 /\ call[c].kind = "place"
              /\ l.says # "malformed"
              => (l.says \in {"ok", "unstructured"} <=> l.id \in taken)

\* The inductive invariant.
IInv == TypeOK /\ HolderOK /\ IdsOK /\ OnceOK /\ AnswersOK /\ OutcomeIsTrue

(***************************************************************************)
(* Lines of a pipe.                                                        *)
(***************************************************************************)
\* A line written is the only new one.
LEMMA LinesAppend ==
    ASSUME NEW S, NEW s \in Seq(S), NEW x \in S
    PROVE  LinesOf(Append(s, x)) = LinesOf(s) \cup {x}
<1>1. PICK w : w = Append(s, x)
  OBVIOUS
<1>2. /\ Len(w) = Len(s) + 1 /\ Len(s) \in Nat /\ w[Len(s) + 1] = x
      /\ \A j \in 1..Len(s) : w[j] = s[j]
  BY <1>1
<1>3. LinesOf(w) \subseteq LinesOf(s) \cup {x}
  <2> SUFFICES ASSUME NEW j \in 1..Len(w) PROVE w[j] \in LinesOf(s) \cup {x}
    BY DEF LinesOf
  <2>1. j = Len(s) + 1 \/ j \in 1..Len(s)
    BY <1>2
  <2> QED
    BY <1>2, <2>1 DEF LinesOf
<1>4. x \in LinesOf(w)
  <2>1. Len(s) + 1 \in 1..Len(w)
    BY <1>2
  <2> QED
    BY <1>2, <2>1 DEF LinesOf
<1>5. LinesOf(s) \subseteq LinesOf(w)
  <2> SUFFICES ASSUME NEW j \in 1..Len(s) PROVE s[j] \in LinesOf(w)
    BY DEF LinesOf
  <2>1. j \in 1..Len(w) /\ w[j] = s[j]
    BY <1>2
  <2> QED
    BY <2>1 DEF LinesOf
<1> QED
  BY <1>1, <1>3, <1>4, <1>5

\* A line read is the only one that goes.
LEMMA LinesTail ==
    ASSUME NEW S, NEW s \in Seq(S), s # <<>>
    PROVE  /\ Head(s) \in S /\ Tail(s) \in Seq(S)
           /\ LinesOf(s) = {Head(s)} \cup LinesOf(Tail(s))
<1>1. PICK t : t = Tail(s)
  OBVIOUS
<1>2. /\ Len(s) \in Nat \ {0} /\ Head(s) = s[1] /\ s[1] \in S
      /\ t \in Seq(S) /\ Len(t) = Len(s) - 1
      /\ \A j \in 1..Len(t) : t[j] = s[j + 1]
  BY <1>1
<1>3. LinesOf(s) \subseteq {Head(s)} \cup LinesOf(t)
  <2> SUFFICES ASSUME NEW j \in 1..Len(s), j # 1 PROVE s[j] \in LinesOf(t)
    BY <1>2 DEF LinesOf
  <2>1. j - 1 \in 1..Len(t) /\ (j - 1) + 1 = j
    BY <1>2
  <2>2. t[j - 1] = s[j]
    BY <1>2, <2>1
  <2> QED
    BY <2>1, <2>2 DEF LinesOf
<1>4. Head(s) \in LinesOf(s)
  <2>1. 1 \in 1..Len(s)
    BY <1>2
  <2> QED
    BY <1>2, <2>1 DEF LinesOf
<1>5. LinesOf(t) \subseteq LinesOf(s)
  <2> SUFFICES ASSUME NEW j \in 1..Len(t) PROVE t[j] \in LinesOf(s)
    BY DEF LinesOf
  <2>1. j + 1 \in 1..Len(s) /\ t[j] = s[j + 1]
    BY <1>2
  <2> QED
    BY <2>1 DEF LinesOf
<1> QED
  BY <1>1, <1>2, <1>3, <1>4, <1>5

\* A chunk fetched and the rest of the pipe hold what the pipe held.
LEMMA LinesSplit ==
    ASSUME NEW S, NEW s \in Seq(S), NEW n \in 1..Len(s)
    PROVE  /\ SubSeq(s, 1, n) \in Seq(S) /\ SubSeq(s, 1, n) # <<>>
           /\ SubSeq(s, n + 1, Len(s)) \in Seq(S)
           /\ LinesOf(s) = LinesOf(SubSeq(s, 1, n)) \cup LinesOf(SubSeq(s, n + 1, Len(s)))
<1>1. PICK f, u : f = SubSeq(s, 1, n) /\ u = SubSeq(s, n + 1, Len(s))
  OBVIOUS
<1>2. Len(s) \in Nat /\ n \in Nat /\ n <= Len(s)
  OBVIOUS
<1>3. f \in Seq(S) /\ Len(f) = n /\ \A j \in 1..n : f[j] = s[j]
  BY <1>1, <1>2
<1>4. /\ u \in Seq(S) /\ Len(u) = Len(s) - n
      /\ \A j \in 1..(Len(s) - n) : u[j] = s[n + j]
  <2>1. /\ n + 1 \in 1..(Len(s) + 1) /\ Len(s) \in (n + 1) - 1 .. Len(s)
        /\ \A j \in 1..(Len(s) - n) : (n + 1) + j - 1 = n + j
        /\ Len(s) - (n + 1) + 1 = Len(s) - n
    BY <1>2
  <2>2. \A i \in (n + 1)..Len(s) : s[i] \in S
    BY <1>2
  <2>3. Len(u) = Len(s) - n /\ \A j \in 1..(Len(s) - n) : u[j] = s[n + j]
    BY <1>1, <1>2
  <2>4. u \in Seq(S)
    BY <1>1, <1>2, <2>2
  <2> QED
    BY <2>3, <2>4
<1>5. LinesOf(f) \subseteq LinesOf(s)
  <2> SUFFICES ASSUME NEW j \in 1..Len(f) PROVE f[j] \in LinesOf(s)
    BY DEF LinesOf
  <2>1. j \in 1..Len(s) /\ f[j] = s[j]
    BY <1>2, <1>3
  <2> QED
    BY <2>1 DEF LinesOf
<1>6. LinesOf(u) \subseteq LinesOf(s)
  <2> SUFFICES ASSUME NEW j \in 1..Len(u) PROVE u[j] \in LinesOf(s)
    BY DEF LinesOf
  <2>1. n + j \in 1..Len(s) /\ u[j] = s[n + j]
    BY <1>2, <1>4
  <2> QED
    BY <2>1 DEF LinesOf
<1>7. LinesOf(s) \subseteq LinesOf(f) \cup LinesOf(u)
  <2> SUFFICES ASSUME NEW j \in 1..Len(s) PROVE s[j] \in LinesOf(f) \cup LinesOf(u)
    BY DEF LinesOf
  <2>1. CASE j <= n
    <3>1. j \in 1..Len(f) /\ f[j] = s[j]
      BY <1>3, <2>1
    <3> QED
      BY <3>1 DEF LinesOf
  <2>2. CASE ~(j <= n)
    <3>1. j - n \in 1..Len(u) /\ n + (j - n) = j
      BY <1>2, <1>4, <2>2
    <3>2. u[j - n] = s[j]
      BY <1>4, <3>1
    <3> QED
      BY <3>1, <3>2 DEF LinesOf
  <2> QED
    BY <2>1, <2>2
<1>8. f # <<>>
  BY <1>3
<1> QED
  BY <1>1, <1>3, <1>4, <1>5, <1>6, <1>7, <1>8

\* A typed state's requests and lines.
LEMMA TypesAre ==
    ASSUME TypeOK
    PROVE  /\ call \in [Callers -> CallType] /\ nextId \in Nat
           /\ Pending \subseteq Request /\ Lines \subseteq Line
           /\ InFlight = {r.id : r \in Pending} /\ Answered = {l.id : l \in Lines}
           /\ \A r \in Pending : r.id \in Ids
           /\ \A l \in Lines : l.id \in Ids \cup {0}
           /\ Ids \subseteq Nat /\ 0 \notin Ids
<1>1. call \in [Callers -> CallType] /\ nextId \in Nat
  BY BoundsAssumption DEF TypeOK, CallType
<1>2. \A s \in Seq(Request) : LinesOf(s) \subseteq Request
  BY DEF LinesOf
<1>3. \A s \in Seq(Line) : LinesOf(s) \subseteq Line
  BY DEF LinesOf
<1>4. Pending \subseteq Request /\ Lines \subseteq Line
  BY <1>2, <1>3 DEF Pending, Lines, TypeOK
<1>5. InFlight = {r.id : r \in Pending} /\ Answered = {l.id : l \in Lines}
  BY DEF InFlight, Answered, Pending, Lines
<1>6. /\ \A r \in Pending : r.id \in Ids
      /\ \A l \in Lines : l.id \in Ids \cup {0}
  BY <1>4 DEF Request, Line
<1>7. Ids \subseteq Nat /\ 0 \notin Ids
  BY BoundsAssumption DEF Ids
<1> QED
  BY <1>1, <1>4, <1>5, <1>6, <1>7

(***************************************************************************)
(* Callers.                                                                *)
(***************************************************************************)
\* The initial states satisfy the invariant.
LEMMA InitHolds == Init => IInv
<1> SUFFICES ASSUME Init PROVE IInv
  OBVIOUS
<1>1. /\ call = [c \in Callers |-> IdleCall] /\ lock = NoCaller /\ nextId = 1
      /\ stdin = <<>> /\ work = {} /\ stdout = <<>> /\ buffer = <<>>
      /\ partial = FALSE /\ blocked = FALSE
      /\ alive = TRUE /\ taken = {} /\ result = [i \in Ids |-> "none"] /\ noise = 0
  BY DEF Init
<1>2. IdleCall \in CallType
  BY DEF IdleCall, CallType, Kind
<1>3. TypeOK
  <2>1. call \in [Callers -> CallType]
    BY <1>1, <1>2
  <2>2. result \in [Ids -> Told]
    BY <1>1 DEF Told
  <2>3. nextId \in 1..(MaxRequests + 1) /\ noise \in 0..MaxNoise
    BY <1>1, BoundsAssumption
  <2>4. stdin \in Seq(Request) /\ stdout \in Seq(Line) /\ buffer \in Seq(Line)
    BY <1>1
  <2>5. partial \in BOOLEAN /\ blocked \in BOOLEAN /\ alive \in BOOLEAN
    BY <1>1, Zenon
  <2> QED
    BY <1>1, <2>1, <2>2, <2>3, <2>4, <2>5 DEF TypeOK, CallType
<1>4. Len(stdin) = 0 /\ Len(stdout) = 0 /\ Len(buffer) = 0
  BY <1>1
<1>5. LinesOf(stdin) = {} /\ LinesOf(stdout) = {} /\ LinesOf(buffer) = {}
  BY <1>4 DEF LinesOf
<1>6. Pending = {} /\ Lines = {}
  BY <1>1, <1>5 DEF Pending, Lines
<1>7. InFlight = {} /\ Answered = {}
  BY <1>3, <1>6, TypesAre
<1>8. \A c \in Callers : call[c].pc = "idle" /\ call[c].id = 0
  BY <1>1 DEF IdleCall
<1>9. HolderOK
  BY <1>8 DEF HolderOK
<1>10. IdsOK
  BY <1>1, <1>7 DEF IdsOK
<1>11. OnceOK
  BY <1>1, <1>4, <1>7 DEF OnceOK
<1>12. AnswersOK
  BY <1>6 DEF AnswersOK
<1>13. OutcomeIsTrue
  BY <1>1 DEF OutcomeIsTrue
<1> QED
  BY <1>3, <1>9, <1>10, <1>11, <1>12, <1>13 DEF IInv

\* A caller that has no request yet starts or gives up: begin, and the timeout
\* of the lock.
LEMMA FreshCallHolds ==
    ASSUME IInv, NEW c \in Callers, call[c].pc \in {"idle", "lock"},
           NEW w \in CallType, w.pc \in {"idle", "lock"}, w.id = 0,
           call' = [call EXCEPT ![c] = w],
           UNCHANGED <<lock, nextId, stdin, work, stdout, partial, buffer, blocked, alive, taken,
                       result, noise>>
    PROVE  IInv'
<1>1. TypeOK /\ HolderOK /\ IdsOK /\ OnceOK /\ AnswersOK /\ OutcomeIsTrue
  BY DEF IInv
<1>2. call \in [Callers -> CallType]
  BY <1>1, TypesAre
<1>3. /\ call' \in [Callers -> CallType] /\ call'[c] = w
      /\ \A d \in Callers : d # c => call'[d] = call[d]
  BY <1>2
<1>4. TypeOK'
  BY <1>1, <1>3 DEF TypeOK, CallType
<1>5. InFlight' = InFlight /\ Answered' = Answered /\ Pending' = Pending /\ Lines' = Lines
  BY DEF InFlight, Answered, Pending, Lines, LinesOf
<1>6. HolderOK'
  <2> SUFFICES ASSUME NEW d \in Callers
               PROVE  /\ call'[d].pc \in {"write", "read"} => lock = d /\ call'[d].id \in Ids
                      /\ call'[d].pc \in {"idle", "lock"} => call'[d].id = 0
                      /\ call'[d].id # 0 => call'[d].id < nextId /\ result[call'[d].id] = "none"
                      /\ call'[d].pc = "write" => call'[d].id \notin InFlight \cup Answered
    BY <1>5 DEF HolderOK
  <2>1. CASE d = c
    BY <1>3, <2>1
  <2>2. CASE d # c
    BY <1>1, <1>3, <2>2 DEF HolderOK
  <2> QED
    BY <2>1, <2>2
<1>7. IdsOK'
  BY <1>1, <1>5 DEF IdsOK
<1>8. OnceOK'
  BY <1>1, <1>5 DEF OnceOK
<1>9. AnswersOK'
  <2> SUFFICES ASSUME NEW d \in Callers
               PROVE  /\ \A r \in Pending : r.id = call'[d].id => r.kind = call'[d].kind
                      /\ \A l \in Lines : l.id = call'[d].id /\ l.id # 0 /\ call'[d].kind = "place"
                            /\ l.says # "malformed"
                            => (l.says \in {"ok", "unstructured"} <=> l.id \in taken)
    BY <1>5 DEF AnswersOK
  <2>1. CASE d = c
    <3>1. \A r \in Pending : r.id # 0
      BY <1>1, TypesAre
    <3> QED
      BY <1>3, <2>1, <3>1
  <2>2. CASE d # c
    BY <1>1, <1>3, <2>2 DEF AnswersOK
  <2> QED
    BY <2>1, <2>2
<1>10. OutcomeIsTrue'
  BY <1>1, <1>5 DEF OutcomeIsTrue
<1> QED
  BY <1>4, <1>6, <1>7, <1>8, <1>9, <1>10 DEF IInv

\* Only a placement is reported placed or rejected, and only by what a line said.
LEMMA ClassifiedIs ==
    ASSUME NEW c, NEW e, call[c].kind \in Kind
    PROVE  /\ Classified(c, e) = "placed" => call[c].kind = "place" /\ e = "ok"
           /\ Classified(c, e) = "rejected"
                 => call[c].kind = "place" /\ e \in {"toolError", "rpcError"}
<1>1. PICK k : k = call[c].kind
  OBVIOUS
<1>2. CASE k = "read"
  <2>1. Classified(c, e) = "none"
    BY <1>1, <1>2 DEF Classified
  <2> QED
    BY <2>1
<1>3. CASE k = "place"
  <2>1. CASE e = "ok"
    <3>1. Classified(c, e) = "placed"
      BY <1>1, <1>3, <2>1 DEF Classified
    <3> QED
      BY <1>1, <1>3, <2>1, <3>1
  <2>2. CASE e \in {"toolError", "rpcError"}
    <3>1. Classified(c, e) = "rejected"
      BY <1>1, <1>3, <2>2 DEF Classified
    <3> QED
      BY <1>1, <1>3, <2>2, <3>1
  <2>2a. CASE e = "malformed"
    <3>1. Classified(c, e) = "raised"
      BY <1>1, <1>3, <2>2a DEF Classified
    <3> QED
      BY <3>1
  <2>3. CASE e # "ok" /\ e \notin {"toolError", "rpcError"} /\ e # "malformed"
    <3>1. Classified(c, e) = "uncertain"
      BY <1>1, <1>3, <2>3 DEF Classified
    <3> QED
      BY <3>1
  <2> QED
    BY <2>1, <2>2, <2>2a, <2>3
<1> QED
  BY <1>1, <1>2, <1>3 DEF Kind

\* A call that holds the lock ends, and what it tells is true.
LEMMA ReturnHolds ==
    ASSUME IInv, NEW c \in Callers, NEW end, call[c].pc \in {"write", "read"}, Return(c, end),
           UNCHANGED <<nextId, stdin, work, partial, alive, taken, noise>>,
           blocked' \in BOOLEAN,
           stdout' \in Seq(Line), buffer' \in Seq(Line), Lines' \subseteq Lines,
           Classified(c, end) = "placed" => call[c].id \in taken,
           Classified(c, end) = "rejected" => call[c].id \notin taken \cup InFlight
    PROVE  IInv'
<1>1. TypeOK /\ HolderOK /\ IdsOK /\ OnceOK /\ AnswersOK /\ OutcomeIsTrue
  BY DEF IInv
<1>2. call \in [Callers -> CallType] /\ result \in [Ids -> Told]
  BY <1>1, TypesAre DEF TypeOK
<1>3. PICK i, t : i = call[c].id /\ t = Classified(c, end)
  OBVIOUS
<1>4. i \in Ids /\ i # 0 /\ i < nextId /\ lock = c
  BY <1>1, <1>3, TypesAre DEF HolderOK
<1>5. t \in Told
  BY <1>3 DEF Classified, Told
<1>6. /\ result' = [result EXCEPT ![i] = t] /\ call' = [call EXCEPT ![c] = IdleCall]
      /\ lock' = NoCaller
  BY <1>3 DEF Return
<1>7. IdleCall \in CallType /\ IdleCall.pc = "idle" /\ IdleCall.id = 0
  BY DEF IdleCall, CallType, Kind
<1>8. /\ call' \in [Callers -> CallType] /\ call'[c] = IdleCall
      /\ \A d \in Callers : d # c => call'[d] = call[d]
  BY <1>2, <1>6, <1>7
<1>9. /\ result' \in [Ids -> Told] /\ result'[i] = t
      /\ \A j \in Ids : j # i => result'[j] = result[j]
  BY <1>2, <1>4, <1>5, <1>6
<1>10. TypeOK'
  BY <1>1, <1>6, <1>8, <1>9 DEF TypeOK, CallType
<1>11. Pending' = Pending /\ InFlight' = InFlight
  BY DEF InFlight, Pending, LinesOf
<1>12. Answered' \subseteq Answered
  <2>1. Answered' = {l.id : l \in Lines'} /\ Answered = {l.id : l \in Lines}
    BY DEF Answered, Lines
  <2> QED
    BY <2>1
<1>13. \A d \in Callers : call'[d].pc = "idle" \/ call'[d].pc = "lock"
  <2> SUFFICES ASSUME NEW d \in Callers, d # c PROVE call[d].pc = "idle" \/ call[d].pc = "lock"
    BY <1>7, <1>8
  <2>1. call[d].pc \in {"idle", "lock", "write", "read"}
    BY <1>2 DEF CallType
  <2>2. ~(call[d].pc \in {"write", "read"})
    BY <1>1, <1>4 DEF HolderOK
  <2> QED
    BY <2>1, <2>2
<1>14. \A d \in Callers : call'[d].id = 0
  BY <1>1, <1>7, <1>8, <1>13 DEF HolderOK
<1>15. HolderOK'
  BY <1>13, <1>14 DEF HolderOK
<1>16. IdsOK'
  <2>1. \A j \in InFlight' \cup Answered' : j < nextId'
    BY <1>1, <1>11, <1>12 DEF IdsOK
  <2>2. \A j \in Ids : result'[j] # "none" => j < nextId'
    BY <1>1, <1>4, <1>9 DEF IdsOK
  <2> QED
    BY <2>1, <2>2 DEF IdsOK
<1>17. OnceOK'
  BY <1>1, <1>11, <1>12 DEF OnceOK
<1>18. AnswersOK'
  <2>1. \A r \in Pending' : r.id # 0
    BY <1>1, <1>11, TypesAre
  <2> QED
    BY <1>14, <2>1 DEF AnswersOK
<1>19. OutcomeIsTrue'
  <2> SUFFICES ASSUME NEW j \in Ids
               PROVE  /\ result'[j] = "placed" => j \in taken
                      /\ result'[j] = "rejected" => j \notin taken \cup InFlight
    BY <1>11 DEF OutcomeIsTrue
  <2>1. CASE j = i
    BY <1>3, <1>9, <2>1
  <2>2. CASE j # i
    BY <1>1, <1>9, <2>2 DEF OutcomeIsTrue
  <2> QED
    BY <2>1, <2>2
<1> QED
  BY <1>10, <1>15, <1>16, <1>17, <1>18, <1>19 DEF IInv

\* _next_id gives the owner of the lock an id that is nowhere.
LEMMA AcquireHolds ==
    ASSUME IInv, NEW c \in Callers, Acquire(c)
    PROVE  IInv'
<1>1. TypeOK /\ HolderOK /\ IdsOK /\ OnceOK /\ AnswersOK /\ OutcomeIsTrue
  BY DEF IInv
<1>2. call \in [Callers -> CallType] /\ nextId \in Nat /\ result \in [Ids -> Told]
  BY <1>1, TypesAre DEF TypeOK
<1>3. /\ call[c].pc = "lock" /\ lock = NoCaller /\ nextId <= MaxRequests
      /\ lock' = c /\ nextId' = nextId + 1
      /\ call' = [call EXCEPT ![c].pc = "write", ![c].id = nextId]
      /\ UNCHANGED <<stdin, work, stdout, partial, buffer, blocked, alive, taken, result, noise>>
  BY DEF Acquire, At
<1>4. nextId \in Ids /\ nextId # 0 /\ nextId' \in 1..(MaxRequests + 1)
  BY <1>1, <1>2, <1>3, BoundsAssumption DEF Ids, TypeOK
<1>5. PICK w : w = [[call[c] EXCEPT !.pc = "write"] EXCEPT !.id = nextId]
  OBVIOUS
<1>6. w \in CallType /\ w.pc = "write" /\ w.id = nextId /\ w.kind = call[c].kind
  BY <1>2, <1>4, <1>5 DEF CallType
<1>7. /\ call' \in [Callers -> CallType] /\ call'[c] = w
      /\ \A d \in Callers : d # c => call'[d] = call[d]
  BY <1>2, <1>3, <1>5, <1>6
<1>8. TypeOK'
  BY <1>1, <1>3, <1>4, <1>7 DEF TypeOK, CallType
<1>9. InFlight' = InFlight /\ Answered' = Answered /\ Pending' = Pending /\ Lines' = Lines
  BY <1>3 DEF InFlight, Answered, Pending, Lines, LinesOf
<1>10. nextId \notin InFlight \cup Answered /\ result[nextId] = "none"
  BY <1>1, <1>2, <1>4 DEF IdsOK
<1>11. \A d \in Callers : ~(call[d].pc \in {"write", "read"}) /\ call[d].id = 0
  <2> SUFFICES ASSUME NEW d \in Callers
               PROVE  ~(call[d].pc \in {"write", "read"}) /\ call[d].id = 0
    OBVIOUS
  <2>1. call[d].pc \in {"idle", "lock", "write", "read"}
    BY <1>2 DEF CallType
  <2>2. ~(call[d].pc \in {"write", "read"})
    BY <1>1, <1>3, CallersAssumption DEF HolderOK
  <2> QED
    BY <1>1, <2>1, <2>2 DEF HolderOK
<1>12. HolderOK'
  <2> SUFFICES ASSUME NEW d \in Callers
               PROVE  /\ call'[d].pc \in {"write", "read"} => c = d /\ call'[d].id \in Ids
                      /\ call'[d].pc \in {"idle", "lock"} => call'[d].id = 0
                      /\ call'[d].id # 0 => call'[d].id < nextId' /\ result[call'[d].id] = "none"
                      /\ call'[d].pc = "write" => call'[d].id \notin InFlight \cup Answered
    BY <1>3, <1>9 DEF HolderOK
  <2>1. CASE d = c
    <3>1. nextId < nextId'
      BY <1>2, <1>3
    <3> QED
      BY <1>4, <1>6, <1>7, <1>10, <2>1, <3>1
  <2>2. CASE d # c
    BY <1>7, <1>11, <2>2
  <2> QED
    BY <2>1, <2>2
<1>13. IdsOK'
  <2>1. InFlight \subseteq Nat /\ Answered \subseteq Nat
    BY <1>1, TypesAre
  <2>2. \A j \in InFlight' \cup Answered' : j < nextId'
    BY <1>1, <1>2, <1>3, <1>9, <2>1 DEF IdsOK
  <2>3. Ids \subseteq Nat
    BY <1>1, TypesAre
  <2>4. \A j \in Ids : result'[j] # "none" => j < nextId'
    BY <1>1, <1>2, <1>3, <2>3 DEF IdsOK
  <2> QED
    BY <2>2, <2>4 DEF IdsOK
<1>14. OnceOK'
  BY <1>1, <1>3, <1>9 DEF OnceOK
<1>15. AnswersOK'
  <2> SUFFICES ASSUME NEW d \in Callers
               PROVE  /\ \A r \in Pending : r.id = call'[d].id => r.kind = call'[d].kind
                      /\ \A l \in Lines : l.id = call'[d].id /\ l.id # 0 /\ call'[d].kind = "place"
                            /\ l.says # "malformed"
                            => (l.says \in {"ok", "unstructured"} <=> l.id \in taken)
    BY <1>3, <1>9 DEF AnswersOK
  <2>1. CASE d = c
    <3>1. (\A r \in Pending : r.id # nextId) /\ (\A l \in Lines : l.id # nextId)
      BY <1>1, <1>10, TypesAre
    <3> QED
      BY <1>6, <1>7, <2>1, <3>1
  <2>2. CASE d # c
    BY <1>1, <1>7, <2>2 DEF AnswersOK
  <2> QED
    BY <2>1, <2>2
<1>16. OutcomeIsTrue'
  BY <1>1, <1>3, <1>9 DEF OutcomeIsTrue
<1> QED
  BY <1>8, <1>12, <1>13, <1>14, <1>15, <1>16 DEF IInv

\* A request reaches the pipe once, as its caller asked for it, or its caller
\* finds the pipe broken and tells nothing false.
LEMMA WriteHolds ==
    ASSUME IInv, NEW c \in Callers, Write(c)
    PROVE  IInv'
<1>1. TypeOK /\ HolderOK /\ IdsOK /\ OnceOK /\ AnswersOK /\ OutcomeIsTrue
  BY DEF IInv
<1>2. call \in [Callers -> CallType] /\ nextId \in Nat /\ result \in [Ids -> Told]
  BY <1>1, TypesAre DEF TypeOK
<1>3. /\ call[c].pc = "write"
      /\ UNCHANGED <<nextId, work, stdout, partial, buffer, blocked, alive, taken, noise>>
  BY DEF Write, At
<1>4. Lines' = Lines /\ Answered' = Answered
  BY <1>3 DEF Answered, Lines, LinesOf
<1>5. CASE ~alive
  <2>1. Return(c, "brokenPipe") /\ stdin' = stdin
    BY <1>5 DEF Write
  <2>2. Classified(c, "brokenPipe") \in {"none", "uncertain"}
    BY DEF Classified
  <2>3. stdout' \in Seq(Line) /\ buffer' \in Seq(Line) /\ blocked' \in BOOLEAN
    BY <1>1, <1>3 DEF TypeOK
  <2> QED
    BY <1>3, <1>4, <2>1, <2>2, <2>3, ReturnHolds
<1>6. CASE alive
  <2>1. PICK q, i : i = call[c].id /\ q = [id |-> i, kind |-> call[c].kind]
    OBVIOUS
  <2>2. /\ stdin' = Append(stdin, q) /\ lock' = lock /\ result' = result
        /\ call' = [call EXCEPT ![c].pc = "read"]
    BY <1>6, <2>1 DEF Write
  <2>3. /\ i \in Ids /\ i # 0 /\ lock = c /\ i < nextId /\ result[i] = "none"
        /\ i \notin InFlight \cup Answered
    BY <1>1, <1>3, <2>1, TypesAre DEF HolderOK
  <2>4. q \in Request /\ q.id = i /\ q.kind = call[c].kind
    BY <1>2, <2>1, <2>3 DEF Request, CallType
  <2>5. PICK w : w = [call[c] EXCEPT !.pc = "read"]
    OBVIOUS
  <2>6. w \in CallType /\ w.pc = "read" /\ w.id = i /\ w.kind = call[c].kind
    BY <1>2, <2>1, <2>5 DEF CallType
  <2>7. /\ call' \in [Callers -> CallType] /\ call'[c] = w
        /\ \A d \in Callers : d # c => call'[d] = call[d]
    BY <1>2, <2>2, <2>5, <2>6
  <2>8. stdin \in Seq(Request) /\ stdin' \in Seq(Request)
    BY <1>1, <2>2, <2>4 DEF TypeOK
  <2>9. TypeOK'
    BY <1>1, <1>3, <2>2, <2>7, <2>8 DEF TypeOK, CallType
  <2>10. LinesOf(stdin') = LinesOf(stdin) \cup {q}
    BY <2>2, <2>4, <2>8, LinesAppend
  <2>11. Pending' = Pending \cup {q}
    BY <1>3, <2>10 DEF Pending
  <2>12. InFlight' = InFlight \cup {i}
    <3>1. InFlight' = {r.id : r \in Pending'} /\ InFlight = {r.id : r \in Pending}
      BY DEF InFlight, Pending
    <3> QED
      BY <2>4, <2>11, <3>1
  <2>13. \A d \in Callers : d # c => call'[d] = call[d] /\ call[d].pc \in {"idle", "lock"}
                                     /\ call[d].id = 0
    <3> SUFFICES ASSUME NEW d \in Callers, d # c
                 PROVE  call[d].pc \in {"idle", "lock"} /\ call[d].id = 0
      BY <2>7
    <3>1. call[d].pc \in {"idle", "lock", "write", "read"}
      BY <1>2 DEF CallType
    <3> QED
      BY <1>1, <2>3, <3>1 DEF HolderOK
  <2>14. HolderOK'
    <3> SUFFICES ASSUME NEW d \in Callers
                 PROVE  /\ call'[d].pc \in {"write", "read"} => lock = d /\ call'[d].id \in Ids
                        /\ call'[d].pc \in {"idle", "lock"} => call'[d].id = 0
                        /\ call'[d].id # 0 => call'[d].id < nextId /\ result[call'[d].id] = "none"
                        /\ call'[d].pc = "write" => call'[d].id \notin InFlight' \cup Answered'
      BY <1>3, <2>2 DEF HolderOK
    <3>1. CASE d = c
      BY <2>3, <2>6, <2>7, <3>1
    <3>2. CASE d # c
      BY <2>13, <3>2
    <3> QED
      BY <3>1, <3>2
  <2>15. IdsOK'
    BY <1>1, <1>3, <1>4, <2>2, <2>3, <2>12 DEF IdsOK
  <2>16. OnceOK'
    <3>1. \A r \in work : r.id # i
      BY <1>1, <2>3, TypesAre DEF Pending
    <3>2. \A j \in 1..Len(stdin) : stdin[j].id # i
      <4>1. \A j \in 1..Len(stdin) : stdin[j] \in Pending
        BY DEF Pending, LinesOf
      <4> QED
        BY <1>1, <2>3, <4>1, TypesAre
    <3>3. PICK n \in Nat : n = Len(stdin)
      BY <2>8
    <3>4. /\ Len(stdin') = n + 1 /\ stdin'[n + 1] = q
          /\ \A j \in 1..n : stdin'[j] = stdin[j]
      BY <2>2, <2>4, <2>8, <3>3
    <3>5. \A j \in 1..Len(stdin') : j = n + 1 \/ j \in 1..n
      BY <3>3, <3>4
    <3>6. \A r \in work' : \A j \in 1..Len(stdin') : stdin'[j].id # r.id
      BY <1>1, <1>3, <2>4, <3>1, <3>3, <3>4, <3>5 DEF OnceOK
    <3>7. \A j, k \in 1..Len(stdin') : stdin'[j].id = stdin'[k].id => j = k
      <4> SUFFICES ASSUME NEW j \in 1..Len(stdin'), NEW k \in 1..Len(stdin'),
                          stdin'[j].id = stdin'[k].id
                   PROVE  j = k
        OBVIOUS
      <4>1. CASE j \in 1..n /\ k \in 1..n
        BY <1>1, <3>3, <3>4, <4>1 DEF OnceOK
      <4>2. CASE j = n + 1 /\ k = n + 1
        BY <4>2
      <4>3. CASE j = n + 1 /\ k \in 1..n
        BY <2>4, <3>2, <3>3, <3>4, <4>3
      <4>4. CASE k = n + 1 /\ j \in 1..n
        BY <2>4, <3>2, <3>3, <3>4, <4>4
      <4> QED
        BY <3>5, <4>1, <4>2, <4>3, <4>4
    <3>8. InFlight' \cap Answered' = {}
      BY <1>1, <1>4, <2>3, <2>12 DEF OnceOK
    <3>9. \A r, s \in work' : r.id = s.id => r = s
      BY <1>1, <1>3 DEF OnceOK
    <3> QED
      BY <3>6, <3>7, <3>8, <3>9 DEF OnceOK
  <2>17. AnswersOK'
    <3> SUFFICES ASSUME NEW d \in Callers
                 PROVE  /\ \A r \in Pending' : r.id = call'[d].id => r.kind = call'[d].kind
                        /\ \A l \in Lines : l.id = call'[d].id /\ l.id # 0 /\ call'[d].kind = "place"
                              /\ l.says # "malformed"
                              => (l.says \in {"ok", "unstructured"} <=> l.id \in taken)
      BY <1>3, <1>4 DEF AnswersOK
    <3>1. CASE d = c
      BY <1>1, <2>1, <2>4, <2>6, <2>7, <2>11, <3>1 DEF AnswersOK
    <3>2. CASE d # c
      <4>1. \A r \in Pending' : r.id # 0
        BY <1>1, <2>3, <2>4, <2>11, TypesAre
      <4> QED
        BY <2>13, <3>2, <4>1
    <3> QED
      BY <3>1, <3>2
  <2>18. OutcomeIsTrue'
    BY <1>1, <1>3, <2>2, <2>3, <2>12 DEF OutcomeIsTrue
  <2> QED
    BY <2>9, <2>14, <2>15, <2>16, <2>17, <2>18 DEF IInv
<1> QED
  BY <1>5, <1>6

\* What a turn of _read_response does to the pipe: one line goes, and no other.
LEMMA FetchedLines ==
    ASSUME TypeOK, NEW n \in 0..Len(stdout), buffer # <<>> \/ n > 0,
           buffer' = Tail(Fetched(n)), stdout' = Unfetched(n)
    PROVE  /\ stdout' \in Seq(Line) /\ buffer' \in Seq(Line)
           /\ Head(Fetched(n)) \in Lines
           /\ Lines = Lines' \cup {Head(Fetched(n))}
<1>1. stdout \in Seq(Line) /\ buffer \in Seq(Line)
  BY DEF TypeOK
<1>2. PICK f : f = Fetched(n)
  OBVIOUS
<1>3. CASE buffer = <<>>
  <2>1. f = SubSeq(stdout, 1, n) /\ stdout' = SubSeq(stdout, n + 1, Len(stdout))
    BY <1>2, <1>3 DEF Fetched, Unfetched
  <2>2. /\ f \in Seq(Line) /\ f # <<>> /\ stdout' \in Seq(Line)
        /\ LinesOf(stdout) = LinesOf(f) \cup LinesOf(stdout')
    <3>1. /\ SubSeq(stdout, 1, n) \in Seq(Line) /\ SubSeq(stdout, 1, n) # <<>>
          /\ SubSeq(stdout, n + 1, Len(stdout)) \in Seq(Line)
          /\ LinesOf(stdout) = LinesOf(SubSeq(stdout, 1, n))
                               \cup LinesOf(SubSeq(stdout, n + 1, Len(stdout)))
      <4>1. n \in 1..Len(stdout)
        BY <1>1, <1>3
      <4> QED
        BY <1>1, <4>1, LinesSplit, Zenon
    <3> QED
      BY <2>1, <3>1, Zenon
  <2>3. LinesOf(f) = {Head(f)} \cup LinesOf(buffer') /\ buffer' \in Seq(Line)
    BY <1>2, <2>2, LinesTail
  <2>4. LinesOf(buffer) = {}
    <3>1. Len(buffer) = 0
      BY <1>3
    <3> QED
      BY <3>1 DEF LinesOf
  <2> QED
    BY <1>2, <2>2, <2>3, <2>4 DEF Lines
<1>4. CASE buffer # <<>>
  <2>1. f = buffer /\ stdout' = stdout
    BY <1>2, <1>4 DEF Fetched, Unfetched
  <2>2. LinesOf(f) = {Head(f)} \cup LinesOf(buffer') /\ buffer' \in Seq(Line)
    BY <1>1, <1>2, <1>4, <2>1, LinesTail
  <2> QED
    BY <1>1, <1>2, <2>1, <2>2 DEF Lines
<1> QED
  BY <1>3, <1>4

\* A line read with the call's id tells its caller what became of the order, one
\* that is no object ends the call with an exception, any other is dropped.
LEMMA ReadLineHolds ==
    ASSUME IInv, NEW c \in Callers, ReadLine(c)
    PROVE  IInv'
<1>1. TypeOK /\ HolderOK /\ IdsOK /\ OnceOK /\ AnswersOK /\ OutcomeIsTrue
  BY DEF IInv
<1>2. PICK n \in 0..Len(stdout) :
         /\ buffer # <<>> \/ n > 0
         /\ buffer' = Tail(Fetched(n)) /\ stdout' = Unfetched(n)
         /\ IF Head(Fetched(n)).id = call[c].id \/ Head(Fetched(n)).says = "malformed"
            THEN Return(c, Head(Fetched(n)).says)
            ELSE UNCHANGED <<call, lock, result>>
  BY DEF ReadLine
<1>3. /\ call[c].pc = "read" /\ blocked' = FALSE
      /\ UNCHANGED <<nextId, stdin, work, partial, alive, taken, noise>>
  BY DEF ReadLine, At
<1>3a. blocked' \in BOOLEAN
  BY <1>3, Zenon
<1>4. PICK l : l = Head(Fetched(n))
  OBVIOUS
<1>5. /\ stdout' \in Seq(Line) /\ buffer' \in Seq(Line) /\ l \in Lines
      /\ Lines' \subseteq Lines
  BY <1>1, <1>2, <1>3, <1>4, FetchedLines
<1>6. Pending' = Pending /\ InFlight' = InFlight
  BY <1>3 DEF InFlight, Pending, LinesOf
<1>7. Answered' \subseteq Answered
  <2>1. Answered' = {k.id : k \in Lines'} /\ Answered = {k.id : k \in Lines}
    BY DEF Answered, Lines
  <2> QED
    BY <1>5, <2>1
<1>8. CASE l.id = call[c].id
  <2>1. Return(c, l.says)
    BY <1>2, <1>4, <1>8
  <2>2. call[c].id \in Ids /\ call[c].id # 0
    BY <1>1, <1>3, TypesAre DEF HolderOK
  <2>3. call[c].kind = "place" /\ l.says # "malformed"
           => (l.says \in {"ok", "unstructured"} <=> call[c].id \in taken)
    BY <1>1, <1>5, <1>8, <2>2 DEF AnswersOK
  <2>4. call[c].id \notin InFlight
    <3>1. call[c].id \in Answered
      BY <1>1, <1>5, <1>8, TypesAre
    <3> QED
      BY <1>1, <3>1 DEF OnceOK
  <2>5. call[c].kind \in {"place", "read"}
    BY <1>1, TypesAre DEF CallType, Kind
  <2>6. Classified(c, l.says) = "placed" => call[c].id \in taken
    <3>1. Classified(c, l.says) = "placed" => call[c].kind = "place" /\ l.says = "ok"
      BY <2>5, ClassifiedIs DEF Kind
    <3> QED
      BY <2>3, <3>1
  <2>7. Classified(c, l.says) = "rejected" => call[c].id \notin taken \cup InFlight
    <3>1. Classified(c, l.says) = "rejected"
             => call[c].kind = "place" /\ l.says \in {"toolError", "rpcError"}
      BY <2>5, ClassifiedIs DEF Kind
    <3>2. l.says \in {"toolError", "rpcError"} => ~(l.says \in {"ok", "unstructured"})
      OBVIOUS
    <3> QED
      BY <2>3, <2>4, <3>1, <3>2
  <2> QED
    BY <1>3, <1>3a, <1>5, <2>1, <2>6, <2>7, ReturnHolds
<1>8a. CASE l.id # call[c].id /\ l.says = "malformed"
  <2>1. Return(c, "malformed")
    BY <1>2, <1>4, <1>8a
  <2>2. call[c].kind \in {"place", "read"}
    BY <1>1, TypesAre DEF CallType, Kind
  <2>3. Classified(c, "malformed") # "placed" /\ Classified(c, "malformed") # "rejected"
    BY <2>2, ClassifiedIs DEF Kind
  <2> QED
    BY <1>3, <1>3a, <1>5, <2>1, <2>3, ReturnHolds
<1>9. CASE l.id # call[c].id /\ l.says # "malformed"
  <2>1. call' = call /\ lock' = lock /\ result' = result
    BY <1>2, <1>4, <1>9
  <2>2. TypeOK'
    BY <1>1, <1>3, <1>3a, <1>5, <2>1 DEF TypeOK
  <2>3. HolderOK'
    BY <1>1, <1>3, <1>6, <1>7, <2>1 DEF HolderOK
  <2>4. IdsOK'
    BY <1>1, <1>3, <1>6, <1>7, <2>1 DEF IdsOK
  <2>5. OnceOK'
    BY <1>1, <1>3, <1>6, <1>7 DEF OnceOK
  <2>6. AnswersOK'
    BY <1>1, <1>3, <1>5, <1>6, <2>1 DEF AnswersOK
  <2>7. OutcomeIsTrue'
    BY <1>1, <1>3, <1>6, <2>1 DEF OutcomeIsTrue
  <2> QED
    BY <2>2, <2>3, <2>4, <2>5, <2>6, <2>7 DEF IInv
<1> QED
  BY <1>8, <1>8a, <1>9

\* The reader blocks in readline or leaves it, or the child begins a line: no
\* request, answer or outcome is touched.
LEMMA FlagsMove ==
    ASSUME IInv, partial' \in BOOLEAN, blocked' \in BOOLEAN,
           UNCHANGED <<call, lock, nextId, stdin, work, stdout, buffer, alive, taken, result, noise>>
    PROVE  IInv'
<1>1. InFlight' = InFlight /\ Answered' = Answered /\ Pending' = Pending /\ Lines' = Lines
  BY DEF InFlight, Answered, Pending, Lines, LinesOf
<1>2. TypeOK' /\ OnceOK'
  BY <1>1 DEF IInv, TypeOK, OnceOK
<1>3. HolderOK' /\ IdsOK'
  BY <1>1 DEF IInv, HolderOK, IdsOK
<1>4. AnswersOK' /\ OutcomeIsTrue'
  BY <1>1 DEF IInv, AnswersOK, OutcomeIsTrue
<1> QED
  BY <1>2, <1>3, <1>4 DEF IInv

\* Those steps: a line begun, a reader that waits for its end, one that stops waiting.
LEMMA FlagsHold ==
    ASSUME IInv, StartLine \/ \E c \in Callers : ReadPartial(c) \/ ReadEnd(c)
    PROVE  IInv'
<1>1. UNCHANGED <<call, lock, nextId, stdin, work, stdout, buffer, alive, taken, result, noise>>
  BY DEF StartLine, ReadPartial, ReadEnd
<1>2. /\ partial' = partial \/ partial' = TRUE
      /\ blocked' = blocked \/ blocked' = TRUE \/ blocked' = FALSE
  BY Zenon DEF StartLine, ReadPartial, ReadEnd
<1>3. partial \in BOOLEAN /\ blocked \in BOOLEAN
  BY DEF IInv, TypeOK
<1>4. partial' \in BOOLEAN /\ blocked' \in BOOLEAN
  BY <1>2, <1>3, Zenon
<1> QED
  BY <1>1, <1>4, FlagsMove

\* A deadline that passes, or a child that is gone, leaves the outcome open.
LEMMA GivesUpHolds ==
    ASSUME IInv, NEW c \in Callers, ReadTimesOut(c) \/ ReadExited(c)
    PROVE  IInv'
<1>1. PICK end \in {"timeout", "exited"} : Return(c, end)
  BY DEF ReadTimesOut, ReadExited
<1>2. /\ call[c].pc = "read"
      /\ UNCHANGED <<nextId, stdin, work, stdout, partial, buffer, blocked, alive, taken, noise>>
  BY DEF ReadTimesOut, ReadExited, At
<1>3. Classified(c, end) \in {"none", "uncertain"}
  BY DEF Classified
<1>4. stdout' \in Seq(Line) /\ buffer' \in Seq(Line) /\ blocked' \in BOOLEAN
  BY <1>2 DEF TypeOK, IInv
<1>5. Lines' = Lines
  BY <1>2 DEF Lines, LinesOf
<1> QED
  BY <1>1, <1>2, <1>3, <1>4, <1>5, ReturnHolds

(***************************************************************************)
(* The child and the exchange.                                             *)
(***************************************************************************)
\* A request moves from the pipe to the child, and stays single.
LEMMA ReceiveHolds ==
    ASSUME IInv, Receive
    PROVE  IInv'
<1>1. TypeOK /\ HolderOK /\ IdsOK /\ OnceOK /\ AnswersOK /\ OutcomeIsTrue
  BY DEF IInv
<1>2. /\ stdin # <<>> /\ work' = work \cup {Head(stdin)} /\ stdin' = Tail(stdin)
      /\ UNCHANGED <<call, lock, nextId, stdout, partial, buffer, blocked, alive, taken, result, noise>>
  BY DEF Receive
<1>3. stdin \in Seq(Request) /\ work \subseteq Request
  BY <1>1 DEF TypeOK
<1>4. PICK h : h = Head(stdin)
  OBVIOUS
<1>5. /\ h \in Request /\ stdin' \in Seq(Request)
      /\ LinesOf(stdin) = {h} \cup LinesOf(stdin')
  BY <1>2, <1>3, <1>4, LinesTail
<1>6. work' \subseteq Request
  BY <1>2, <1>3, <1>4, <1>5
<1>7. TypeOK'
  BY <1>1, <1>2, <1>5, <1>6 DEF TypeOK
<1>8. Pending' = Pending
  BY <1>2, <1>4, <1>5 DEF Pending
<1>9. InFlight' = InFlight
  <2>1. InFlight' = {r.id : r \in Pending'} /\ InFlight = {r.id : r \in Pending}
    BY DEF InFlight, Pending
  <2> QED
    BY <1>8, <2>1
<1>10. Answered' = Answered /\ Lines' = Lines
  BY <1>2 DEF Answered, Lines, LinesOf
<1>11. PICK t : t = stdin'
  OBVIOUS
<1>12. /\ Len(stdin) \in Nat \ {0} /\ h = stdin[1] /\ Len(t) = Len(stdin) - 1
       /\ \A j \in 1..Len(t) : t[j] = stdin[j + 1]
  BY <1>2, <1>3, <1>4, <1>11
<1>13. 1 \in 1..Len(stdin) /\ \A j \in 1..Len(t) : j + 1 \in 1..Len(stdin) /\ j + 1 # 1
  BY <1>12
<1>14. \A j \in 1..Len(t) : t[j].id # h.id
  BY <1>1, <1>12, <1>13 DEF OnceOK
<1>15. OnceOK'
  <2>1. \A r \in work : r.id # h.id
    BY <1>1, <1>12, <1>13 DEF OnceOK
  <2>2. \A r, s \in work' : r.id = s.id => r = s
    BY <1>1, <1>2, <1>4, <2>1 DEF OnceOK
  <2>3. \A r \in work' : \A j \in 1..Len(t) : t[j].id # r.id
    <3> SUFFICES ASSUME NEW r \in work', NEW j \in 1..Len(t) PROVE t[j].id # r.id
      OBVIOUS
    <3>1. CASE r = h
      BY <1>14, <3>1
    <3>2. CASE r \in work
      BY <1>1, <1>12, <1>13, <3>2 DEF OnceOK
    <3> QED
      BY <1>2, <1>4, <3>1, <3>2
  <2>4. \A j, k \in 1..Len(t) : t[j].id = t[k].id => j = k
    <3> SUFFICES ASSUME NEW j \in 1..Len(t), NEW k \in 1..Len(t), t[j].id = t[k].id
                 PROVE  j = k
      OBVIOUS
    <3>1. j + 1 = k + 1
      BY <1>1, <1>12, <1>13 DEF OnceOK
    <3> QED
      BY <3>1
  <2>5. InFlight' \cap Answered' = {}
    BY <1>1, <1>9, <1>10 DEF OnceOK
  <2> QED
    BY <1>11, <2>2, <2>3, <2>4, <2>5 DEF OnceOK
<1>16. HolderOK'
  BY <1>1, <1>2, <1>9, <1>10 DEF HolderOK
<1>17. IdsOK'
  BY <1>1, <1>2, <1>9, <1>10 DEF IdsOK
<1>18. AnswersOK'
  BY <1>1, <1>2, <1>8, <1>10 DEF AnswersOK
<1>19. OutcomeIsTrue'
  BY <1>1, <1>2, <1>9 DEF OutcomeIsTrue
<1> QED
  BY <1>7, <1>15, <1>16, <1>17, <1>18, <1>19 DEF IInv

\* The exchange takes an order nobody has an answer or a rejection of.
LEMMA TakeHolds ==
    ASSUME IInv, NEW r \in work, Take(r)
    PROVE  IInv'
<1>1. TypeOK /\ HolderOK /\ IdsOK /\ OnceOK /\ AnswersOK /\ OutcomeIsTrue
  BY DEF IInv
<1>2. /\ taken' = taken \cup {r.id}
      /\ UNCHANGED <<call, lock, nextId, stdin, work, stdout, partial, buffer, blocked, alive,
                     result, noise>>
  BY DEF Take
<1>3. r \in Pending
  BY DEF Pending
<1>4. r.id \in InFlight /\ r.id \in Ids
  BY <1>1, <1>3, TypesAre
<1>5. InFlight' = InFlight /\ Answered' = Answered /\ Pending' = Pending /\ Lines' = Lines
  BY <1>2 DEF InFlight, Answered, Pending, Lines, LinesOf
<1>6. TypeOK'
  BY <1>1, <1>2, <1>4 DEF TypeOK
<1>7. \A l \in Lines : l.id # r.id
  BY <1>1, <1>4, TypesAre DEF OnceOK
<1>8. AnswersOK'
  BY <1>1, <1>2, <1>5, <1>7 DEF AnswersOK
<1>9. OutcomeIsTrue'
  BY <1>1, <1>2, <1>4, <1>5 DEF OutcomeIsTrue
<1>10. HolderOK' /\ IdsOK' /\ OnceOK'
  BY <1>1, <1>2, <1>5 DEF HolderOK, IdsOK, OnceOK
<1> QED
  BY <1>6, <1>8, <1>9, <1>10 DEF IInv

\* The child answers a request once, and truthfully.
LEMMA AnswerHolds ==
    ASSUME IInv, NEW r \in work, Answer(r)
    PROVE  IInv'
<1>1. TypeOK /\ HolderOK /\ IdsOK /\ OnceOK /\ AnswersOK /\ OutcomeIsTrue
  BY DEF IInv
<1>2. PICK s \in Says :
         /\ IF r.kind = "place"
            THEN s = "malformed" \/ (s \in {"ok", "unstructured"} <=> r.id \in taken)
            ELSE s = "ok"
         /\ stdout' = Append(stdout, [id |-> r.id, says |-> s])
  BY DEF Answer
<1>3. /\ work' = work \ {r} /\ partial' = FALSE
      /\ UNCHANGED <<call, lock, nextId, stdin, buffer, blocked, alive, taken, result, noise>>
  BY DEF Answer
<1>3a. partial' \in BOOLEAN
  BY <1>3, Zenon
<1>4. r \in Pending
  BY DEF Pending
<1>5. r.id \in Ids /\ r.id # 0 /\ r.id \in InFlight
  BY <1>1, <1>4, TypesAre
<1>6. PICK a : a = [id |-> r.id, says |-> s]
  OBVIOUS
<1>7. a \in Line /\ a.id = r.id /\ a.says = s
  BY <1>5, <1>6 DEF Line
<1>8. stdout \in Seq(Line) /\ stdout' \in Seq(Line) /\ work' \subseteq Request
  BY <1>1, <1>2, <1>3, <1>6, <1>7 DEF TypeOK
<1>9. TypeOK'
  BY <1>1, <1>3, <1>3a, <1>8 DEF TypeOK
<1>10. Lines' = Lines \cup {a}
  <2>1. LinesOf(stdout') = LinesOf(stdout) \cup {a}
    BY <1>2, <1>6, <1>7, <1>8, LinesAppend
  <2> QED
    BY <1>3, <2>1 DEF Lines, LinesOf
<1>11. Pending' \subseteq Pending /\ \A q \in Pending' : q.id # r.id
  <2>1. LinesOf(stdin') = LinesOf(stdin)
    BY <1>3 DEF LinesOf
  <2>2. Pending' = (work \ {r}) \cup LinesOf(stdin)
    BY <1>3, <2>1 DEF Pending
  <2>3. \A q \in work \ {r} : q.id # r.id
    BY <1>1 DEF OnceOK
  <2>4. \A q \in LinesOf(stdin) : q.id # r.id
    BY <1>1 DEF OnceOK, LinesOf
  <2> QED
    BY <2>2, <2>3, <2>4 DEF Pending
<1>12. /\ InFlight = {q.id : q \in Pending} /\ InFlight' = {q.id : q \in Pending'}
       /\ Answered = {l.id : l \in Lines} /\ Answered' = {l.id : l \in Lines'}
  BY DEF InFlight, Pending, Answered, Lines
<1>13. /\ InFlight' \subseteq InFlight /\ r.id \notin InFlight'
       /\ Answered' = Answered \cup {r.id}
  BY <1>7, <1>10, <1>11, <1>12
<1>14. HolderOK'
  <2>1. \A c \in Callers : call[c].pc = "write" => call[c].id # r.id
    BY <1>1, <1>5 DEF HolderOK
  <2> QED
    BY <1>1, <1>3, <1>13, <2>1 DEF HolderOK
<1>15. IdsOK'
  BY <1>1, <1>3, <1>5, <1>13 DEF IdsOK
<1>16. OnceOK'
  <2>1. InFlight' \cap Answered' = {}
    BY <1>1, <1>13 DEF OnceOK
  <2>2. /\ \A q, p \in work' : q.id = p.id => q = p
        /\ \A q \in work' : \A j \in 1..Len(stdin') : stdin'[j].id # q.id
        /\ \A j, k \in 1..Len(stdin') : stdin'[j].id = stdin'[k].id => j = k
    BY <1>1, <1>3 DEF OnceOK
  <2> QED
    BY <2>1, <2>2 DEF OnceOK
<1>17. AnswersOK'
  <2> SUFFICES ASSUME NEW c \in Callers
               PROVE  /\ \A q \in Pending' : q.id = call[c].id => q.kind = call[c].kind
                      /\ \A l \in Lines' : l.id = call[c].id /\ l.id # 0 /\ call[c].kind = "place"
                            /\ l.says # "malformed"
                            => (l.says \in {"ok", "unstructured"} <=> l.id \in taken)
    BY <1>3 DEF AnswersOK
  <2>1. \A q \in Pending' : q.id = call[c].id => q.kind = call[c].kind
    BY <1>1, <1>11 DEF AnswersOK
  <2>2. a.id = call[c].id /\ call[c].kind = "place"
           /\ a.says # "malformed"
           => (a.says \in {"ok", "unstructured"} <=> a.id \in taken)
    BY <1>1, <1>2, <1>4, <1>7 DEF AnswersOK
  <2> QED
    BY <1>1, <1>10, <2>1, <2>2 DEF AnswersOK
<1>18. OutcomeIsTrue'
  BY <1>1, <1>3, <1>13 DEF OutcomeIsTrue
<1> QED
  BY <1>9, <1>14, <1>15, <1>16, <1>17, <1>18 DEF IInv

\* A line that answers nothing has no call's id.
LEMMA NoiseHolds ==
    ASSUME IInv, Noise
    PROVE  IInv'
<1>1. TypeOK /\ HolderOK /\ IdsOK /\ OnceOK /\ AnswersOK /\ OutcomeIsTrue
  BY DEF IInv
<1>2. PICK s \in {"ok", "malformed"} : stdout' = Append(stdout, [id |-> 0, says |-> s])
  BY DEF Noise
<1>2a. PICK a : a = [id |-> 0, says |-> s]
  OBVIOUS
<1>3. /\ noise < MaxNoise /\ noise' = noise + 1 /\ stdout' = Append(stdout, a)
      /\ partial' = FALSE
      /\ UNCHANGED <<call, lock, nextId, stdin, work, buffer, blocked, alive, taken, result>>
  BY <1>2, <1>2a DEF Noise
<1>3a. partial' \in BOOLEAN
  BY <1>3, Zenon
<1>4. a \in Line /\ a.id = 0
  BY <1>2a DEF Line, Says
<1>5. /\ stdout \in Seq(Line) /\ stdout' \in Seq(Line)
      /\ noise' \in 0..MaxNoise
  BY <1>1, <1>3, <1>4, BoundsAssumption DEF TypeOK
<1>6. TypeOK'
  BY <1>1, <1>3, <1>3a, <1>5 DEF TypeOK
<1>7. Lines' = Lines \cup {a}
  <2>1. LinesOf(stdout') = LinesOf(stdout) \cup {a}
    BY <1>3, <1>4, <1>5, LinesAppend
  <2> QED
    BY <1>3, <2>1 DEF Lines, LinesOf
<1>8. Pending' = Pending /\ InFlight' = InFlight
  BY <1>3 DEF InFlight, Pending, LinesOf
<1>9. Answered' = Answered \cup {0}
  <2>1. Answered = {l.id : l \in Lines} /\ Answered' = {l.id : l \in Lines'}
    BY DEF Answered, Lines
  <2> QED
    BY <1>4, <1>7, <2>1
<1>10. 0 \notin InFlight
  BY <1>1, TypesAre
<1>11. HolderOK'
  <2>1. \A c \in Callers : call[c].pc = "write" => call[c].id # 0
    BY <1>1, TypesAre DEF HolderOK
  <2> QED
    BY <1>1, <1>3, <1>8, <1>9, <2>1 DEF HolderOK
<1>12. IdsOK'
  <2>1. 0 < nextId
    BY <1>1, BoundsAssumption DEF TypeOK
  <2> QED
    BY <1>1, <1>3, <1>8, <1>9, <2>1 DEF IdsOK
<1>13. OnceOK'
  BY <1>1, <1>3, <1>8, <1>9, <1>10 DEF OnceOK
<1>14. AnswersOK'
  BY <1>1, <1>3, <1>4, <1>7, <1>8 DEF AnswersOK
<1>15. OutcomeIsTrue'
  BY <1>1, <1>3, <1>8 DEF OutcomeIsTrue
<1> QED
  BY <1>6, <1>11, <1>12, <1>13, <1>14, <1>15 DEF IInv

\* A child that exits takes the requests it did not read with it.
LEMMA ChildExitsHolds ==
    ASSUME IInv, ChildExits
    PROVE  IInv'
<1>1. TypeOK /\ HolderOK /\ IdsOK /\ OnceOK /\ AnswersOK /\ OutcomeIsTrue
  BY DEF IInv
<1>2. /\ alive' = FALSE /\ partial' = FALSE /\ stdin' = <<>>
      /\ UNCHANGED <<call, lock, nextId, work, stdout, buffer, blocked, taken, result, noise>>
  BY DEF ChildExits
<1>3. TypeOK'
  <2>1. stdin' \in Seq(Request)
    <3>1. <<>> \in Seq(Request)
      OBVIOUS
    <3> QED
      BY <1>2, <3>1
  <2>2. alive' \in BOOLEAN /\ partial' \in BOOLEAN
    BY <1>2, Zenon
  <2> QED
    BY <1>1, <1>2, <2>1, <2>2 DEF TypeOK
<1>4. LinesOf(stdin') = {} /\ Len(stdin') = 0
  <2>1. Len(stdin') = 0
    BY <1>2
  <2> QED
    BY <2>1 DEF LinesOf
<1>5. Pending' \subseteq Pending
  BY <1>2, <1>4 DEF Pending
<1>6. InFlight' \subseteq InFlight
  <2>1. InFlight = {q.id : q \in Pending} /\ InFlight' = {q.id : q \in Pending'}
    BY DEF InFlight, Pending
  <2> QED
    BY <1>5, <2>1
<1>7. Answered' = Answered /\ Lines' = Lines
  BY <1>2 DEF Answered, Lines, LinesOf
<1>8. HolderOK'
  BY <1>1, <1>2, <1>6, <1>7 DEF HolderOK
<1>9. IdsOK'
  BY <1>1, <1>2, <1>6, <1>7 DEF IdsOK
<1>10. OnceOK'
  <2>1. \A j \in 1..Len(stdin') : FALSE
    BY <1>4
  <2> QED
    BY <1>1, <1>2, <1>6, <1>7, <2>1 DEF OnceOK
<1>11. AnswersOK'
  BY <1>1, <1>2, <1>5, <1>7 DEF AnswersOK
<1>12. OutcomeIsTrue'
  BY <1>1, <1>2, <1>6 DEF OutcomeIsTrue
<1> QED
  BY <1>3, <1>8, <1>9, <1>10, <1>11, <1>12 DEF IInv

(***************************************************************************)
(* The theorems.                                                           *)
(***************************************************************************)
\* Every step keeps the invariant.
LEMMA StepHolds == IInv /\ [Next]_vars => IInv'
<1> SUFFICES ASSUME IInv, [Next]_vars PROVE IInv'
  OBVIOUS
<1>1. CASE UNCHANGED vars
  <2>1. UNCHANGED <<call, lock, nextId, stdin, work, stdout, partial, buffer, blocked, alive, taken,
                    result, noise>>
    BY <1>1 DEF vars
  <2>2. partial' \in BOOLEAN /\ blocked' \in BOOLEAN
    BY <2>1 DEF IInv, TypeOK
  <2> QED
    BY <2>1, <2>2, FlagsMove
<1>2. ASSUME NEW c \in Callers, Begin(c) PROVE IInv'
  <2>1. PICK k \in Kind : call' = [call EXCEPT ![c] = [pc |-> "lock", kind |-> k, id |-> 0]]
    BY <1>2 DEF Begin
  <2>2. PICK w : w = [pc |-> "lock", kind |-> k, id |-> 0]
    OBVIOUS
  <2>3. w \in CallType /\ w.pc = "lock" /\ w.id = 0
    BY <2>2 DEF CallType
  <2>4. /\ call[c].pc = "idle"
        /\ UNCHANGED <<lock, nextId, stdin, work, stdout, partial, buffer, blocked, alive, taken,
                       result, noise>>
    BY <1>2 DEF Begin, At
  <2> QED
    BY <2>1, <2>2, <2>3, <2>4, FreshCallHolds
<1>3. ASSUME NEW c \in Callers, LockTimesOut(c) PROVE IInv'
  <2>1. IdleCall \in CallType /\ IdleCall.pc = "idle" /\ IdleCall.id = 0
    BY DEF IdleCall, CallType, Kind
  <2>2. /\ call[c].pc = "lock" /\ call' = [call EXCEPT ![c] = IdleCall]
        /\ UNCHANGED <<lock, nextId, stdin, work, stdout, partial, buffer, blocked, alive, taken,
                       result, noise>>
    BY <1>3 DEF LockTimesOut, At
  <2> QED
    BY <2>1, <2>2, FreshCallHolds
<1>4. ASSUME NEW c \in Callers, Caller(c) PROVE IInv'
  <2>1. CASE Acquire(c)
    BY <2>1, AcquireHolds
  <2>2. CASE LockTimesOut(c)
    BY <1>3, <2>2
  <2>3. CASE Write(c)
    BY <2>3, WriteHolds
  <2>4. CASE ReadLine(c)
    BY <2>4, ReadLineHolds
  <2>5. CASE ReadTimesOut(c) \/ ReadExited(c)
    BY <2>5, GivesUpHolds
  <2>6. CASE ReadPartial(c) \/ ReadEnd(c)
    BY <2>6, FlagsHold
  <2> QED
    BY <1>4, <2>1, <2>2, <2>3, <2>4, <2>5, <2>6 DEF Caller
<1>5. ASSUME Child PROVE IInv'
  BY <1>5, FlagsHold, ReceiveHolds, NoiseHolds, ChildExitsHolds, TakeHolds, AnswerHolds DEF Child
<1> QED
  BY <1>1, <1>2, <1>4, <1>5 DEF Next

\* The invariant holds in every state of every run of the channel.
THEOREM Invariance == Spec => []IInv
<1>1. IInv /\ [Next]_vars => IInv'
  BY StepHolds
<1> QED
  BY <1>1, InitHolds, PTL DEF Spec

\* What place_order reports to its caller is true: an order reported placed was
\* accepted, one reported rejected was not accepted and is not on its way
\* (MCPBackend.place_order's classification of how the call ended), for a tool
\* whose error answers are refusals.  A call that ends with another exception
\* reports nothing.
THEOREM ReportsAreTrue == Spec => []OutcomeIsTrue
<1>1. IInv => OutcomeIsTrue
  BY DEF IInv
<1> QED
  BY <1>1, Invariance, PTL

\* The answer a call waits for is only ever read by that call: _request_lock
\* is held from the id's assignment to the last line read.
THEOREM OwnResponseOnly == Spec => NoResponseStolen
<1> DEFINE NotStolen == \A c \in Callers :
        At(c, "read") /\ call[c].id \in Answered \ Answered' => ~At(c, "read")'
<1>1. ASSUME IInv, Next PROVE NotStolen
  <2> SUFFICES ASSUME NEW c \in Callers, call[c].pc = "read",
                      call[c].id \in Answered, call[c].id \notin Answered'
               PROVE  call'[c].pc # "read"
    BY DEF At
  <2>1. TypeOK /\ HolderOK
    BY <1>1 DEF IInv
  <2>2. lock = c /\ call \in [Callers -> CallType]
    BY <2>1, TypesAre DEF HolderOK
  <2>3. Answered = {l.id : l \in Lines} /\ Answered' = {l.id : l \in Lines'}
    BY DEF Answered, Lines
  <2>4. ~(Lines \subseteq Lines')
    BY <2>3
  <2>5. ~(stdout' = stdout /\ buffer' = buffer)
    BY <2>4 DEF Lines, LinesOf
  <2>6. ~Noise /\ \A r \in work : ~Answer(r)
    <3>1. ASSUME NEW a \in Line, stdout' = Append(stdout, a), buffer' = buffer PROVE FALSE
      <4>1. LinesOf(stdout') = LinesOf(stdout) \cup {a}
        BY <2>1, <3>1, LinesAppend DEF TypeOK
      <4> QED
        BY <2>4, <3>1, <4>1 DEF Lines, LinesOf
    <3>2. ~Noise
      <4>1. \A s \in {"ok", "malformed"} : [id |-> 0, says |-> s] \in Line
        BY DEF Line, Says
      <4> QED
        BY <3>1, <4>1 DEF Noise
    <3>3. ASSUME NEW r \in work, Answer(r) PROVE FALSE
      <4>1. PICK s \in Says : stdout' = Append(stdout, [id |-> r.id, says |-> s])
        BY <3>3 DEF Answer
      <4>2. r.id \in Ids
        BY <2>1 DEF TypeOK, Request
      <4>3. [id |-> r.id, says |-> s] \in Line
        BY <4>2 DEF Line
      <4>4. buffer' = buffer
        BY <3>3 DEF Answer
      <4> QED
        BY <3>1, <4>1, <4>3, <4>4
    <3> QED
      BY <3>2, <3>3
  <2>7. PICK d \in Callers : ReadLine(d)
    <3>1. ~Child
      BY <2>5, <2>6 DEF Child, Receive, ChildExits, Take, StartLine
    <3>2. \A d \in Callers : ~Begin(d) /\ ~Acquire(d) /\ ~LockTimesOut(d) /\ ~Write(d)
                             /\ ~ReadTimesOut(d) /\ ~ReadExited(d)
                             /\ ~ReadPartial(d) /\ ~ReadEnd(d)
      BY <2>5 DEF Begin, Acquire, LockTimesOut, Write, ReadTimesOut, ReadExited, ReadPartial, ReadEnd
    <3> QED
      BY <1>1, <3>1, <3>2 DEF Next, Caller
  <2>8. d = c
    BY <2>1, <2>2, <2>7 DEF ReadLine, At, HolderOK
  <2>9. PICK n \in 0..Len(stdout) :
           /\ buffer # <<>> \/ n > 0
           /\ buffer' = Tail(Fetched(n)) /\ stdout' = Unfetched(n)
           /\ IF Head(Fetched(n)).id = call[c].id \/ Head(Fetched(n)).says = "malformed"
              THEN Return(c, Head(Fetched(n)).says)
              ELSE UNCHANGED <<call, lock, result>>
    BY <2>7, <2>8 DEF ReadLine
  <2>10. PICK l : l = Head(Fetched(n))
    OBVIOUS
  <2>11. Lines = Lines' \cup {l}
    BY <2>1, <2>9, <2>10, FetchedLines
  <2>12. l.id = call[c].id
    BY <2>3, <2>11
  <2>13. call' = [call EXCEPT ![c] = IdleCall]
    BY <2>9, <2>10, <2>12 DEF Return
  <2> QED
    BY <2>2, <2>13 DEF IdleCall
<1>2. IInv /\ [Next]_vars => [NotStolen]_vars
  BY <1>1
<1> QED
  BY <1>2, Invariance, PTL DEF Spec, NoResponseStolen
=============================================================================
