------------------------ MODULE ApprovalFlowProofs -------------------------
(***************************************************************************)
(* Proofs about ApprovalFlow, for every set of cookies, connections,       *)
(* tokens, requests, plans and markets and every tick, lot, budget and     *)
(* tolerance: an approved order is what a challenge of the same session    *)
(* showed for the same plan, a challenge starts one approval, an order's   *)
(* figures are sound, and only sockets of sessions in the table are        *)
(* registered.                                                             *)
(***************************************************************************)
EXTENDS ApprovalFlow, TLAPS

(***************************************************************************)
(* Arithmetic of Sizing.                                                   *)
(***************************************************************************)
\* Integer division is the number of whole steps below the value.
LEMMA DivFacts ==
    ASSUME NEW v \in Nat, NEW step \in Nat \ {0}
    PROVE  /\ v \div step \in Nat
           /\ (v \div step) * step <= v
           /\ v < (v \div step) * step + step
  OBVIOUS

\* A multiple of the step has no remainder.
LEMMA MultipleFacts ==
    ASSUME NEW n \in Nat, NEW step \in Nat \ {0}
    PROVE  (n * step) % step = 0
  OBVIOUS

\* FloorTo moves down to a multiple of the step, by less than a step.
LEMMA FloorFacts ==
    ASSUME NEW v \in Nat, NEW step \in Nat \ {0}
    PROVE  /\ FloorTo(v, step) \in Nat
           /\ FloorTo(v, step) <= v
           /\ v < FloorTo(v, step) + step
           /\ FloorTo(v, step) % step = 0
  BY DivFacts, MultipleFacts DEF FloorTo

\* CeilTo moves up to a multiple of the step.
LEMMA CeilFacts ==
    ASSUME NEW v \in Nat, NEW step \in Nat \ {0}
    PROVE  /\ CeilTo(v, step) \in Nat
           /\ CeilTo(v, step) >= v
           /\ CeilTo(v, step) % step = 0
<1>1. v + step - 1 \in Nat
  OBVIOUS
<1> QED
  BY <1>1, FloorFacts DEF CeilTo

\* A size floored from a quotient that is at most a unit off respects both
\* budgets up to that unit, and a lot and a unit more breaks one of them.
LEMMA SizeFacts ==
    ASSUME NEW d \in Nat \ {0}, NEW e \in Nat \ {0},
           NEW byRisk \in Nat, NEW byCap \in Nat,
           byRisk = RiskBudget \div d, byCap = CapNotional \div e,
           NEW size \in FloorsOf(IF byRisk < byCap THEN byRisk ELSE byCap)
    PROVE  /\ size \in Nat /\ size % Lot = 0
           /\ (size - 1) * d <= RiskBudget
           /\ (size - 1) * e <= CapNotional
           /\ (size + Lot + 1) * d > RiskBudget \/ (size + Lot + 1) * e > CapNotional
<1> DEFINE least == IF byRisk < byCap THEN byRisk ELSE byCap
<1>1. Lot \in Nat \ {0} /\ RiskBudget \in Nat /\ CapNotional \in Nat
  BY SizingAssumption
<1>2. least \in Nat /\ least <= byRisk /\ least <= byCap /\ (least = byRisk \/ least = byCap)
  OBVIOUS
<1> HIDE DEF least
<1>3. PICK v \in {least - 1, least, least + 1} \cap Nat : size = FloorTo(v, Lot)
  BY DEF FloorsOf, least
<1>4. size \in Nat /\ size <= v /\ v < size + Lot /\ size % Lot = 0
  BY <1>1, <1>3, FloorFacts
<1>5. size - 1 <= least /\ least + 1 <= size + Lot + 1
  BY <1>1, <1>2, <1>3, <1>4
<1>6. byRisk * d <= RiskBudget /\ RiskBudget < byRisk * d + d
  BY <1>1, DivFacts
<1>7. byCap * e <= CapNotional /\ CapNotional < byCap * e + e
  BY <1>1, DivFacts
<1>8. \A x \in Int : \A y, z \in Nat : x <= y => x * z <= y * z
  OBVIOUS
<1>9. (size - 1) * d <= byRisk * d /\ (size - 1) * e <= byCap * e
  <2>1. size - 1 \in Int /\ size - 1 <= byRisk /\ size - 1 <= byCap
    BY <1>2, <1>4, <1>5
  <2> QED
    BY <1>8, <2>1
<1>10. PICK more : more = size + Lot + 1
  OBVIOUS
<1>11. more \in Nat /\ least + 1 <= more
  BY <1>1, <1>4, <1>5, <1>10
<1>12. least = byRisk => (byRisk + 1) * d <= more * d
  BY <1>8, <1>11
<1>13. least = byCap => (byCap + 1) * e <= more * e
  BY <1>8, <1>11
<1>14. (byRisk + 1) * d = byRisk * d + d /\ (byCap + 1) * e = byCap * e + e
  OBVIOUS
<1>15. PICK rd, ce, md, me, sd, se : /\ rd = byRisk * d /\ ce = byCap * e
                                     /\ md = more * d /\ me = more * e
                                     /\ sd = (size - 1) * d /\ se = (size - 1) * e
  OBVIOUS
<1>16. /\ rd \in Nat /\ ce \in Nat /\ md \in Nat /\ me \in Nat /\ sd \in Int /\ se \in Int
  BY <1>4, <1>11, <1>15
<1>17. sd <= RiskBudget /\ se <= CapNotional
  BY <1>1, <1>6, <1>7, <1>9, <1>15, <1>16
<1>18. md > RiskBudget \/ me > CapNotional
  BY <1>1, <1>2, <1>6, <1>7, <1>12, <1>13, <1>14, <1>15, <1>16
<1> QED
  BY <1>4, <1>10, <1>15, <1>17, <1>18

\* The figures of an order.
FigureType == [entry : Nat, stop : Nat, target : Nat, size : Nat, risk : Nat]

\* What FiguresSound says of an order with figures f placed in market m.
SoundFor(f, m) ==
    LET Fits(n) == n * (f.entry - f.stop) <= RiskBudget /\ n * f.entry <= CapNotional
    IN /\ f.size % Lot = 0 /\ f.size >= MinSize
       /\ Fits(f.size - 1) /\ ~Fits(f.size + Lot + 1)
       /\ f.stop >= m.stop /\ f.entry >= m.ask /\ f.target <= m.target
       /\ \A v \in {f.stop, f.entry, f.target} : v % Tick = 0

\* The figures build_executable_long_plan may come to are sound.
LEMMA FiguresFacts ==
    ASSUME NEW m \in Markets, NEW f \in Executable(m, Planned)
    PROVE  f \in FigureType /\ SoundFor(f, m)
<1> DEFINE q == Quantize(m)
<1>1. /\ m.ask \in Nat /\ m.stop \in Nat /\ m.target \in Nat /\ Tick \in Nat \ {0}
      /\ RiskBudget \in Nat /\ CapNotional \in Nat /\ Lot \in Nat \ {0} /\ MinSize \in Nat
  BY MarketsAssumption, SizingAssumption
<1>2. q.entry = CeilTo(m.ask, Tick) /\ q.stop = CeilTo(m.stop, Tick)
         /\ q.target = FloorTo(m.target, Tick)
  BY DEF Quantize
<1>3. /\ q.entry \in Nat /\ q.entry >= m.ask /\ q.entry % Tick = 0
      /\ q.stop \in Nat /\ q.stop >= m.stop /\ q.stop % Tick = 0
  BY <1>1, <1>2, CeilFacts
<1>4. q.target \in Nat /\ q.target <= m.target /\ q.target % Tick = 0
  BY <1>1, <1>2, FloorFacts
<1>5. PricesPass(m, Planned)
  BY DEF Executable
<1>6. 0 < q.stop /\ q.stop < q.entry
  BY <1>5 DEF PricesPass, PricesOrdered
<1>7. PICK size \in PositionSizes(q) :
         /\ size >= MinSize
         /\ f = [entry |-> q.entry, stop |-> q.stop, target |-> q.target,
                 size |-> size, risk |-> size * (q.entry - q.stop)]
  BY <1>5 DEF Executable
<1> HIDE DEF q
<1>8. PICK d : d = q.entry - q.stop
  OBVIOUS
<1>9. d \in Nat \ {0} /\ q.entry \in Nat \ {0}
  BY <1>3, <1>6, <1>8
<1>10. PICK byRisk, byCap : byRisk = RiskBudget \div d /\ byCap = CapNotional \div q.entry
  OBVIOUS
<1>11. byRisk \in Nat /\ byCap \in Nat
  BY <1>1, <1>9, <1>10, DivFacts
<1>12. size \in FloorsOf(IF byRisk < byCap THEN byRisk ELSE byCap)
  BY <1>7, <1>8, <1>10 DEF PositionSizes
<1>13. /\ size \in Nat /\ size % Lot = 0
       /\ (size - 1) * d <= RiskBudget /\ (size - 1) * q.entry <= CapNotional
       /\ (size + Lot + 1) * d > RiskBudget \/ (size + Lot + 1) * q.entry > CapNotional
  BY <1>9, <1>10, <1>11, <1>12, SizeFacts
<1>14. size * d \in Nat /\ (size + Lot + 1) * d \in Nat /\ (size + Lot + 1) * q.entry \in Nat
  BY <1>1, <1>9, <1>13
<1>15. f = [entry |-> q.entry, stop |-> q.stop, target |-> q.target,
            size |-> size, risk |-> size * d]
  BY <1>7, <1>8
<1>16. /\ f.entry = q.entry /\ f.stop = q.stop /\ f.target = q.target
       /\ f.size = size /\ f.entry - f.stop = d
  BY <1>8, <1>15
<1>17. f \in FigureType
  BY <1>3, <1>4, <1>13, <1>14, <1>15 DEF FigureType
<1>18. ~((size + Lot + 1) * d <= RiskBudget /\ (size + Lot + 1) * q.entry <= CapNotional)
  BY <1>1, <1>13, <1>14
<1>19. \A v \in {f.stop, f.entry, f.target} : v % Tick = 0
  BY <1>3, <1>4, <1>16
<1>20. SoundFor(f, m)
  BY <1>3, <1>4, <1>7, <1>13, <1>16, <1>18, <1>19 DEF SoundFor
<1> QED
  BY <1>17, <1>20

\* What the preview check lets through is within the tolerance.
LEMMA DiffersFacts ==
    ASSUME NEW a \in Nat, NEW b \in Nat, NEW pct \in Nat, ~Differs(a, b, pct)
    PROVE  10000 * a \in (10000 - pct) * b .. (10000 + pct) * b
<1>1. PICK w : w = pct * b
  OBVIOUS
<1>2. w \in Nat
  BY <1>1
<1>3. (10000 - pct) * b = 10000 * b - w /\ (10000 + pct) * b = 10000 * b + w
  BY <1>1
<1>4. (IF a > b THEN a - b ELSE b - a) * 10000 <= w
  BY <1>1, <1>2 DEF Differs
<1> QED
  BY <1>2, <1>3, <1>4

(***************************************************************************)
(* The inductive invariant.                                                *)
(***************************************************************************)
ChallengeType ==
    [st : {"unused", "live", "spent"}, cookie : Cookies \cup {None},
     plan : Plans \cup {None}, seen : FigureType, old : BOOLEAN, uses : Nat]
\* A request in its handler.
RequestType ==
    [pc : {"idle", "preview", "challenge", "approve", "execute"},
     cookie : Cookies \cup {None}, plan : Plans \cup {None},
     token : Tokens \cup {None}, seen : FigureType]
\* A plan and its order.
PlanType ==
    [st : {"PLANNED", "REJECTED", "APPROVED"},
     order : [figures : FigureType, cookie : Cookies \cup {None},
              token : Tokens \cup {None}, at : Markets \cup {None}]]
\* A websocket.
SocketType ==
    [pc : {"free", "accepted", "loop", "closing"}, cookie : Cookies \cup {None},
     reg : BOOLEAN, fresh : BOOLEAN, stream : BOOLEAN]

\* Every variable of the approval protocol has its type.
TypeOK ==
    /\ sessions \subseteq Cookies
    /\ socket \in [Conns -> SocketType]
    /\ challenge \in [Tokens -> ChallengeType]
    /\ request \in [Requests -> RequestType]
    /\ plan \in [Plans -> PlanType]
    /\ market \in Markets

\* Only a popped record was ever accepted, and once.
ChallengeOK ==
    \A t \in Tokens :
        /\ challenge[t].uses \in {0, 1}
        /\ challenge[t].st # "spent" => challenge[t].uses = 0

\* The accepted record behind an approval: whose it was and what it showed.
Backs(t, c, p) ==
    challenge[t].uses = 1 /\ challenge[t].cookie = c /\ challenge[t].plan = p

\* An approval under way carries the figures of the record it popped.
RequestOK ==
    \A r \in Requests :
        /\ request[r].pc # "idle" => request[r].cookie \in Cookies /\ request[r].plan \in Plans
        /\ request[r].pc \in {"approve", "execute"} => request[r].token \in Tokens
        /\ request[r].pc = "execute" =>
              /\ Backs(request[r].token, request[r].cookie, request[r].plan)
              /\ request[r].seen = challenge[request[r].token].seen

\* An order holds the figures of an executable market, close to what its record
\* showed.
OrderOK ==
    \A p \in Plans : Ordered(p) =>
        LET o == plan[p].order IN
        /\ o.token \in Tokens /\ Backs(o.token, o.cookie, p)
        /\ ~PreviewChanged(o.figures, challenge[o.token].seen)
        /\ o.at \in Markets /\ o.figures \in Executable(o.at, Planned)

\* The inductive invariant.
IInv == TypeOK /\ ChallengeOK /\ RequestOK /\ OrderOK /\ SocketsHaveSessions

(***************************************************************************)
(* Initial states.                                                         *)
(***************************************************************************)
LEMMA InitHolds == Init => IInv
<1> SUFFICES ASSUME Init PROVE IInv
  OBVIOUS
<1>1. NoFigures \in FigureType
  BY DEF NoFigures, FigureType
<1>2. socket \in [Conns -> SocketType] /\ SocketsHaveSessions
  BY DEF Init, FreeSocket, SocketType, SocketsHaveSessions
<1>3. challenge \in [Tokens -> ChallengeType] /\ ChallengeOK
  BY <1>1 DEF Init, NoChallenge, ChallengeType, ChallengeOK
<1>4. request \in [Requests -> RequestType] /\ RequestOK
  BY <1>1 DEF Init, NoRequest, RequestType, RequestOK
<1>5. plan \in [Plans -> PlanType] /\ OrderOK
  BY <1>1 DEF Init, NoOrder, PlanType, OrderOK, Ordered
<1>6. sessions \subseteq Cookies /\ market \in Markets
  BY DEF Init
<1> QED
  BY <1>2, <1>3, <1>4, <1>5, <1>6 DEF IInv, TypeOK

(***************************************************************************)
(* Sessions and sockets.                                                   *)
(***************************************************************************)
\* Sockets whose cookies leave the table lose their registration.
LEMMA UnregisteredFacts ==
    ASSUME socket \in [Conns -> SocketType], NEW gone
    PROVE  /\ Unregistered(gone) \in [Conns -> SocketType]
           /\ \A k \in Conns :
                 /\ Unregistered(gone)[k].cookie = socket[k].cookie
                 /\ Unregistered(gone)[k].reg => socket[k].reg /\ socket[k].cookie \notin gone
<1>1. ASSUME NEW k \in Conns
      PROVE  /\ Unregistered(gone)[k] \in SocketType
             /\ Unregistered(gone)[k].cookie = socket[k].cookie
             /\ Unregistered(gone)[k].reg => socket[k].reg /\ socket[k].cookie \notin gone
  BY <1>1 DEF Unregistered, SocketType
<1> QED
  BY <1>1 DEF Unregistered

\* valid() of an expired session.
LEMMA ForgetKeeps ==
    ASSUME TypeOK, SocketsHaveSessions, NEW c, Forget(c)
    PROVE  sessions' \subseteq Cookies /\ socket' \in [Conns -> SocketType] /\ SocketsHaveSessions'
  BY UnregisteredFacts DEF TypeOK, SocketsHaveSessions, Forget, InTable

\* One socket changes and its registration stands for a session.
LEMMA OneSocket ==
    ASSUME TypeOK, SocketsHaveSessions, NEW k \in Conns, NEW rec \in SocketType,
           socket' = [socket EXCEPT ![k] = rec], sessions' = sessions,
           rec.reg => rec.cookie \in sessions
    PROVE  sessions' \subseteq Cookies /\ socket' \in [Conns -> SocketType] /\ SocketsHaveSessions'
  BY DEF TypeOK, SocketsHaveSessions, InTable

\* Nothing of the tables changes.
LEMMA SameSockets ==
    ASSUME TypeOK, SocketsHaveSessions, UNCHANGED <<sessions, socket>>
    PROVE  sessions' \subseteq Cookies /\ socket' \in [Conns -> SocketType] /\ SocketsHaveSessions'
  BY DEF TypeOK, SocketsHaveSessions, InTable

\* The session table and the sockets after a step.
TablesHold ==
    sessions' \subseteq Cookies /\ socket' \in [Conns -> SocketType] /\ SocketsHaveSessions'

\* Every step keeps a registration tied to a session of the table.
LEMMA TablesStep ==
    ASSUME TypeOK, SocketsHaveSessions, Next
    PROVE  TablesHold
<1> USE DEF TablesHold
<1>1. ASSUME NEW c \in Cookies, CreateSession(c)
      PROVE  TablesHold
  <2>1. PICK kept : /\ kept \subseteq sessions
                    /\ sessions' = kept \cup {c}
                    /\ socket' = Unregistered(sessions \ kept)
    BY <1>1 DEF CreateSession
  <2> QED
    BY <2>1, UnregisteredFacts DEF TypeOK, SocketsHaveSessions, InTable
<1>2. ASSUME NEW c \in Cookies, SessionAges(c)
      PROVE  TablesHold
  BY <1>2, SameSockets DEF SessionAges
<1>3. ASSUME NEW k \in Conns, Register(k)
      PROVE  TablesHold
  <2>1. PICK known : known = InTable(socket[k].cookie)
    OBVIOUS
  <2>2. known \in BOOLEAN /\ (known => socket[k].cookie \in sessions)
    <3>1. (socket[k].cookie \in sessions) \in BOOLEAN
      BY SMT
    <3> QED
      BY <2>1, <3>1, Zenon DEF InTable
  <2>3. PICK rec : rec = [socket[k] EXCEPT !.pc = "loop", !.stream = TRUE, !.reg = known]
    OBVIOUS
  <2>4. socket' = [socket EXCEPT ![k] = rec] /\ sessions' = sessions
    BY <1>3, <2>1, <2>3 DEF Register, TypeOK
  <2>5. rec \in SocketType
    BY <2>2, <2>3 DEF TypeOK, SocketType
  <2>6. rec.cookie = socket[k].cookie /\ rec.reg = known
    BY <2>3 DEF TypeOK, SocketType
  <2>7. rec.reg => rec.cookie \in sessions
    BY <2>2, <2>6, Zenon
  <2> QED
    BY <2>4, <2>5, <2>7, OneSocket
<1>4. ASSUME NEW k \in Conns, Acknowledge(k)
      PROVE  TablesHold
  <2>1. PICK rec : rec = [socket[k] EXCEPT !.fresh = TRUE]
    OBVIOUS
  <2>2. rec \in SocketType /\ (rec.reg => rec.cookie \in sessions)
    BY <2>1 DEF TypeOK, SocketType, SocketsHaveSessions, InTable
  <2>3. socket' = [socket EXCEPT ![k] = rec] /\ sessions' = sessions
    BY <1>4, <2>1 DEF Acknowledge, TypeOK
  <2> QED
    BY <2>2, <2>3, OneSocket
<1>5. ASSUME NEW k \in Conns, CloseDead(k)
      PROVE  TablesHold
  <2>1. PICK gone : gone = {socket[k].cookie} \cap aged
    OBVIOUS
  <2>2. /\ sessions' = sessions \ gone
        /\ socket' = [Unregistered(gone) EXCEPT ![k].pc = "closing", ![k].reg = FALSE]
    BY <1>5, <2>1 DEF CloseDead
  <2>3. PICK table : table = Unregistered(gone)
    OBVIOUS
  <2>4. /\ table \in [Conns -> SocketType]
        /\ \A j \in Conns : /\ table[j].cookie = socket[j].cookie
                            /\ table[j].reg => socket[j].reg /\ socket[j].cookie \notin gone
    BY <2>3, UnregisteredFacts DEF TypeOK
  <2>5. socket' = [table EXCEPT ![k] = [table[k] EXCEPT !.pc = "closing", !.reg = FALSE]]
    BY <2>2, <2>3, <2>4
  <2>6. [table[k] EXCEPT !.pc = "closing", !.reg = FALSE] \in SocketType
    BY <2>4 DEF SocketType
  <2>7. socket' \in [Conns -> SocketType] /\ ~socket'[k].reg
    BY <2>4, <2>5, <2>6 DEF SocketType
  <2>8. \A j \in Conns \ {k} : socket'[j] = table[j]
    BY <2>4, <2>5
  <2> QED
    BY <2>2, <2>4, <2>7, <2>8 DEF TypeOK, SocketsHaveSessions, InTable
<1>6. ASSUME NEW k \in Conns, Disconnect(k)
      PROVE  TablesHold
  <2>1. FreeSocket \in SocketType /\ ~FreeSocket.reg
    BY DEF FreeSocket, SocketType
  <2> QED
    BY <1>6, <2>1, OneSocket DEF Disconnect
<1>7. ASSUME NEW k \in Conns, AckAges(k)
      PROVE  TablesHold
  <2>1. PICK rec : rec = [socket[k] EXCEPT !.fresh = FALSE]
    OBVIOUS
  <2>2. rec \in SocketType /\ (rec.reg => rec.cookie \in sessions)
    BY <2>1 DEF TypeOK, SocketType, SocketsHaveSessions, InTable
  <2>3. socket' = [socket EXCEPT ![k] = rec] /\ sessions' = sessions
    BY <1>7, <2>1 DEF AckAges, TypeOK
  <2> QED
    BY <2>2, <2>3, OneSocket
<1>8. ASSUME NEW k \in Conns, NEW c \in Cookies, Connect(k, c)
      PROVE  TablesHold
  <2>1. CASE Valid(c)
    <3>1. PICK rec : rec = [socket[k] EXCEPT !.pc = "accepted", !.cookie = c]
      OBVIOUS
    <3>2. rec \in SocketType /\ (rec.reg => rec.cookie \in sessions)
      BY <2>1, <3>1 DEF TypeOK, SocketType, Valid, InTable
    <3>3. socket' = [socket EXCEPT ![k] = rec] /\ sessions' = sessions
      BY <1>8, <2>1, <3>1 DEF Connect, TypeOK
    <3> QED
      BY <3>2, <3>3, OneSocket
  <2>2. CASE ~Valid(c)
    BY <1>8, <2>2, ForgetKeeps DEF Connect
  <2> QED
    BY <2>1, <2>2
<1>9. ASSUME NEW r \in Requests, Handler(r)
      PROVE  TablesHold
  <2>1. UNCHANGED <<sessions, socket>> \/ \E c : Forget(c)
    BY <1>9 DEF Handler, Preview, CreateChallenge, Consume, Execute, ExecuteRefused
  <2> QED
    BY <2>1, SameSockets, ForgetKeeps
<1>10. ASSUME NEW r \in Requests, NEW kind, NEW c \in Cookies, NEW p \in Plans,
              NEW t \in Tokens \cup {None}, Authorize(r, kind, c, p, t)
       PROVE  TablesHold
  <2>1. UNCHANGED <<sessions, socket>> \/ Forget(c)
    BY <1>10 DEF Authorize
  <2> QED
    BY <2>1, SameSockets, ForgetKeeps
<1>11. ASSUME NEW t \in Tokens, ChallengeAges(t)
       PROVE  TablesHold
  BY <1>11, SameSockets DEF ChallengeAges
<1>12. ASSUME NEW p \in Plans, RejectPlan(p)
       PROVE  TablesHold
  BY <1>12, SameSockets DEF RejectPlan
<1>13. CASE MarketMoves
  BY <1>13, SameSockets DEF MarketMoves
<1> HIDE DEF TablesHold
<1> QED
  BY <1>1, <1>2, <1>3, <1>4, <1>5, <1>6, <1>7, <1>8, <1>9, <1>10, <1>11, <1>12, <1>13 DEF Next

(***************************************************************************)
(* Challenges.                                                             *)
(***************************************************************************)
\* The table keeps its type, a live record is unaccepted, and a record that
\* was accepted never changes again.
RecordsHold ==
    /\ challenge' \in [Tokens -> ChallengeType]
    /\ ChallengeOK'
    /\ \A t \in Tokens : challenge[t].uses = 1 => challenge'[t] = challenge[t]

\* An unused and a popped challenge record.
LEMMA PoppedFacts ==
    /\ NoFigures \in FigureType
    /\ NoChallenge \in ChallengeType /\ NoChallenge.uses = 0
    /\ Popped \in ChallengeType /\ Popped.uses = 0
<1>1. NoFigures \in FigureType
  BY DEF NoFigures, FigureType
<1> QED
  BY <1>1 DEF NoChallenge, Popped, ChallengeType

\* One record changes, which was not accepted before.
LEMMA OneRecord ==
    ASSUME TypeOK, ChallengeOK, NEW t \in Tokens, NEW rec \in ChallengeType,
           challenge' = [challenge EXCEPT ![t] = rec],
           challenge[t].uses = 0, rec.uses \in {0, 1}, rec.st # "spent" => rec.uses = 0
    PROVE  RecordsHold
<1>1. challenge' \in [Tokens -> ChallengeType]
  BY DEF TypeOK
<1>2. challenge'[t] = rec /\ \A u \in Tokens \ {t} : challenge'[u] = challenge[u]
  BY DEF TypeOK
<1> QED
  BY <1>1, <1>2 DEF ChallengeOK, RecordsHold

\* Steps that leave the challenges alone.
LEMMA SameRecords ==
    ASSUME TypeOK, ChallengeOK, UNCHANGED challenge
    PROVE  RecordsHold
  BY DEF TypeOK, ChallengeOK, RecordsHold

\* Every step keeps the challenges' part of the invariant.
LEMMA RecordsStep ==
    ASSUME TypeOK, ChallengeOK, RequestOK, Next
    PROVE  RecordsHold
<1>1. ASSUME NEW c \in Cookies, CreateSession(c)
      PROVE  RecordsHold
  <2>1. PICK gone : challenge' = [t \in Tokens |->
              IF challenge[t].st = "live" /\ challenge[t].cookie \in gone
              THEN Popped ELSE challenge[t]]
    BY <1>1 DEF CreateSession
  <2>2. \A t \in Tokens : \/ challenge'[t] = challenge[t]
                          \/ challenge[t].st = "live" /\ challenge'[t] = Popped
    BY <2>1
  <2>3. challenge' \in [Tokens -> ChallengeType]
    BY <2>1, PoppedFacts DEF TypeOK
  <2> QED
    <3>1. ASSUME NEW t \in Tokens
          PROVE  /\ challenge'[t].uses \in {0, 1}
                 /\ challenge'[t].st # "spent" => challenge'[t].uses = 0
                 /\ challenge[t].uses = 1 => challenge'[t] = challenge[t]
      <4>1. CASE challenge'[t] = challenge[t]
        BY <4>1 DEF ChallengeOK
      <4>2. CASE challenge[t].st = "live" /\ challenge'[t] = Popped
        <5>1. challenge[t].uses = 0
          BY <4>2 DEF ChallengeOK
        <5> QED
          BY <4>2, <5>1, PoppedFacts
      <4> QED
        BY <2>2, <4>1, <4>2
    <3> QED
      BY <2>3, <3>1 DEF ChallengeOK, RecordsHold
<1>2. ASSUME NEW r \in Requests, CreateChallenge(r)
      PROVE  RecordsHold
  <2>1. CASE UNCHANGED challenge
    BY <2>1, SameRecords
  <2>2. CASE \E t \in Tokens :
                  /\ challenge[t].st = "unused"
                  /\ challenge' = [challenge EXCEPT ![t] =
                        [NoChallenge EXCEPT !.st = "live", !.cookie = request[r].cookie,
                                            !.plan = request[r].plan, !.seen = request[r].seen]]
    <3>1. PICK t \in Tokens :
             /\ challenge[t].st = "unused"
             /\ challenge' = [challenge EXCEPT ![t] =
                   [NoChallenge EXCEPT !.st = "live", !.cookie = request[r].cookie,
                                       !.plan = request[r].plan, !.seen = request[r].seen]]
      BY <2>2
    <3>2. PICK rec : rec = [NoChallenge EXCEPT !.st = "live", !.cookie = request[r].cookie,
                                               !.plan = request[r].plan, !.seen = request[r].seen]
      OBVIOUS
    <3>3. rec \in ChallengeType /\ rec.uses = 0
      BY <3>2 DEF TypeOK, RequestType, NoChallenge, ChallengeType
    <3>4. challenge' = [challenge EXCEPT ![t] = rec]
      BY <3>1, <3>2
    <3>5. challenge[t].uses = 0
      BY <3>1 DEF ChallengeOK
    <3> QED
      BY <3>1, <3>3, <3>4, <3>5, OneRecord
  <2> QED
    BY <1>2, <2>1, <2>2 DEF CreateChallenge
<1>3. ASSUME NEW r \in Requests, Consume(r)
      PROVE  RecordsHold
  <2>1. PICK t : t = request[r].token
    OBVIOUS
  <2>2. t \in Tokens
    BY <1>3, <2>1 DEF Consume, RequestOK
  <2>3. CASE /\ challenge[t].st = "live"
             /\ challenge' = [challenge EXCEPT ![t].st = "spent",
                                               ![t].uses = challenge[t].uses + 1]
    <3>1. challenge[t] \in ChallengeType /\ challenge[t].uses = 0
      BY <2>2, <2>3 DEF ChallengeOK, TypeOK
    <3>2. PICK n, rec : /\ n = challenge[t].uses + 1
                        /\ rec = [challenge[t] EXCEPT !.st = "spent", !.uses = n]
      OBVIOUS
    <3>3. rec \in ChallengeType /\ rec.uses = 1 /\ rec.st = "spent"
      <4>1. n = 1
        BY <3>1, <3>2
      <4>2. rec = [challenge[t] EXCEPT !.st = "spent", !.uses = 1]
        BY <3>2, <4>1
      <4> QED
        BY <3>1, <4>2 DEF ChallengeType
    <3>4. challenge' = [challenge EXCEPT ![t] = rec]
      BY <2>2, <2>3, <3>2 DEF TypeOK
    <3> QED
      BY <2>2, <3>1, <3>3, <3>4, OneRecord
  <2>4. CASE challenge[t].st = "live" /\ challenge' = [challenge EXCEPT ![t] = Popped]
    <3>1. challenge[t].uses = 0
      BY <2>2, <2>4 DEF ChallengeOK
    <3> QED
      BY <2>2, <2>4, <3>1, PoppedFacts, OneRecord
  <2>5. CASE UNCHANGED challenge
    BY <2>5, SameRecords
  <2> QED
    BY <1>3, <2>1, <2>3, <2>4, <2>5 DEF Consume
<1>4. ASSUME NEW t \in Tokens, ChallengeAges(t)
      PROVE  RecordsHold
  <2>1. PICK rec : rec = [challenge[t] EXCEPT !.old = TRUE]
    OBVIOUS
  <2>2. challenge[t] \in ChallengeType /\ challenge[t].st = "live" /\ challenge[t].uses = 0
    BY <1>4 DEF ChallengeAges, ChallengeOK, TypeOK
  <2>3. rec \in ChallengeType /\ rec.uses = 0
    BY <2>1, <2>2 DEF ChallengeType
  <2>4. challenge' = [challenge EXCEPT ![t] = rec]
    BY <1>4, <2>1 DEF ChallengeAges, TypeOK
  <2> QED
    BY <2>2, <2>3, <2>4, OneRecord
<1>5. ASSUME UNCHANGED challenge
      PROVE  RecordsHold
  BY <1>5, SameRecords
<1>6. \/ UNCHANGED challenge
      \/ \E c \in Cookies : CreateSession(c)
      \/ \E r \in Requests : CreateChallenge(r) \/ Consume(r)
      \/ \E t \in Tokens : ChallengeAges(t)
  BY DEF Next, Handler, SessionAges, Register, Acknowledge, CloseDead, Disconnect, AckAges,
         Connect, Preview, Execute, ExecuteRefused, Authorize, RejectPlan, MarketMoves
<1> QED
  BY <1>1, <1>2, <1>3, <1>4, <1>5, <1>6

(***************************************************************************)
(* Requests.                                                               *)
(***************************************************************************)
\* What RequestOK says of one request.
RequestHolds(q) ==
    /\ q \in RequestType
    /\ q.pc # "idle" => q.cookie \in Cookies /\ q.plan \in Plans
    /\ q.pc \in {"approve", "execute"} => q.token \in Tokens
    /\ q.pc = "execute" => /\ Backs(q.token, q.cookie, q.plan)
                           /\ q.seen = challenge[q.token].seen

\* One request changes while accepted records stay.
LEMMA OneRequest ==
    ASSUME TypeOK, RequestOK, RecordsHold, NEW r \in Requests, NEW q,
           request' = [request EXCEPT ![r] = q], RequestHolds(q)'
    PROVE  request' \in [Requests -> RequestType] /\ RequestOK'
<1>1. request'[r] = q /\ \A u \in Requests \ {r} : request'[u] = request[u]
  BY DEF TypeOK
<1>2. request' \in [Requests -> RequestType]
  BY DEF TypeOK, RequestHolds
<1>3. \A u \in Requests \ {r} : RequestHolds(request[u])'
  BY DEF TypeOK, RequestOK, RecordsHold, RequestHolds, Backs
<1> QED
  BY <1>1, <1>2, <1>3 DEF RequestOK, RequestHolds

\* Steps that leave the requests alone.
LEMMA SameRequests ==
    ASSUME TypeOK, RequestOK, RecordsHold, UNCHANGED request
    PROVE  request' \in [Requests -> RequestType] /\ RequestOK'
<1>1. \A u \in Requests : RequestHolds(request[u])'
  BY DEF TypeOK, RequestOK, RecordsHold, RequestHolds, Backs
<1> QED
  BY <1>1 DEF RequestOK, RequestHolds, TypeOK

\* A handler that ends leaves no request.
LEMMA EndsHolds ==
    ASSUME TypeOK, RequestOK, RecordsHold, NEW r \in Requests, Ends(r)
    PROVE  request' \in [Requests -> RequestType] /\ RequestOK'
<1>1. NoRequest \in RequestType /\ NoRequest.pc = "idle"
  BY PoppedFacts DEF NoRequest, RequestType
<1>2. RequestHolds(NoRequest)'
  BY <1>1 DEF RequestHolds
<1> QED
  BY <1>2, OneRequest DEF Ends

\* Every step keeps an approval tied to the record it popped.
LEMMA RequestsStep ==
    ASSUME TypeOK, ChallengeOK, RequestOK, RecordsHold, Next
    PROVE  request' \in [Requests -> RequestType] /\ RequestOK'
<1> DEFINE Goal == request' \in [Requests -> RequestType] /\ RequestOK'
<1>1. ASSUME NEW r \in Requests, NEW kind \in {"preview", "approve"}, NEW c \in Cookies,
             NEW p \in Plans, NEW t \in Tokens \cup {None}, Authorize(r, kind, c, p, t)
      PROVE  Goal
  <2>1. CASE Valid(c)
    <3>1. PICK q : q = [NoRequest EXCEPT !.pc = kind, !.cookie = c, !.plan = p, !.token = t]
      OBVIOUS
    <3>2. request' = [request EXCEPT ![r] = q]
      BY <1>1, <2>1, <3>1 DEF Authorize
    <3>3. kind = "approve" => t \in Tokens
      BY <1>1 DEF Authorize
    <3>4. q \in RequestType /\ q.pc = kind /\ q.cookie = c /\ q.plan = p /\ q.token = t
      BY <3>1, PoppedFacts DEF NoRequest, RequestType
    <3>5. RequestHolds(q)'
      BY <3>3, <3>4 DEF RequestHolds
    <3> QED
      BY <3>2, <3>5, OneRequest
  <2>2. CASE ~Valid(c)
    BY <1>1, <2>2, SameRequests DEF Authorize
  <2> QED
    BY <2>1, <2>2
<1>2. ASSUME NEW r \in Requests, Preview(r)
      PROVE  Goal
  <2>1. CASE Ends(r)
    BY <2>1, EndsHolds
  <2>2. ASSUME NEW f \in Executable(market, Planned),
               request' = [request EXCEPT ![r].pc = "challenge", ![r].seen = f]
        PROVE  Goal
    <3>1. PICK q : q = [request[r] EXCEPT !.pc = "challenge", !.seen = f]
      OBVIOUS
    <3>2. f \in FigureType
      BY FiguresFacts DEF TypeOK
    <3>3. request[r] \in RequestType /\ request[r].cookie \in Cookies /\ request[r].plan \in Plans
      BY <1>2 DEF Preview, RequestOK, TypeOK
    <3>4. /\ q \in RequestType /\ q.pc = "challenge"
          /\ q.cookie = request[r].cookie /\ q.plan = request[r].plan
      BY <3>1, <3>2, <3>3 DEF RequestType
    <3>5. RequestHolds(q)'
      BY <3>3, <3>4 DEF RequestHolds
    <3>6. request' = [request EXCEPT ![r] = q]
      BY <2>2, <3>1 DEF TypeOK
    <3> QED
      BY <3>5, <3>6, OneRequest
  <2> QED
    BY <1>2, <2>1, <2>2 DEF Preview
<1>3. ASSUME NEW r \in Requests, Consume(r)
      PROVE  Goal
  <2>1. CASE Ends(r)
    BY <2>1, EndsHolds
  <2>2. CASE ~Ends(r)
    <3>1. PICK t, rec : t = request[r].token /\ rec = challenge[t]
      OBVIOUS
    <3>2. /\ request[r].pc = "approve" /\ rec.st = "live" /\ Bound(r, rec)
          /\ request' = [request EXCEPT ![r].pc = "execute", ![r].seen = rec.seen]
          /\ challenge' = [challenge EXCEPT ![t].st = "spent", ![t].uses = rec.uses + 1]
      BY <1>3, <2>2, <3>1 DEF Consume
    <3>3. /\ request[r] \in RequestType /\ t \in Tokens
          /\ request[r].cookie \in Cookies /\ request[r].plan \in Plans
      BY <3>1, <3>2 DEF RequestOK, TypeOK
    <3>4. rec \in ChallengeType /\ rec.uses = 0
      BY <3>1, <3>2, <3>3 DEF TypeOK, ChallengeOK
    <3>5. PICK q : q = [request[r] EXCEPT !.pc = "execute", !.seen = rec.seen]
      OBVIOUS
    <3>6. rec.seen \in FigureType
      BY <3>4 DEF ChallengeType
    <3>7. /\ q \in RequestType /\ q.pc = "execute" /\ q.seen = rec.seen /\ q.token = t
          /\ q.cookie = request[r].cookie /\ q.plan = request[r].plan
      BY <3>1, <3>3, <3>5, <3>6 DEF RequestType
    <3>8. /\ challenge'[t].seen = rec.seen /\ challenge'[t].cookie = rec.cookie
          /\ challenge'[t].plan = rec.plan /\ challenge'[t].uses = rec.uses + 1
      BY <3>1, <3>2, <3>3, <3>4 DEF TypeOK, ChallengeType
    <3>9. rec.uses + 1 = 1
      BY <3>4
    <3>10. RequestHolds(q)'
      BY <3>2, <3>3, <3>7, <3>8, <3>9 DEF RequestHolds, Backs, Bound
    <3>11. request' = [request EXCEPT ![r] = q]
      BY <3>2, <3>5 DEF TypeOK
    <3> QED
      BY <3>10, <3>11, OneRequest
  <2> QED
    BY <2>1, <2>2
<1>4. ASSUME NEW r \in Requests, Ends(r)
      PROVE  Goal
  BY <1>4, EndsHolds
<1>5. ASSUME UNCHANGED request
      PROVE  Goal
  BY <1>5, SameRequests
<1>6. \/ UNCHANGED request
      \/ \E r \in Requests : Preview(r) \/ Consume(r) \/ Ends(r)
      \/ \E r \in Requests, kind \in {"preview", "approve"}, c \in Cookies, p \in Plans,
            t \in Tokens \cup {None} : Authorize(r, kind, c, p, t)
  BY DEF Next, Handler, CreateSession, SessionAges, Register, Acknowledge, CloseDead,
         Disconnect, AckAges, Connect, CreateChallenge, Execute, ExecuteRefused,
         ChallengeAges, RejectPlan, MarketMoves
<1> HIDE DEF Goal
<1>7. Goal
  BY <1>1, <1>2, <1>3, <1>4, <1>5, <1>6
<1> QED
  BY <1>7 DEF Goal

(***************************************************************************)
(* Plans and their orders.                                                 *)
(***************************************************************************)
\* What OrderOK says of one plan.
OrderHolds(p, x) ==
    /\ x \in PlanType
    /\ x.st = "APPROVED" =>
          LET o == x.order IN
          /\ o.token \in Tokens /\ Backs(o.token, o.cookie, p)
          /\ ~PreviewChanged(o.figures, challenge[o.token].seen)
          /\ o.at \in Markets /\ o.figures \in Executable(o.at, Planned)

\* An order outlasts every step: the record behind it never changes.
LEMMA OrdersLast ==
    ASSUME TypeOK, OrderOK, RecordsHold
    PROVE  \A p \in Plans : OrderHolds(p, plan[p])' \/ plan'[p] # plan[p]
<1> SUFFICES ASSUME NEW p \in Plans, plan'[p] = plan[p]
             PROVE  OrderHolds(p, plan[p])'
  OBVIOUS
<1>1. plan[p] \in PlanType
  BY DEF TypeOK
<1>2. CASE plan[p].st # "APPROVED"
  BY <1>1, <1>2 DEF OrderHolds
<1>3. CASE plan[p].st = "APPROVED"
  <2>1. PICK o : o = plan[p].order
    OBVIOUS
  <2>2. /\ o.token \in Tokens /\ Backs(o.token, o.cookie, p)
        /\ ~PreviewChanged(o.figures, challenge[o.token].seen)
        /\ o.at \in Markets /\ o.figures \in Executable(o.at, Planned)
    BY <1>3, <2>1 DEF OrderOK, Ordered
  <2>3. challenge'[o.token] = challenge[o.token]
    BY <2>2 DEF RecordsHold, Backs
  <2>4. Backs(o.token, o.cookie, p)'
    BY <2>2, <2>3 DEF Backs
  <2> QED
    BY <1>1, <2>1, <2>2, <2>3, <2>4 DEF OrderHolds
<1> QED
  BY <1>2, <1>3

\* One plan changes.
LEMMA OnePlan ==
    ASSUME TypeOK, OrderOK, RecordsHold, NEW p \in Plans, NEW x,
           plan' = [plan EXCEPT ![p] = x], OrderHolds(p, x)'
    PROVE  plan' \in [Plans -> PlanType] /\ OrderOK'
<1>1. plan'[p] = x /\ \A u \in Plans \ {p} : plan'[u] = plan[u]
  BY DEF TypeOK
<1>2. plan' \in [Plans -> PlanType]
  BY DEF TypeOK, OrderHolds
<1>3. \A u \in Plans : OrderHolds(u, plan[u])'
  BY <1>1, OrdersLast
<1> QED
  BY <1>2, <1>3 DEF OrderOK, OrderHolds, Ordered

\* Steps that leave the plans alone.
LEMMA SamePlans ==
    ASSUME TypeOK, OrderOK, RecordsHold, UNCHANGED plan
    PROVE  plan' \in [Plans -> PlanType] /\ OrderOK'
<1>1. \A u \in Plans : OrderHolds(u, plan[u])'
  BY OrdersLast
<1> QED
  BY <1>1 DEF OrderOK, OrderHolds, Ordered, TypeOK

\* A plan that is not ordered becomes REJECTED.
LEMMA RejectHolds ==
    ASSUME TypeOK, OrderOK, RecordsHold, NEW p \in Plans,
           plan' = [plan EXCEPT ![p].st = "REJECTED"]
    PROVE  plan' \in [Plans -> PlanType] /\ OrderOK'
<1>1. PICK x : x = [plan[p] EXCEPT !.st = "REJECTED"]
  OBVIOUS
<1>2. x \in PlanType /\ x.st = "REJECTED"
  BY <1>1 DEF TypeOK, PlanType
<1>3. OrderHolds(p, x)'
  BY <1>2 DEF OrderHolds
<1>4. plan' = [plan EXCEPT ![p] = x]
  BY <1>1 DEF TypeOK
<1> QED
  BY <1>3, <1>4, OnePlan

\* Every step keeps an order tied to the record that was approved.
LEMMA PlansStep ==
    ASSUME TypeOK, RequestOK, OrderOK, RecordsHold, Next
    PROVE  plan' \in [Plans -> PlanType] /\ OrderOK'
<1> DEFINE Goal == plan' \in [Plans -> PlanType] /\ OrderOK'
<1>1. ASSUME NEW r \in Requests, Execute(r)
      PROVE  Goal
  <2>1. PICK p, t, q : p = request[r].plan /\ t = request[r].token /\ q = request[r]
    OBVIOUS
  <2>1a. PICK f \in Executable(market, Planned) :
            /\ ~PreviewChanged(f, q.seen)
            /\ plan' = [plan EXCEPT ![p] =
                 [st |-> "APPROVED", order |-> [figures |-> f, cookie |-> q.cookie,
                                                token |-> t, at |-> market]]]
    BY <1>1, <2>1 DEF Execute
  <2>2. q.pc = "execute" /\ challenge' = challenge
    BY <1>1, <2>1 DEF Execute
  <2>3. /\ q \in RequestType /\ p \in Plans /\ q.cookie \in Cookies /\ t \in Tokens
        /\ Backs(t, q.cookie, p) /\ q.seen = challenge[t].seen
    BY <2>1, <2>2 DEF RequestOK, TypeOK
  <2>4. f \in FigureType /\ market \in Markets
    BY FiguresFacts DEF TypeOK
  <2>5. PICK x, o : /\ o = [figures |-> f, cookie |-> q.cookie, token |-> t, at |-> market]
                    /\ x = [st |-> "APPROVED", order |-> o]
    OBVIOUS
  <2>6. /\ x \in PlanType /\ x.order = o /\ o.token = t /\ o.cookie = q.cookie
        /\ o.at = market /\ o.figures = f
    BY <2>3, <2>4, <2>5 DEF PlanType
  <2>7. Backs(t, q.cookie, p)' /\ challenge'[t].seen = q.seen
    BY <2>2, <2>3 DEF Backs
  <2>8. OrderHolds(p, x)'
    BY <2>1, <2>1a, <2>2, <2>3, <2>4, <2>6, <2>7 DEF OrderHolds
  <2>9. plan' = [plan EXCEPT ![p] = x]
    BY <2>1a, <2>5
  <2> QED
    BY <2>3, <2>8, <2>9, OnePlan
<1>2. ASSUME NEW p \in Plans, plan' = [plan EXCEPT ![p].st = "REJECTED"]
      PROVE  Goal
  BY <1>2, RejectHolds
<1>3. ASSUME UNCHANGED plan
      PROVE  Goal
  BY <1>3, SamePlans
<1>4. ASSUME NEW r \in Requests, Preview(r) \/ ExecuteRefused(r)
      PROVE  Goal
  <2>1. request[r].plan \in Plans
    BY <1>4 DEF Preview, ExecuteRefused, RequestOK
  <2> HIDE DEF Goal
  <2> QED
    BY <1>2, <1>3, <1>4, <2>1 DEF Preview, ExecuteRefused
<1>5. \/ UNCHANGED plan
      \/ \E r \in Requests : Execute(r) \/ Preview(r) \/ ExecuteRefused(r)
      \/ \E p \in Plans : plan' = [plan EXCEPT ![p].st = "REJECTED"]
  BY DEF Next, Handler, CreateSession, SessionAges, Register, Acknowledge, CloseDead,
         Disconnect, AckAges, Connect, Authorize, CreateChallenge, Consume,
         ChallengeAges, RejectPlan, MarketMoves
<1> HIDE DEF Goal
<1>6. Goal
  BY <1>1, <1>2, <1>3, <1>4, <1>5
<1> QED
  BY <1>6 DEF Goal

(***************************************************************************)
(* The theorems.                                                           *)
(***************************************************************************)
LEMMA NextHolds == IInv /\ [Next]_vars => IInv'
<1> SUFFICES ASSUME IInv, [Next]_vars PROVE IInv'
  OBVIOUS
<1>1. CASE Next
  <2>1. RecordsHold
    BY <1>1, RecordsStep DEF IInv
  <2>2. TablesHold
    BY <1>1, TablesStep DEF IInv
  <2>3. request' \in [Requests -> RequestType] /\ RequestOK'
    BY <1>1, <2>1, RequestsStep DEF IInv
  <2>4. plan' \in [Plans -> PlanType] /\ OrderOK'
    BY <1>1, <2>1, PlansStep DEF IInv
  <2>5. market' \in Markets
    <3>1. market' = market \/ MarketMoves
      BY <1>1, ZenonT(30) DEF Next, Handler, CreateSession, SessionAges, Register,
         Acknowledge, CloseDead, Disconnect, AckAges, Connect, Authorize, Preview,
         CreateChallenge, Consume, Execute, ExecuteRefused, ChallengeAges, RejectPlan
    <3> QED
      BY <3>1 DEF MarketMoves, IInv, TypeOK
  <2> QED
    BY <2>1, <2>2, <2>3, <2>4, <2>5 DEF IInv, TypeOK, RecordsHold, TablesHold
<1>2. CASE UNCHANGED vars
  BY <1>2 DEF vars, IInv, TypeOK, ChallengeOK, RequestOK, OrderOK, Backs, Ordered,
             SocketsHaveSessions, InTable
<1> QED
  BY <1>1, <1>2

\* The invariant of the approval protocol holds in every reachable state.
THEOREM Invariance == Spec => []IInv
  BY InitHolds, NextHolds, PTL DEF Spec

\* consume_approval_challenge pops first: a challenge starts at most one
\* approval.
THEOREM OneApprovalPerChallenge == Spec => []ChallengeUsedOnce
<1>1. IInv => ChallengeUsedOnce
  BY DEF IInv, ChallengeOK, ChallengeUsedOnce
<1> QED
  BY <1>1, Invariance, PTL

\* register_websocket asks for the session: what is registered belongs to a
\* session of the table.
THEOREM RegisteredSocketsHaveSessions == Spec => []SocketsHaveSessions
<1>1. IInv => SocketsHaveSessions
  BY DEF IInv
<1> QED
  BY <1>1, Invariance, PTL

\* The order that approve_plan places is what a challenge of the same session
\* showed for the same plan, within the tolerances of approval_preview_change.
THEOREM OrdersAreWhatWasShown == Spec => []ApprovedAsShown
<1>1. ASSUME IInv PROVE ApprovedAsShown
  <2> DEFINE o(p) == plan[p].order
             s(p) == challenge[plan[p].order.token]
             pct(f) == IF f \in {"size", "risk"} THEN SizeTolerance ELSE PriceTolerance
  <2>1. ASSUME NEW p \in Plans, Ordered(p)
        PROVE  /\ s(p).cookie = o(p).cookie /\ s(p).plan = p
               /\ ~PreviewChanged(o(p).figures, s(p).seen)
               /\ o(p).figures \in FigureType /\ s(p).seen \in FigureType
    <3>1. /\ o(p).token \in Tokens /\ Backs(o(p).token, o(p).cookie, p)
          /\ ~PreviewChanged(o(p).figures, s(p).seen) /\ o(p).at \in Markets
          /\ o(p).figures \in Executable(o(p).at, Planned)
      BY <1>1, <2>1 DEF IInv, OrderOK
    <3>2. s(p).cookie = o(p).cookie /\ s(p).plan = p
      BY <3>1 DEF Backs
    <3>3. o(p).figures \in FigureType
      BY <3>1, FiguresFacts
    <3>4. s(p).seen \in FigureType
      BY <1>1, <3>1 DEF IInv, TypeOK, ChallengeType
    <3> QED
      BY <3>1, <3>2, <3>3, <3>4
  <2>2. ASSUME NEW p \in Plans, Ordered(p),
               NEW f \in {"entry", "stop", "target", "size", "risk"}
        PROVE  10000 * o(p).figures[f] \in
                  (10000 - pct(f)) * s(p).seen[f] .. (10000 + pct(f)) * s(p).seen[f]
    <3>1. PICK a, b, tol : a = o(p).figures[f] /\ b = s(p).seen[f] /\ tol = pct(f)
      OBVIOUS
    <3>2. a \in Nat /\ b \in Nat
      BY <2>1, <2>2, <3>1 DEF FigureType
    <3>3. tol \in Nat
      BY <3>1, SizingAssumption
    <3>4. ~Differs(a, b, tol)
      BY <2>1, <2>2, <3>1 DEF PreviewChanged
    <3>5. 10000 * a \in (10000 - tol) * b .. (10000 + tol) * b
      BY <3>2, <3>3, <3>4, DiffersFacts
    <3> QED
      BY <3>1, <3>5
  <2> QED
    BY <2>1, <2>2 DEF ApprovedAsShown
<1> QED
  BY <1>1, Invariance, PTL

\* build_executable_long_plan and calculate_position_size: up to the unit a float
\* may be off, the size of every order is within both budgets and a lot more
\* would not be, and the rounding of prices is never on the optimistic side.
THEOREM OrderFiguresSound == Spec => []FiguresSound
<1>1. ASSUME IInv PROVE FiguresSound
  <2>1. ASSUME NEW p \in Plans, Ordered(p)
        PROVE  SoundFor(plan[p].order.figures, plan[p].order.at)
    BY <1>1, <2>1, FiguresFacts DEF IInv, OrderOK
  <2> QED
    BY <2>1 DEF FiguresSound, SoundFor
<1> QED
  BY <1>1, Invariance, PTL
=============================================================================
