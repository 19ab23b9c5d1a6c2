---------------------------- MODULE ApprovalFlow ----------------------------
(***************************************************************************)
(* The manual way to an order: browser sessions, their control streams and *)
(* one-use approval challenges (SessionManager of web_api/security.py, the *)
(* preview, approve and websocket routes of web_api/app.py, the client     *)
(* streams and approvals of service.py) around approve_plan.               *)
(*                                                                         *)
(* Handlers run on the event loop and give way at every await; what they   *)
(* wait for runs on other threads while sessions expire or are evicted,    *)
(* streams age, plans end and the market moves.  Ages are flags that time  *)
(* sets: a session's 8 hours, an acknowledgement's 8 seconds, a            *)
(* challenge's 15 seconds.                                                 *)
(***************************************************************************)
EXTENDS Sizing, Sequences, FiniteSets, Functions

CONSTANTS
    Cookies,        \* session cookies, each handed out once
    Conns,          \* websocket handlers
    Tokens,         \* challenge tokens, each handed out once
    Requests,       \* HTTP handlers of the preview and approve routes
    Plans,          \* plans waiting for approval
    None,           \* "no cookie", "no plan", "no token"
    Markets,        \* market states: [price, ask, stop, target]
    Planned,        \* entry price the plans were made at
    MaxSessions     \* 64 in SessionManager.create

ASSUME MaxSessionsAssumption == MaxSessions \in Nat \ {0}
ASSUME NoneAssumption == None \notin Cookies \cup Tokens \cup Plans
ASSUME MarketsAssumption ==
    Markets \subseteq [price : Nat, ask : Nat, stop : Nat, target : Nat] /\ Planned \in Nat

VARIABLES
    sessions,       \* SessionManager._sessions: the cookies in the table
    created,        \* every cookie handed out, in the order of created_at
    aged,           \* cookies older than 8 hours, or whose session was evicted
    socket,         \* the websocket handlers and their entries in the tables
    challenge,      \* _approval_challenges; an accepted record stays as history
    request,        \* the HTTP handlers
    plan,           \* trade_plans.status and the order an approval led to
    market          \* what the market provider returns

vars == <<sessions, created, aged, socket, challenge, request, plan, market>>

NoFigures == [entry |-> 0, stop |-> 0, target |-> 0, size |-> 0, risk |-> 0]
FreeSocket == [pc |-> "free", cookie |-> None, reg |-> FALSE, fresh |-> FALSE, stream |-> FALSE]
NoChallenge ==
    [st |-> "unused", cookie |-> None, plan |-> None, seen |-> NoFigures, old |-> FALSE, uses |-> 0]
Popped == [NoChallenge EXCEPT !.st = "spent"]
NoRequest ==
    [pc |-> "idle", cookie |-> None, plan |-> None, token |-> None,
     seen |-> NoFigures]
NoOrder == [figures |-> NoFigures, cookie |-> None, token |-> None, at |-> None]

Init ==
    /\ sessions = {} /\ created = <<>> /\ aged = {}
    /\ socket = [k \in Conns |-> FreeSocket]
    /\ challenge = [t \in Tokens |-> NoChallenge]
    /\ request = [r \in Requests |-> NoRequest]
    /\ plan = [p \in Plans |-> [st |-> "PLANNED", order |-> NoOrder]]
    /\ market \in Markets

(***************************************************************************)
(* SessionManager.                                                         *)
(***************************************************************************)
InTable(c) == c \in sessions
\* valid(cookie): a record that is not too old.
Valid(c) == InTable(c) /\ c \notin aged
\* The sockets after the entries of some cookies were popped from _websockets.
Unregistered(cookies) ==
    [k \in Conns |-> IF socket[k].cookie \in cookies THEN [socket[k] EXCEPT !.reg = FALSE]
                     ELSE socket[k]]
\* valid(cookie) of a record it finds too old: session and sockets are popped,
\* the session's challenges stay.
Forget(c) ==
    /\ sessions' = sessions \ {c}
    /\ socket' = Unregistered({c})

\* min(self._sessions, key=created_at).
Oldest(cookies) ==
    created[CHOOSE i \in DOMAIN created :
               /\ created[i] \in cookies
               /\ \A j \in DOMAIN created : created[j] \in cookies => i <= j]

\* create(): the expired sessions go, then the oldest if the table is full,
\* each with its sockets and challenges.
CreateSession(c) ==
    LET fresh == sessions \ aged
        kept == IF Cardinality(fresh) >= MaxSessions THEN fresh \ {Oldest(fresh)} ELSE fresh
        gone == sessions \ kept
    IN /\ c \notin Range(created)
       /\ created' = Append(created, c)
       /\ sessions' = kept \cup {c}
       /\ socket' = Unregistered(gone)
       /\ challenge' = [t \in Tokens |->
              IF challenge[t].st = "live" /\ challenge[t].cookie \in gone
              THEN Popped ELSE challenge[t]]
       /\ aged' = aged \cup gone
       /\ UNCHANGED <<request, plan, market>>

(***************************************************************************)
(* websocket_stream.                                                       *)
(***************************************************************************)
\* websocket_session, then the await of accept().
Connect(k, c) ==
    /\ socket[k].pc = "free"
    /\ IF Valid(c)
       THEN /\ socket' = [socket EXCEPT ![k].pc = "accepted", ![k].cookie = c]
            /\ UNCHANGED sessions
       ELSE Forget(c)
    /\ UNCHANGED <<created, aged, challenge, request, plan, market>>

\* Mutant: the socket is registered whatever became of its session.
RegisterAnyway(k) ==
    /\ socket[k].pc = "accepted"
    /\ socket' = [socket EXCEPT ![k].pc = "loop", ![k].stream = TRUE, ![k].reg = TRUE]
    /\ UNCHANGED <<sessions, created, aged, challenge, request, plan, market>>

\* register_websocket, which does nothing for a session that is gone, and
\* client_stream_connected, which does not ask.
Register(k) ==
    /\ socket[k].pc = "accepted"
    /\ socket' = [socket EXCEPT ![k].pc = "loop", ![k].stream = TRUE,
                                ![k].reg = InTable(socket[k].cookie)]
    /\ UNCHANGED <<sessions, created, aged, challenge, request, plan, market>>

\* A round of the loop with a valid heartbeat.ack.
Acknowledge(k) ==
    /\ socket[k].pc = "loop" /\ socket[k].reg /\ Valid(socket[k].cookie)
    /\ socket' = [socket EXCEPT ![k].fresh = TRUE]
    /\ UNCHANGED <<sessions, created, aged, challenge, request, plan, market>>

\* A round that finds the connection no longer registered closes it; the
\* check pops an expired session.
CloseDead(k) ==
    /\ socket[k].pc = "loop" /\ ~(socket[k].reg /\ Valid(socket[k].cookie))
    /\ sessions' = sessions \ ({socket[k].cookie} \cap aged)
    /\ socket' = [Unregistered({socket[k].cookie} \cap aged) EXCEPT
                      ![k].pc = "closing", ![k].reg = FALSE]
    /\ UNCHANGED <<created, aged, challenge, request, plan, market>>

\* The browser is gone or sent something that is not a valid acknowledgement,
\* or the close of a dead connection returned: the finally block,
\* clear_websocket and client_stream_disconnected.
Disconnect(k) ==
    /\ socket[k].pc \in {"accepted", "loop", "closing"}
    /\ socket' = [socket EXCEPT ![k] = FreeSocket]
    /\ UNCHANGED <<sessions, created, aged, challenge, request, plan, market>>

\* websocket_fresh(cookie) and client_stream_fresh(): the service asks for any
\* stream, whoever's it is.
WebsocketFresh(c) ==
    \E k \in Conns : socket[k].reg /\ socket[k].cookie = c /\ socket[k].fresh
ClientStreamFresh == \E k \in Conns : socket[k].stream /\ socket[k].fresh

(***************************************************************************)
(* The preview and approve routes.                                         *)
(***************************************************************************)
Ends(r) == request' = [request EXCEPT ![r] = NoRequest]

\* A request arrives with any cookie and token its sender was given, and passes
\* require_write_session and require_fresh_websocket, or is answered at once;
\* an expired session is popped then.
Authorize(r, kind, c, p, t) ==
    /\ request[r].pc = "idle"
    /\ InTable(c) \/ c \in aged
    /\ kind = "preview" => t = None
    /\ kind = "approve" => t # None /\ challenge[t].st # "unused"
    /\ IF Valid(c)
       THEN /\ WebsocketFresh(c)
            /\ request' = [request EXCEPT ![r] = [NoRequest EXCEPT
                               !.pc = kind, !.cookie = c, !.plan = p, !.token = t]]
            /\ UNCHANGED <<sessions, socket>>
       ELSE Forget(c) /\ UNCHANGED request
    /\ UNCHANGED <<created, aged, challenge, plan, market>>

\* approval_preview on the core thread: approve_plan without the approval text.
\* The service may also find the agent not ready.
Preview(r) ==
    LET p == request[r].plan IN
    /\ request[r].pc = "preview"
    /\ \/ /\ Ends(r)
          /\ UNCHANGED plan
       \/ /\ ClientStreamFresh /\ plan[p].st = "PLANNED" /\ NotExecutable(market, Planned)
          /\ plan' = [plan EXCEPT ![p].st = "REJECTED"]
          /\ Ends(r)
       \/ /\ ClientStreamFresh /\ plan[p].st = "PLANNED"
          /\ \E f \in Executable(market, Planned) :
                request' = [request EXCEPT ![r].pc = "challenge", ![r].seen = f]
          /\ UNCHANGED plan
    /\ UNCHANGED <<sessions, created, aged, socket, challenge, market>>

\* Back on the event loop: create_approval_challenge, which asks for the
\* session again.
CreateChallenge(r) ==
    LET c == request[r].cookie IN
    /\ request[r].pc = "challenge"
    /\ Ends(r)
    /\ IF Valid(c)
       THEN /\ \E t \in Tokens :
                  /\ challenge[t].st = "unused"
                  /\ challenge' = [challenge EXCEPT ![t] =
                        [NoChallenge EXCEPT !.st = "live", !.cookie = c,
                                            !.plan = request[r].plan, !.seen = request[r].seen]]
            /\ UNCHANGED <<sessions, socket>>
       ELSE Forget(c) /\ UNCHANGED challenge
    /\ UNCHANGED <<created, aged, plan, market>>

\* The record was issued to this session for this plan.
Bound(r, rec) == rec.cookie = request[r].cookie /\ rec.plan = request[r].plan

\* Mutant: the record is looked up and left in the table.
ConsumeKeeps(r) ==
    LET t == request[r].token  rec == challenge[t] IN
    /\ request[r].pc = "approve"
    /\ IF rec.st = "live" /\ Bound(r, rec) /\ ~rec.old /\ Valid(request[r].cookie)
       THEN /\ request' = [request EXCEPT ![r].pc = "execute", ![r].seen = rec.seen]
            /\ challenge' = [challenge EXCEPT ![t].uses = @ + 1]
       ELSE Ends(r) /\ UNCHANGED challenge
    /\ UNCHANGED <<sessions, created, aged, socket, plan, market>>

\* consume_approval_challenge: the record is popped first, whatever the checks
\* say; the last check asks for the session once more.
Consume(r) ==
    LET t == request[r].token  rec == challenge[t]  c == request[r].cookie
        asked == rec.st = "live" /\ Bound(r, rec) /\ ~rec.old
    IN /\ request[r].pc = "approve"
       /\ IF asked /\ Valid(c)
          THEN /\ request' = [request EXCEPT ![r].pc = "execute", ![r].seen = rec.seen]
               /\ challenge' = [challenge EXCEPT ![t].st = "spent", ![t].uses = rec.uses + 1]
          ELSE /\ Ends(r)
               /\ challenge' = IF rec.st = "live" THEN [challenge EXCEPT ![t] = Popped]
                               ELSE challenge
       /\ IF asked /\ ~Valid(c) THEN Forget(c) ELSE UNCHANGED <<sessions, socket>>
       /\ UNCHANGED <<created, aged, plan, market>>

\* approve_plan_with_challenge under the action lock, on the core thread:
\* approve_plan with the preview the operator saw.
Execute(r) ==
    LET p == request[r].plan IN
    /\ request[r].pc = "execute" /\ ClientStreamFresh
    /\ plan[p].st = "PLANNED"
    /\ \E f \in Executable(market, Planned) :
          /\ ~PreviewChanged(f, request[r].seen)
          /\ plan' = [plan EXCEPT ![p] =
                 [st |-> "APPROVED",
                  order |-> [figures |-> f, cookie |-> request[r].cookie,
                             token |-> request[r].token, at |-> market]]]
    /\ Ends(r)
    /\ UNCHANGED <<sessions, created, aged, socket, challenge, market>>

\* The approval is refused: the agent is not ready, the stream is not fresh,
\* the plan is not pending or not executable, or the figures moved.  A check of
\* the plan itself rejects it for good; the challenge is used up either way.
ExecuteRefused(r) ==
    LET p == request[r].plan IN
    /\ request[r].pc = "execute"
    /\ \/ UNCHANGED plan
       \/ /\ plan[p].st = "PLANNED" /\ NotExecutable(market, Planned)
          /\ plan' = [plan EXCEPT ![p].st = "REJECTED"]
    /\ Ends(r)
    /\ UNCHANGED <<sessions, created, aged, socket, challenge, market>>

\* reject_plan, or the plan's own 60 seconds.
RejectPlan(p) ==
    /\ plan[p].st = "PLANNED"
    /\ plan' = [plan EXCEPT ![p].st = "REJECTED"]
    /\ UNCHANGED <<sessions, created, aged, socket, challenge, request, market>>

(***************************************************************************)
(* Time and the market.                                                    *)
(***************************************************************************)
SessionAges(c) ==
    /\ Valid(c)
    /\ aged' = aged \cup {c}
    /\ UNCHANGED <<sessions, created, socket, challenge, request, plan, market>>

AckAges(k) ==
    /\ socket[k].fresh
    /\ socket' = [socket EXCEPT ![k].fresh = FALSE]
    /\ UNCHANGED <<sessions, created, aged, challenge, request, plan, market>>

ChallengeAges(t) ==
    /\ challenge[t].st = "live" /\ ~challenge[t].old
    /\ challenge' = [challenge EXCEPT ![t].old = TRUE]
    /\ UNCHANGED <<sessions, created, aged, socket, request, plan, market>>

MarketMoves ==
    /\ market' \in Markets \ {market}
    /\ UNCHANGED <<sessions, created, aged, socket, challenge, request, plan>>

Handler(r) ==
    \/ Preview(r) \/ CreateChallenge(r)
    \/ Consume(r) \/ Execute(r) \/ ExecuteRefused(r)

Next ==
    \/ \E c \in Cookies : CreateSession(c) \/ SessionAges(c)
    \/ \E k \in Conns :
          \/ Register(k) \/ Acknowledge(k) \/ CloseDead(k) \/ Disconnect(k) \/ AckAges(k)
          \/ \E c \in Cookies : Connect(k, c)
    \/ \E r \in Requests :
          \/ Handler(r)
          \/ \E kind \in {"preview", "approve"}, c \in Cookies, p \in Plans,
                t \in Tokens \cup {None} : Authorize(r, kind, c, p, t)
    \/ \E t \in Tokens : ChallengeAges(t)
    \/ \E p \in Plans : RejectPlan(p)
    \/ MarketMoves

Spec == Init /\ [][Next]_vars

(***************************************************************************)
(* Properties.                                                             *)
(***************************************************************************)
Ordered(p) == plan[p].st = "APPROVED"

\* Every order the operator approved is the order the operator saw: a challenge
\* issued to the same session for the same plan showed each price within
\* max_preview_price_change_pct, size and risk within theirs, whatever the
\* market did between preview, approval and execution.
ApprovedAsShown ==
    \A p \in Plans : Ordered(p) =>
        LET o == plan[p].order  shown == challenge[o.token] IN
        /\ shown.cookie = o.cookie /\ shown.plan = p
        /\ \A f \in {"entry", "stop", "target", "size", "risk"} :
              LET pct == IF f \in {"size", "risk"} THEN SizeTolerance ELSE PriceTolerance IN
              10000 * o.figures[f] \in
                  (10000 - pct) * shown.seen[f] .. (10000 + pct) * shown.seen[f]

\* A challenge starts at most one approval, whatever is sent twice, refused and
\* tried again, or sent from two windows at once.
ChallengeUsedOnce == \A t \in Tokens : challenge[t].uses <= 1

\* Nothing is registered under a session that is gone, although a session can
\* expire or be evicted between a connection's check and its registration: only
\* sockets of sessions in the table count for websocket_fresh.
SocketsHaveSessions == \A k \in Conns : socket[k].reg => InTable(socket[k].cookie)

\* The figures of every order are sound: the size is a number of lots whose loss
\* at the stop and whose cost stay within both budgets, up to the float's unit,
\* and one more lot would leave them; the prices are ticks, and rounding moved
\* neither stop nor target nor entry to the optimistic side.
FiguresSound ==
    \A p \in Plans : Ordered(p) =>
        LET f == plan[p].order.figures  m == plan[p].order.at
            Fits(n) == n * (f.entry - f.stop) <= RiskBudget /\ n * f.entry <= CapNotional
        IN /\ f.size % Lot = 0 /\ f.size >= MinSize
           /\ Fits(f.size - 1) /\ ~Fits(f.size + Lot + 1)
           /\ f.stop >= m.stop /\ f.entry >= m.ask /\ f.target <= m.target
           /\ \A v \in {f.stop, f.entry, f.target} : v % Tick = 0
=============================================================================
