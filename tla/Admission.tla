----------------------------- MODULE Admission ------------------------------
(***************************************************************************)
(* What may be entered: TradingOrchestrator.approve_plan with RiskManager  *)
(* (risk/), the risk inputs TradeStore computes from its rows              *)
(* (position_slots_in_use, reserved_entry_notional, daily_state), and      *)
(* close_trade, which feeds them.  The module composes that gate with the  *)
(* entry side: Submit of EntryLifecycle happens only as the end of an      *)
(* approval, on the same core thread.                                      *)
(*                                                                         *)
(* The gate judges by rows and by a wallet read before them, while the     *)
(* exchange fills, loses and ends orders.  Quantities are lots of one      *)
(* price, so notional and quantity coincide; sizing is module Sizing.      *)
(* Market, signal, spread, slippage and funds checks have no state here:   *)
(* they refuse or not.                                                     *)
(***************************************************************************)
EXTENDS EntryLifecycle, Sequences, FiniteSetsExt

CONSTANTS
    RuleSets,   \* rules["risk"] the run covers: [open, exposure, streak, loss]
    Earlier     \* results of plans closed earlier today: sequences of [pnl, known]

ASSUME PlansAssumption == IsFiniteSet(Plans)
ASSUME RuleSetsAssumption ==
    \A r \in RuleSets : r.open \in Nat /\ r.exposure \in Nat
                           /\ r.streak \in Nat \ {0} /\ r.loss \in Nat \ {0}
ASSUME EarlierAssumption ==
    \A s \in Earlier : s \in Seq([pnl : Int, known : BOOLEAN])

VARIABLES
    rules,      \* the configuration, read once at start
    ask,        \* the approval a worker is in: its plan and the wallet it read
    sold,       \* lots of the plan's entry that an exit sold
    trades      \* today's closed trades in order: [pnl, known]

gate == <<rules, ask, sold, trades>>
admissionVars == <<order, pos, trade, ex, sl, placed, wk, faults, rules, ask, sold, trades>>

NoAsk == [p |-> NoPlan, wallet |-> 0]

AdmissionInit ==
    /\ Init
    /\ rules \in RuleSets
    /\ ask = [w \in Workers |-> NoAsk]
    /\ sold = [p \in Plans |-> 0]
    /\ trades \in Earlier

(***************************************************************************)
(* The inputs of the decision.                                             *)
(***************************************************************************)
\* The lots of the plans' entries.
Lots == Plans \X (1..Q)

\* get_balance, priced: what the exchange holds for us (external).
Held == {l \in Lots : sold[l[1]] < l[2] /\ l[2] <= ex[l[1]].filled}
Wallet == Cardinality(Held)

\* Mutant: only orders known to rest on the exchange reserve money.
ReservedWithoutUnknown ==
    {l \in Lots : /\ order[l[1]].st \in {"APPROVED", "SUBMITTED", "OPEN",
                                         "CANCEL_REQUESTED", "PARTIALLY_FILLED"}
                  /\ order[l[1]].filled < l[2]}

\* reserved_entry_notional: what the entries that may still buy can cost, the
\* requested less the filled size of every row in one of these states.
Reserved ==
    {l \in Lots : /\ order[l[1]].st \in {"APPROVED", "SUBMITTED", "SUBMISSION_UNKNOWN",
                                         "CANCEL_REQUESTED", "OPEN", "PARTIALLY_FILLED"}
                  /\ order[l[1]].filled < l[2]}
ReservedEntryNotional == Cardinality(Reserved)

\* Mutant: only positions count, not the entries on their way.
SlotsOfPositions ==
    Cardinality({p \in Plans : pos[p].st \in MANAGED_POSITION_STATES})

PositionSlotsInUse ==
    Cardinality({p \in Plans : \/ pos[p].st \in MANAGED_POSITION_STATES
                               \/ order[p].st \in ACTIVE_ORDER_STATES})

\* daily_state: rows without a net result are filtered out before anything is
\* added up or counted.
Counted == {i \in 1..Len(trades) : trades[i].known}
Realized(rows) == MapThenSumSet(LAMBDA i : trades[i].pnl, rows)
\* Mutant: the streak is counted from the first trade of the day.
LosingStreakFromFirst(rows) ==
    Cardinality({i \in rows : \A j \in rows : j <= i => trades[j].pnl < 0})
\* The losses after the last trade that was none.
LosingStreak(rows) ==
    Cardinality({i \in rows : \A j \in rows : j >= i => trades[j].pnl < 0})

\* daily_loss_reached and the two loss checks of RiskManager.evaluate.
LimitsReached(rows) ==
    \/ Realized(rows) <= -rules.loss
    \/ LosingStreak(rows) >= rules.streak

\* RiskManager.evaluate as approve_plan calls it the second time, with the
\* exposure the proposed order would lead to (build_exposure_snapshot).
Passes(w) ==
    /\ ~LimitsReached(Counted)
    /\ PositionSlotsInUse < rules.open
    /\ ask[w].wallet + ReservedEntryNotional + Q <= rules.exposure

(***************************************************************************)
(* approve_plan and execute_plan_automatically.                            *)
(***************************************************************************)
Free(w) == At(w, "idle") /\ ask[w] = NoAsk

\* The plan is pending; the account is read.  From here to the decision only
\* the exchange moves: the core thread does nothing else.
BeginApproval(w, p) ==
    /\ Free(w)
    /\ order[p].st = "PLANNED"
    /\ ask' = [ask EXCEPT ![w] = [p |-> p, wallet |-> Wallet]]
    /\ UNCHANGED <<order, pos, trade, ex, sl, placed, wk, faults, rules, sold, trades>>

\* A preview without an approval, figures that moved since the preview, a read
\* that raised, or a plan no longer pending: nothing is written.
ApprovalReturns(w) ==
    /\ ask[w] # NoAsk
    /\ ask' = [ask EXCEPT ![w] = NoAsk]
    /\ UNCHANGED <<order, pos, trade, ex, sl, placed, wk, faults, rules, sold, trades>>

\* A check failed, one of this module's or one that has no state here.
RefusePlan(w) ==
    /\ ask[w] # NoAsk
    /\ RejectPlan(ask[w].p)
    /\ ask' = [ask EXCEPT ![w] = NoAsk]
    /\ UNCHANGED <<rules, sold, trades>>

\* Every check passed: update_pending_plan_snapshot and OrderManager.submit.
AdmitPlan(w) ==
    /\ ask[w] # NoAsk
    /\ Passes(w)
    /\ Submit(w, ask[w].p)
    /\ ask' = [ask EXCEPT ![w] = NoAsk]
    /\ UNCHANGED <<rules, sold, trades>>

(***************************************************************************)
(* The way out: exits sell, close_trade records.                           *)
(***************************************************************************)
\* The protective order or an exit attempt sells what was bought so far.
ExSell(p) ==
    /\ ex[p].filled > sold[p] /\ pos[p].st \in MANAGED_POSITION_STATES
    /\ sold' = [sold EXCEPT ![p] = ex[p].filled]
    /\ UNCHANGED <<order, pos, trade, ex, sl, placed, wk, faults, rules, ask, trades>>

\* close_trade: position and order row are closed in one transaction, which
\* raises without a trade row and for an order row in another state.  The net result is NULL unless
\* the fees of entry and exit are known in the quote currency.
CloseTrade(w, p) ==
    /\ Free(w)
    /\ trade[p] > 0
    /\ pos[p].st \in MANAGED_POSITION_STATES /\ sold[p] >= pos[p].qty
    /\ order[p].st \in {"PARTIALLY_FILLED", "FILLED", "POSITION_UNPROTECTED", "CANCELLED"}
    /\ pos' = [pos EXCEPT ![p].st = "CLOSED"]
    /\ order' = [order EXCEPT ![p].st = "CLOSED"]
    /\ \E pnl \in {-1, 1}, known \in BOOLEAN :
          trades' = Append(trades, [pnl |-> pnl, known |-> known])
    /\ UNCHANGED <<trade, ex, sl, placed, wk, faults, rules, ask, sold>>

\* Midnight UTC: daily_state reads today's rows only.
NewDay ==
    /\ trades # <<>>
    /\ trades' = <<>>
    /\ UNCHANGED <<order, pos, trade, ex, sl, placed, wk, faults, rules, ask, sold>>

\* The entry side, as it is, for a worker that is not deciding.  Only ExProtect
\* is left out: no check tells a protected position from an unprotected one.
EntrySide ==
    /\ \/ \E w \in Workers :
             \/ WorkerStep(w) \/ Failure(w)
             \/ /\ ask[w] = NoAsk
                /\ \/ RecoverActiveOrders(w) \/ CancelPendingEntries(w)
                   \/ \E p \in Plans : Cancel(w, p)
       \/ \E p \in Plans :
             RejectPlan(p) \/ ExArrive(p) \/ ExFill(p) \/ ExCancel(p) \/ ExReject(p)
    /\ UNCHANGED gate

AdmissionNext ==
    \/ EntrySide
    \/ \E w \in Workers :
          \/ ApprovalReturns(w) \/ RefusePlan(w) \/ AdmitPlan(w)
          \/ \E p \in Plans : BeginApproval(w, p) \/ CloseTrade(w, p)
    \/ \E p \in Plans : ExSell(p)
    \/ NewDay

AdmissionSpec == AdmissionInit /\ [][AdmissionNext]_admissionVars

(***************************************************************************)
(* Properties.                                                             *)
(***************************************************************************)
\* An entry that may still buy, or may be on its way.
MayBuy(p) == ex[p].st \in {"transit", "live"}

\* A position closed while the rest of its entry could still buy leaves an
\* order no row accounts for.
Orphan(p) == order[p].st = "CLOSED" /\ (MayBuy(p) \/ ex[p].filled > order[p].filled)

\* What the account holds plus everything that working orders can still buy
\* stays within the exposure limit, although the gate saw an older wallet and
\* rows behind the exchange, and whatever was lost, late or interrupted by a
\* crash (unless an entry was closed over a working rest).
ExposureBounded ==
    (\A p \in Plans : ~Orphan(p)) =>
        Wallet + Cardinality({l \in Lots : MayBuy(l[1]) /\ ex[l[1]].filled < l[2]})
            <= rules.exposure

\* As long as nothing failed, no more plans than max_open_positions hold
\* inventory or may still acquire it, uncertain and cancelled ones included.
SlotsBounded ==
    faults = 0 /\ (\A p \in Plans : ~Orphan(p)) =>
        Cardinality({p \in Plans : MayBuy(p) \/ ex[p].filled > sold[p]}) <= rules.open

\* No entry is admitted on a day whose closed trades, all of them with known
\* fees, reached the daily loss or the losing streak (stated over the last
\* trades one by one, not over daily_state's sums).
LossesStopEntries ==
    [][\A w \in Workers :
          AdmitPlan(w) /\ (\A i \in 1..Len(trades) : trades[i].known) =>
              /\ ~ \E n \in 1..Len(trades) :
                      n >= rules.streak /\ \A i \in (Len(trades) - n + 1)..Len(trades) :
                                              trades[i].pnl < 0
              /\ ~(Realized(1..Len(trades)) <= -rules.loss)
      ]_admissionVars
=============================================================================
