------------------------------- MODULE Sizing -------------------------------
(***************************************************************************)
(* The figures of an order: risk/price_quantization.py,                    *)
(* risk/position_sizing.py, build_executable_long_plan                     *)
(* (risk/execution_revalidation.py) and the comparison of two previews in  *)
(* trading_agent/orchestrator.py.  Prices are rounded with decimals, here  *)
(* with integers of a smaller unit; sizes are divided with binary floats,  *)
(* which are less than such a unit off.  The comparisons with a limit are  *)
(* floats too and exact here: a value at its limit may go either way in    *)
(* the code.  Percentages are in hundredths of a percent                   *)
(* (config/trading_rules.yaml: 0.15 is 15).                                *)
(***************************************************************************)
EXTENDS Integers

CONSTANTS
    Tick,           \* instrument.tick_size
    Lot,            \* instrument.lot_size
    MinSize,        \* instrument.min_size
    RiskBudget,     \* equity * risk_per_trade
    CapNotional,    \* min(equity * max_position_pct, available)
    MinReward,      \* minimum_risk_reward, in tenths
    MaxDeviation,   \* max_entry_deviation_pct, max_slippage_pct
    PriceTolerance, \* max_preview_price_change_pct
    SizeTolerance   \* max_preview_size_change_pct, max_preview_risk_change_pct

ASSUME SizingAssumption ==
    /\ {Tick, Lot, MinSize} \subseteq Nat \ {0}
    /\ {RiskBudget, CapNotional, MinReward, MaxDeviation, PriceTolerance,
        SizeTolerance} \subseteq Nat

FloorTo(v, step) == (v \div step) * step
CeilTo(v, step) == FloorTo(v + step - 1, step)

\* quantize_long_execution_prices: entry and stop up, target down.
Quantize(m) ==
    [entry |-> CeilTo(m.ask, Tick), stop |-> CeilTo(m.stop, Tick),
     target |-> FloorTo(m.target, Tick)]

PricesOrdered(q) == 0 < q.stop /\ q.stop < q.entry /\ q.entry < q.target

\* risk_reward and the last check of RiskManager.evaluate.
RewardsRisk(q) == (q.target - q.entry) * 10 >= MinReward * (q.entry - q.stop)

\* _floor_step of a float: the quotient n may come out a unit lower (an exact
\* one, such as 2.5 / 0.2 of 100.3 - 100.1) or higher.
FloorsOf(n) == {FloorTo(v, Lot) : v \in {n - 1, n, n + 1} \cap Nat}

\* Mutant: the size follows the risk budget alone.
PositionSizesUncapped(q) == FloorsOf(RiskBudget \div (q.entry - q.stop))

\* calculate_position_size: the smaller of the quantity whose loss at the stop
\* is the risk budget and the quantity the cap pays for, down to a lot.
PositionSizes(q) ==
    LET byRisk == RiskBudget \div (q.entry - q.stop)
        byCap == CapNotional \div q.entry
    IN FloorsOf(IF byRisk < byCap THEN byRisk ELSE byCap)

\* Mutant: the share is not turned into a percentage.
DiffersAsShare(a, b, pct) == (IF a > b THEN a - b ELSE b - a) * 100 > pct * b

\* |a - b| as a share of b is more than pct.
Differs(a, b, pct) == (IF a > b THEN a - b ELSE b - a) * 10000 > pct * b

\* The price checks of build_executable_long_plan and approve_plan for a plan
\* made at price planned.
PricesPass(m, planned) ==
    LET q == Quantize(m) IN
    /\ PricesOrdered(q)
    /\ RewardsRisk(q)
    /\ ~Differs(q.entry, planned, MaxDeviation)
    /\ ~Differs(q.entry, m.price, MaxDeviation)

\* build_executable_long_plan: the figures it may come to ...
Executable(m, planned) ==
    LET q == Quantize(m) IN
    IF PricesPass(m, planned)
    THEN {[entry |-> q.entry, stop |-> q.stop, target |-> q.target,
           size |-> n, risk |-> n * (q.entry - q.stop)] :
              n \in {k \in PositionSizes(q) : k >= MinSize}}
    ELSE {}

\* ... or that it may refuse the plan.
NotExecutable(m, planned) ==
    PricesPass(m, planned) => \E n \in PositionSizes(Quantize(m)) : n < MinSize

\* approval_preview_change: which the approval is refused for.
PreviewChanged(now, seen) ==
    \/ Differs(now.entry, seen.entry, PriceTolerance)
    \/ Differs(now.stop, seen.stop, PriceTolerance)
    \/ Differs(now.target, seen.target, PriceTolerance)
    \/ Differs(now.size, seen.size, SizeTolerance)
    \/ Differs(now.risk, seen.risk, SizeTolerance)
=============================================================================
