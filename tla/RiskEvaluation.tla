--------------------------- MODULE RiskEvaluation ---------------------------
(***************************************************************************)
(* What RiskManager.evaluate does after the circuit breakers (risk/gates,  *)
(* risk/sizing, risk/exposure), and what the execution engine does with    *)
(* the sized quantity before it builds an order (_prepare_quantity).       *)
(*                                                                         *)
(* A caller takes a StrategyContext, a snapshot of the account, and hands  *)
(* actions to evaluate(): nine gates judge the REQUESTED quantity, then    *)
(* the sizer replaces it, then the engine fits it to the exchange filters. *)
(* The position book moves between the snapshot and the order.             *)
(*                                                                         *)
(* Quantities are counted in thousandths of a contract, notionals in       *)
(* thousandths of a dollar, ratios in percent.                             *)
(***************************************************************************)
EXTENDS Sums

CONSTANTS Contracts,   \* the traded symbols
          Quote,       \* [Contracts -> quote asset], the last four characters
          Mark,        \* [Contracts -> mark price in dollars]
          Rate,        \* [Contracts -> absolute funding rate]
          Risk,        \* the risk.* settings, a record
          Filters,     \* step_size, min_qty and min_notional of the exchange
          AccountLeverage,  \* account.max_leverage
          Lots,        \* quantities that callers request
          Equities,    \* account values in dollars
          WinRates,    \* strategy_params.win_rate in percent, 0 when absent
          Payout,      \* avg_win / avg_loss
          Kinds,       \* the contexts that callers build
          LiqPrices,   \* liquidation prices that the exchange reports
          Switchable,  \* the gates that may be switched off
          MaxBook      \* bound: contracts held per symbol and side

Sides == {"long", "short"}
Held == Contracts \X Sides
ALL_GATES == {"MAX_POSITIONS", "PORTFOLIO_RISK", "DAILY_LOSS", "DRAWDOWN",
              "LIQUIDATION_RISK", "FUNDING_RATE_COST", "LEVERAGE_LIMIT",
              "POSITION_CONCENTRATION", "CORRELATION"}

\* The settings; the schema lets none of them be negative.
Settings == {"max_positions", "max_portfolio_risk_pct", "max_daily_loss_usd", "max_drawdown_pct",
             "max_position_concentration", "correlation_threshold_pct", "max_funding_rate_cost",
             "funding_rate_periods", "min_distance_pct", "distance_fraction", "max_leverage",
             "max_position_size_usd", "max_position_size_pct", "min_position_size_usd",
             "default_fraction", "kelly_multiplier", "trade_capital_usd"}

ASSUME RiskAssumption ==
  /\ IsFiniteSet(Contracts)
  /\ Mark \in [Contracts -> Nat \ {0}] /\ Rate \in [Contracts -> Nat]
  /\ DOMAIN Quote = Contracts /\ Lots \subseteq Nat \ {0} /\ Equities \subseteq Nat
  /\ WinRates \subseteq 0..100 /\ Payout \in Nat \ {0} /\ MaxBook \in Nat
  /\ Kinds \subseteq {"bare", "cycle", "bot", "full"} /\ Switchable \subseteq ALL_GATES
  /\ Risk \in [Settings -> Nat] /\ Risk.max_leverage > 0 /\ AccountLeverage \in Nat
  /\ Risk.min_position_size_usd <= Risk.max_position_size_usd
  /\ Filters \in [{"step_size", "min_qty", "min_notional"} -> Nat] /\ Filters.step_size > 0

VARIABLES
  rEquity,    \* total_usdt and total_wallet_balance of the account
  rPnl,       \* realised PnL of the day, in dollars
  rBook,      \* the exchange's book: quantity held per symbol and side
  rLiq,       \* liquidation price of each position, 0 if unknown
  rEnabled,   \* GatePipeline._enabled, as the set of enabled gates
  rCtx,       \* the StrategyContext in use
  rAct,       \* the action last evaluated
  rOut,       \* what became of it
  rReport     \* FuturesPositionTracker._last_report, and for comparison the
              \* notional that the portfolio gate sums over the same context
rVars == <<rEquity, rPnl, rBook, rLiq, rEnabled, rCtx, rAct, rOut, rReport>>

None == [is |-> "none"]
Requests == [type : {"ENTER", "EXIT"}, sym : Contracts, qty : Lots,
             exact : BOOLEAN,          \* metadata serial_close or reduce_only
             win : WinRates]

RInit ==
  /\ rEquity \in Equities /\ rPnl \in {0, -(Risk.max_daily_loss_usd + 1)}
  /\ rBook = [h \in Held |-> 0] /\ rLiq = [h \in Held |-> 0]
  /\ rEnabled = ALL_GATES
  /\ rCtx = None /\ rAct = None /\ rOut = None /\ rReport = None

-----------------------------------------------------------------------------
(* Contexts *)

\* Of the live callers the cycle and /execute give the account without futures
\* positions, the /ai command gives positions without a risk status, and
\* close-all and the engine's fallback give nothing.  None of them fills in
\* contracts or funding rates; "full" is the context the dataclass describes.
Context(kind) ==
  LET visible == IF kind \in {"bot", "full"} THEN {h \in Held : rBook[h] > 0} ELSE {} IN
  [is        |-> "ctx", kind |-> kind,
   equity    |-> IF kind = "bare" THEN 0 ELSE rEquity,
   pnl       |-> IF kind \in {"cycle", "full"} THEN rPnl ELSE 0,
   drawdown  |-> 0,      \* get_status never computes one
   positions |-> visible,
   size      |-> [h \in visible |-> rBook[h]], liq |-> [h \in visible |-> rLiq[h]],
   contracts |-> IF kind = "full" THEN Contracts ELSE {},
   rates     |-> IF kind = "full" THEN {s \in Contracts : Rate[s] > 0} ELSE {}]

Notional(c, h) == c.size[h] * Mark[h[1]]
NotionalOf(c, hs) == SumOf([h \in hs |-> Notional(c, h)], hs)

-----------------------------------------------------------------------------
(* The gates: each is true when the action passes. *)

IsEntry(a) == a.type = "ENTER"

ResolveMarkPrice(c, s) ==
  IF s \in c.contracts \/ \E h \in c.positions : h[1] = s THEN Mark[s] ELSE 0

\* Without a mark price the bare quantity stands in for the notional.
ProposedNotional(a, c) ==
  LET mark == ResolveMarkPrice(c, a.sym) IN IF mark > 0 THEN a.qty * mark ELSE a.qty

\* The positions' notional with the entry on top.
With(a, c, hs) == NotionalOf(c, hs) + (IF IsEntry(a) THEN ProposedNotional(a, c) ELSE 0)

CheckMaxPositions(a, c) ==
  Cardinality(c.positions) + (IF IsEntry(a) THEN 1 ELSE 0) <= Risk.max_positions

CheckPortfolioRisk(a, c) ==
  IF c.equity = 0 THEN ~IsEntry(a)
  ELSE With(a, c, c.positions) * 100 <= Risk.max_portfolio_risk_pct * c.equity * 1000

CheckDailyLoss(a, c) == c.pnl >= -Risk.max_daily_loss_usd
CheckDrawdown(a, c) == c.drawdown <= Risk.max_drawdown_pct

\* effective_min_liquidation_distance: the smaller of the configured percentage
\* and the fraction of 1/leverage.
MinDistance == Min({Risk.min_distance_pct, Risk.distance_fraction \div Risk.max_leverage})
NearLiquidation(c, h) ==
  LET mark == Mark[h[1]]
      away == IF h[2] = "long" THEN mark - c.liq[h] ELSE c.liq[h] - mark
  IN  c.liq[h] > 0 /\ away * 100 < MinDistance * mark
CheckLiquidationRisk(a, c) == \A h \in c.positions : ~NearLiquidation(c, h)

\* A symbol without funding data is refused; the notional cancels out.
CheckFundingRateCost(a, c) ==
  IsEntry(a) => /\ a.sym \in c.rates
                /\ Rate[a.sym] * Risk.funding_rate_periods <= Risk.max_funding_rate_cost

CheckLeverageLimit(a, c) ==
  c.equity > 0 =>
    With(a, c, c.positions) <= Min({Risk.max_leverage, AccountLeverage}) * c.equity * 1000

\* Both group the notional, by symbol and by quote asset.
GroupWithin(a, c, Group(_), pct) ==
  c.equity > 0 =>
    \A g \in {Group(s) : s \in Contracts} :
      LET held == NotionalOf(c, {h \in c.positions : Group(h[1]) = g})
          add  == IF IsEntry(a) /\ Group(a.sym) = g THEN ProposedNotional(a, c) ELSE 0
      IN  (held + add) * 100 <= pct * c.equity * 1000
CheckPositionConcentration(a, c) ==
  GroupWithin(a, c, LAMBDA s : s, Risk.max_position_concentration)
CheckCorrelation(a, c) ==
  GroupWithin(a, c, LAMBDA s : Quote[s], Risk.correlation_threshold_pct)

\* _gate_sequence: the enabled gates in order, with the verdict of each.
GateSequence(a, c) ==
  << <<"MAX_POSITIONS", CheckMaxPositions(a, c)>>,
     <<"PORTFOLIO_RISK", CheckPortfolioRisk(a, c)>>,
     <<"DAILY_LOSS", CheckDailyLoss(a, c)>>,
     <<"DRAWDOWN", CheckDrawdown(a, c)>>,
     <<"LIQUIDATION_RISK", CheckLiquidationRisk(a, c)>>,
     <<"FUNDING_RATE_COST", CheckFundingRateCost(a, c)>>,
     <<"LEVERAGE_LIMIT", CheckLeverageLimit(a, c)>>,
     <<"POSITION_CONCENTRATION", CheckPositionConcentration(a, c)>>,
     <<"CORRELATION", CheckCorrelation(a, c)>> >>

\* evaluate() stops at the first enabled gate that fails.
GatesEvaluate(a, c) ==
  LET gs == GateSequence(a, c)
      failing == {i \in DOMAIN gs : gs[i][1] \in rEnabled /\ ~gs[i][2]}
  IN  IF failing = {} THEN "ALL" ELSE gs[Min(failing)][1]

-----------------------------------------------------------------------------
(* Sizing: a dollar amount, in thousandths. *)

DefaultSize(equity) ==
  IF equity = 0 THEN 0
  ELSE Max({Min({Risk.default_fraction * equity * 10, Risk.max_position_size_usd * 1000}),
            Risk.min_position_size_usd * 1000})

KellyFraction(win) ==
  IF win = 0 \/ win >= 100 THEN 0 ELSE Max({0, win - (100 - win) \div Payout})

AdjustedKelly(kelly, equity) ==
  LET size == (kelly * Risk.kelly_multiplier * equity) \div (10 * Risk.max_leverage)
      capped == Min({size, Risk.max_position_size_pct * equity * 10,
                     Risk.max_position_size_usd * 1000, equity * 1000})
  IN  IF equity = 0 THEN 0
      ELSE IF capped < Risk.min_position_size_usd * 1000 THEN DefaultSize(equity)
      ELSE capped

MaxSizeFromTpSl == Risk.trade_capital_usd * Risk.max_leverage * 1000

\* quantize(0.01, ROUND_HALF_UP)
ToHundredths(q) == ((q + 5) \div 10) * 10

\* The dollar amount and the requested quantity are compared as they are.
\* Mutant: the request is no upper bound.
SizeUnbounded(a, c) ==
  LET kelly == IF a.win = 0 THEN DefaultSize(c.equity)
               ELSE AdjustedKelly(KellyFraction(a.win), c.equity)
  IN  IF a.exact THEN ToHundredths(a.qty) ELSE ToHundredths(Min({kelly, MaxSizeFromTpSl}))
ComputeSize(a, c) ==
  LET kelly == IF a.win = 0 THEN DefaultSize(c.equity)
               ELSE AdjustedKelly(KellyFraction(a.win), c.equity)
  IN  IF a.exact THEN ToHundredths(a.qty)
      ELSE ToHundredths(Min({kelly, a.qty, MaxSizeFromTpSl}))

-----------------------------------------------------------------------------
(* The engine's last step before the order *)

RoundDown(q) == (q \div Filters.step_size) * Filters.step_size
RoundUp(q) == RoundDown(q + Filters.step_size - 1)
CeilDiv(n, d) == (n + d - 1) \div d

\* normalize_quantity refuses what is below a filter (the mark price is known).
Normalizable(q, s) ==
  RoundDown(q) >= Filters.min_qty /\ RoundDown(q) * Mark[s] >= Filters.min_notional

FloorToCompliant(q, s) ==
  LET target == Max({q, Filters.min_qty})
      needed == CeilDiv(Filters.min_notional, Mark[s])
  IN  IF needed > target THEN RoundUp(needed) ELSE target

WithinCap(q, s) == q * Mark[s] <= Risk.max_position_size_usd * 1000

\* The quantity of the order, 0 when it is refused.
PrepareQuantity(q, s, precap) ==
  IF q = 0 THEN 0
  ELSE IF Normalizable(q, s) THEN RoundDown(q)
  ELSE IF FloorToCompliant(q, s) <= precap /\ WithinCap(FloorToCompliant(q, s), s)
       THEN FloorToCompliant(q, s)
  ELSE 0

-----------------------------------------------------------------------------
(* Actions *)

TakeContext(kind) ==
  /\ rCtx' = Context(kind) /\ rAct' = None /\ rOut' = None
  /\ UNCHANGED <<rEquity, rPnl, rBook, rLiq, rEnabled, rReport>>

\* Notional per symbol: long and short of one symbol add up.
NotionalPerSymbol(c) ==
  [s \in {h[1] : h \in c.positions} |-> NotionalOf(c, {h \in c.positions : h[1] = s})]

\* update_monitoring feeds the tracker when there is something to report.
ComputeExposure ==
  /\ rCtx # None /\ (rCtx.positions # {} \/ rCtx.rates # {})
  /\ rReport' = [is |-> "report", notional |-> NotionalPerSymbol(rCtx),
                 gate |-> NotionalOf(rCtx, rCtx.positions)]
  /\ UNCHANGED <<rEquity, rPnl, rBook, rLiq, rEnabled, rCtx, rAct, rOut>>

\* The verdict on the requested quantity, and the quantity to use if it passes.
Evaluate(a) ==
  /\ rCtx # None
  /\ a.exact => a.type = "EXIT" /\ rCtx.kind = "bare"
  /\ rAct' = a
  /\ LET gate == GatesEvaluate(a, rCtx) IN
       rOut' = [is |-> "verdict", gate |-> gate,
                qty |-> IF gate = "ALL" THEN ComputeSize(a, rCtx) ELSE 0]
  /\ UNCHANGED <<rEquity, rPnl, rBook, rLiq, rEnabled, rCtx, rReport>>

\* execute() knows the request as the pre-cap when it evaluated the action
\* itself; an action sized before it arrives carries the sized quantity.
PlaceOrder(sized_upstream, side, liq) ==
  /\ rOut.is = "verdict" /\ rOut.gate = "ALL"
  /\ LET precap == IF sized_upstream THEN rOut.qty ELSE rAct.qty
         final == PrepareQuantity(rOut.qty, rAct.sym, precap)
         h == <<rAct.sym, side>>
         size == IF IsEntry(rAct) THEN rBook[h] + final ELSE Max({0, rBook[h] - final})
     IN  /\ size <= MaxBook
         /\ rBook' = [rBook EXCEPT ![h] = size]
         /\ rLiq' = [rLiq EXCEPT ![h] = IF size = 0 THEN 0 ELSE liq]
         /\ rOut' = [is |-> "order", qty |-> final, sized |-> rOut.qty, precap |-> precap]
  /\ UNCHANGED <<rEquity, rPnl, rEnabled, rCtx, rAct, rReport>>

\* A bracket or a liquidation closes a position behind the snapshot.
PositionCloses(h) ==
  /\ rBook[h] > 0
  /\ rBook' = [rBook EXCEPT ![h] = 0] /\ rLiq' = [rLiq EXCEPT ![h] = 0]
  /\ UNCHANGED <<rEquity, rPnl, rEnabled, rCtx, rAct, rOut, rReport>>

SetGateEnabled(g) ==
  /\ rEnabled' = IF g \in rEnabled THEN rEnabled \ {g} ELSE rEnabled \cup {g}
  /\ rOut' = None /\ rAct' = None
  /\ UNCHANGED <<rEquity, rPnl, rBook, rLiq, rCtx, rReport>>

RNext ==
  \/ \E k \in Kinds : TakeContext(k)
  \/ ComputeExposure
  \/ \E a \in Requests : Evaluate(a)
  \/ \E u \in BOOLEAN, side \in Sides, liq \in LiqPrices : PlaceOrder(u, side, liq)
  \/ \E h \in Held : PositionCloses(h)
  \/ \E g \in Switchable : SetGateEnabled(g)

RSpec == RInit /\ [][RNext]_rVars

-----------------------------------------------------------------------------
(* Properties *)

\* Gating before sizing is sound: what the sizer makes of an approved action
\* passes every enabled gate again, for requests on the hundredths grid that the
\* sizer rounds to.  (risk/manager.py evaluate, phases 2 and 3.)
SizedStillPasses ==
  (rOut.is = "verdict" /\ rOut.gate = "ALL" /\ rAct.qty % 10 = 0) =>
    GatesEvaluate([rAct EXCEPT !.qty = rOut.qty], rCtx) = "ALL"

\* No gate stands between the operator and a close-all: an EXIT judged in the
\* bare context passes whatever the account, its losses and its positions are.
CloseIsNeverGated ==
  (rOut.is = "verdict" /\ rAct.type = "EXIT" /\ rCtx.kind = "bare") => rOut.gate = "ALL"

\* The tracker and the portfolio gate agree on the notional of one snapshot.
ExposureAgreesWithGates ==
  rReport # None =>
    SumOf(rReport.notional, DOMAIN rReport.notional) = rReport.gate

\* Raising a quantity to the exchange minimum exceeds neither the pre-cap nor
\* max_position_size_usd.
RaisedWithinCaps ==
  (rOut.is = "order" /\ rOut.qty > rOut.sized) =>
    rOut.qty <= rOut.precap /\ WithinCap(rOut.qty, rAct.sym)

\* The parts of the risk manager judge the same thing: gates, sizer, tracker and
\* the engine's last adjustment agree on what an approved action may become, and
\* none of them holds back a close-all.
RiskSound ==
  SizedStillPasses /\ RaisedWithinCaps /\ ExposureAgreesWithGates /\ CloseIsNeverGated
=============================================================================
