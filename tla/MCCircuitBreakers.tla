------------------------- MODULE MCCircuitBreakers -------------------------
(* The two halves of the risk manager: the circuit breakers on small sets of *)
(* symbols, days and PnL values, and the evaluation of actions on two        *)
(* contracts.  evaluate() reads of the breakers only whether one is active,  *)
(* so each half is explored while the other rests.                           *)
EXTENDS CircuitBreakers, RiskEvaluation

MCQuote == [s \in Contracts |-> "USDT"]
MCMark  == [s \in Contracts |-> IF s = "BTC" THEN 50 ELSE 10]
MCRate  == [s \in Contracts |-> IF s = "BTC" THEN 1 ELSE 2]
MCRisk  == [max_positions |-> 2, max_portfolio_risk_pct |-> 100, max_daily_loss_usd |-> 5,
            max_drawdown_pct |-> 25, max_position_concentration |-> 60,
            correlation_threshold_pct |-> 80, max_funding_rate_cost |-> 4,
            funding_rate_periods |-> 3, min_distance_pct |-> 20, distance_fraction |-> 50,
            max_leverage |-> 2, max_position_size_usd |-> 40, max_position_size_pct |-> 25,
            min_position_size_usd |-> 10, default_fraction |-> 50, kelly_multiplier |-> 50,
            trade_capital_usd |-> 5]
MCFilters == [step_size |-> 10, min_qty |-> 10, min_notional |-> 5000]

AccountRests == RInit /\ rEquity = Min(Equities) /\ rPnl = 0
RiskInit == Init /\ RInit

\* A step of one half while the other rests.
RiskNext ==
  \/ Next /\ AccountRests /\ UNCHANGED rVars
  \/ RNext /\ Init /\ UNCHANGED vars

RiskSpec ==
  /\ RiskInit
  /\ [][RiskNext]_<<vars, rVars>>
  /\ Fairness
=============================================================================
