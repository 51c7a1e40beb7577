------------------------------ MODULE MCRiskGate ------------------------------
(* A perpetual and a spot strategy on one symbol. *)
EXTENDS RiskGate, TLC

CONSTANTS p1, p2, perp, spot, btc

MCSymbolOf == [k \in {perp, spot} |-> btc]
MCInstrumentOf == [k \in {perp, spot} |-> IF k = spot THEN "SPOT" ELSE "PERPETUAL"]
MCPrices == {2, 3}
MCQuantities == {2}

\* Trading in the first half of a day of two ticks; tight percentages, so that
\* a position of 20 or 30 in an account of 60 meets each of them.
MCSettings ==
  [kill_switch |-> FALSE, symbol_allowlist |-> {btc},
   session_start |-> 0, session_end |-> 0,
   max_spread_bps |-> 1, max_slippage_bps |-> 1,
   max_concurrent_positions |-> 2,
   max_daily_loss_pct |-> 10, max_drawdown_pct |-> 14,
   stop_loss_cooldown |-> 1, max_risk_per_trade |-> 8,
   max_position_notional_pct |-> 60, max_abs_funding_rate |-> 1,
   min_liquidation_buffer_pct |-> 5, max_gross_exposure_pct |-> 90,
   max_net_exposure_pct |-> 80, max_side_exposure_pct |-> 85]

\* Exposure caps as loose as the defaults, for two long positions.
MCLooseSettings ==
  [MCSettings EXCEPT !.max_gross_exposure_pct = 200, !.max_net_exposure_pct = 120,
                     !.max_side_exposure_pct = 150]

MCQuotes == {[spread |-> 1, slippage |-> 1, funding |-> 1],
             [spread |-> 2, slippage |-> 1, funding |-> 1]}

\* Primary keys are interchangeable.
KeySymmetry == Permutations({p1, p2})
=============================================================================
