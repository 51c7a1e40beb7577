-------------------------- MODULE MCStrategyEvaluator --------------------------
(* Candles that close at 10, whose ranges reach a stop (2 away), a profit (3   *)
(* away), both, or a liquidation (5 away).                                     *)
EXTENDS StrategyEvaluator

Shape(low, high, entry, exits) ==
  [low |-> low, high |-> high, close |-> 10, entry |-> entry, exits |-> exits]

MCCandles ==
  {Shape(10, 10, "LONG", {}),             \* a quiet candle with a signal
   Shape(8, 13, "NONE", {}),              \* through the stop and the profit
   Shape(5, 11, "SHORT", {"LONG"})}       \* to the liquidation, and signals
=============================================================================
