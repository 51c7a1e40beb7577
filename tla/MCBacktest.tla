------------------------------ MODULE MCBacktest ------------------------------
(* Small instances of Backtest: calm candles, falls, rises and wide candles   *)
(* with every signal, on a perpetual or a spot instrument.                    *)
EXTENDS Backtest

C(low, close, high, entry, exits) ==
  [low |-> low, close |-> close, high |-> high, entry |-> entry, exits |-> exits]

MCCandles ==
  {C(10, 10, 10, "LONG", {}), C(10, 10, 10, "SHORT", {"LONG"}),
   C(9, 9, 10, "NONE", {"LONG", "SHORT"}), C(7, 8, 10, "SHORT", {}),
   C(3, 6, 11, "NONE", {}), C(10, 13, 17, "LONG", {"SHORT"})}

MCFundingRates == {-1, 0, 1}
MCSlippages == {0, 1}
=============================================================================
