--------------------------- MODULE MCTradingSessions ---------------------------
(* Requests enter manual keys of two symbols, jobs the keys of the strategies. *)
EXTENDS TradingSessions

CONSTANTS r1, r2, j1, manualBtc, manualEth, ema, rsi

MCEntryKeys ==
  [a \in Actors |-> IF a \in Requests THEN Keys \cap {manualBtc, manualEth}
                                      ELSE Keys \ {manualBtc, manualEth}]
=============================================================================
