----------------------------- MODULE MCOptimizer -----------------------------
(* Two sessions that trade one unit, recalculate the account and may run the *)
(* optimizer over three symbols, one of which may outweigh the others.       *)
EXTENDS Optimizer, TLC

CONSTANTS s1, s2, btc, eth, sol

MCPrices == {1, 2}
MCHistories == {{}, {btc, eth, sol}}
MCScores == {0, 1, 4}

\* Sessions are interchangeable.
SessionSymmetry == Permutations({s1, s2})

=============================================================================
