-------------------------- MODULE MCPortfolioAccount --------------------------
(* A perpetual key and a spot key, each of its own symbol. *)
EXTENDS PortfolioAccount, TLC

CONSTANTS p1, p2, perp, spot, btc, eth

MCSymbolOf == [k \in {perp, spot} |-> IF k = spot THEN eth ELSE btc]
MCInstrumentOf == [k \in {perp, spot} |-> IF k = spot THEN "SPOT" ELSE "PERPETUAL"]
MCPrices == {2, 3}
MCQuantities == {3}
MCFundingRates == {1}

\* Primary keys are interchangeable.
KeySymmetry == Permutations({p1, p2})
=============================================================================
