SPECIFICATION OptimizerSpec
CONSTANTS
  s1 = s1
  s2 = s2
  btc = btc
  eth = eth
  sol = sol
  Sessions = {s1, s2}
  Prices <- MCPrices
  MaxTrades = 2
  StartingBalance = 2
  Symbols = {btc, eth, sol}
  Histories <- MCHistories
  Scores <- MCScores
  MaxWeight = 45
  DeployedPct = 25
SYMMETRY SessionSymmetry
INVARIANT PeakWasReached
