SPECIFICATION AccountSpec
CONSTANTS
  p1 = p1
  p2 = p2
  perp = perp
  spot = spot
  btc = btc
  eth = eth
  Positions = {p1, p2}
  Keys = {perp, spot}
  Symbols = {btc, eth}
  SymbolOf <- MCSymbolOf
  InstrumentOf <- MCInstrumentOf
  Prices <- MCPrices
  Quantities <- MCQuantities
  Lot = 1
  MinNotional = 3
  Leverage = 2
  FeeRate = 1
  FundingRates <- MCFundingRates
  MaxCharges = 1
  StartingBalance = 20
SYMMETRY KeySymmetry
INVARIANTS
  CashIsRealizedLessHeld
  QuantityConserved
  LedgerInv
  UnfundedProfitIsExact
  EquityExplained
PROPERTIES
  ClosedIsOnlyCharged
  TradeCostsOnlyItsFee
