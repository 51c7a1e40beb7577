SPECIFICATION FairSpec
CONSTANTS
  btc = btc
  eth = eth
  SymbolList <- MCSymbolList
  StaleAfter = 3
  MessageTimeout = 2
  FirstDelay = 1
  MaxDelay = 3
  BidPrices <- MCBidPrices
  AskPrices <- MCAskPrices
  MaxFaults = 3
PROPERTIES
  ConnectingEnds
