---------------------------- MODULE MCMarketStream ----------------------------
(* Two symbols; a book with both sides, and messages that lack one. *)
EXTENDS MarketStream

CONSTANTS btc, eth

MCSymbolList == <<btc, eth>>
MCBidPrices == {0, 99}
MCAskPrices == {0, 101}
=============================================================================
