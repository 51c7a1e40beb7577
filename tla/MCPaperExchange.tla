--------------------------- MODULE MCPaperExchange ---------------------------
(* One order, on no book, an empty one, and books of two levels. *)
EXTENDS PaperExchange

CONSTANTS o1, api, worker

Level(price, size) == [price |-> price, size |-> size]

Book(bids, asks) == [known |-> TRUE, bids |-> bids, asks |-> asks]

MCBooks ==
  {NoBook, Book(<<>>, <<>>),
   Book(<<Level(3, 1), Level(2, 1)>>, <<Level(3, 1), Level(4, 2)>>)}
MCPrices == {2, 3, 4}
MCQuantities == {2, 3}
=============================================================================
