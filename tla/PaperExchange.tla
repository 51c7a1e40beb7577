----------------------------- MODULE PaperExchange -----------------------------
(***************************************************************************)
(* The simulated exchange (app/exchanges/paper_exchange.py, with the book  *)
(* walk of app/utils/orderbook.py) and the order rows that                 *)
(* ExecutionService persists and cancels.                                  *)
(*                                                                         *)
(* One PaperExchange lives in each process; the resting orders it knows    *)
(* are memory, the order rows are the database.  Placing an order changes  *)
(* the memory first and the database at the commit that follows, and so    *)
(* does canceling one: each is two steps.                                  *)
(***************************************************************************)
EXTENDS Integers, SequencesExt

CONSTANTS
  Orders,           \* primary keys of the orders table
  Processes,        \* the API process, the scheduler worker
  LimitProcesses,   \* those that take limit orders: the API
  Prices,
  Quantities,
  Books,            \* the depth snapshots, or none, an order may be priced on
  Slippage,         \* price units a market order without depth gives away
  MaxFailures       \* bound: restarts and failed commits

Levels == Seq([price : Nat, size : Nat])

NoBook == [known |-> FALSE, bids |-> <<>>, asks |-> <<>>]

\* ManualOrderRequest wants a quantity and prices above 0.
ASSUME ExchangeAssumption ==
  /\ Processes # {} /\ LimitProcesses \subseteq Processes
  /\ Prices # {} /\ Prices \subseteq Nat \ {0}
  /\ Quantities # {} /\ Quantities \subseteq Nat \ {0}
  /\ Books # {} /\ Books \subseteq [known : BOOLEAN, bids : Levels, asks : Levels]
  /\ \A b \in Books : b.known \/ b = NoBook
  /\ Slippage \in Nat /\ MaxFailures \in Nat

VARIABLES
  order,            \* the order rows, and what a process is about to commit
  resting,          \* _open_orders of each process
  failures

exchangeVars == <<order, resting, failures>>

-----------------------------------------------------------------------------
OrderSides == {"BUY", "SELL"}

Least(x, y) == IF x < y THEN x ELSE y

Nothing(quantity) == [remaining |-> quantity, filled |-> 0, notional |-> 0]

TakeLevel(fill, level) ==
  LET take == Least(level.size, fill.remaining)
  IN [remaining |-> fill.remaining - take,
      filled |-> fill.filled + take,
      notional |-> fill.notional + take * level.price]

\* Mutant: the book is walked from its worst level.
WalkLevelsBackwards(levels, quantity) ==
  FoldLeft(TakeLevel, Nothing(quantity), Reverse(levels))

\* _walk_levels: take from each level in turn until nothing remains.
WalkLevels(levels, quantity) == FoldLeft(TakeLevel, Nothing(quantity), levels)

\* Mutant: a limit order walks the whole book.
EligibleAll(side, limit, book) ==
  IF side = "BUY"
  THEN book.asks
  ELSE book.bids

\* The levels at the limit or better: a worse one offers nothing, and the walk
\* passes over it as over one it cannot see.
Eligible(side, limit, book) ==
  LET levels == IF side = "BUY" THEN book.asks ELSE book.bids
      within(price) == IF side = "BUY" THEN price <= limit ELSE price >= limit
  IN [i \in DOMAIN levels |->
        [price |-> levels[i].price,
         size |-> IF within(levels[i].price) THEN levels[i].size ELSE 0]]

\* simulate_market_fill and simulate_limit_fill.
DepthFill(request) ==
  WalkLevels(IF request.type = "LIMIT"
             THEN Eligible(request.side, request.limit, request.book)
             ELSE IF request.side = "BUY" THEN request.book.asks
                                          ELSE request.book.bids,
             request.quantity)

Slipped(price, side) ==
  IF side = "BUY" THEN price + Slippage ELSE price - Slippage

Crosses(request) ==
  IF request.side = "BUY" THEN request.limit >= request.reference
                          ELSE request.limit <= request.reference

Report(status, filled, remaining, notional, rests) ==
  [status |-> status, filled |-> filled, remaining |-> remaining,
   notional |-> notional, rests |-> rests]

\* Mutant: an order that rests is not remembered.
RestingForgotten(quantity) == Report("NEW", 0, quantity, 0, FALSE)

Resting(quantity) == Report("NEW", 0, quantity, 0, TRUE)

\* place_order: from depth when there is some to take, at the candle's price
\* otherwise; a limit order that takes nothing rests.  One without a price is
\* one at the reference price.  No caller turns allow_candle_fallback off, so
\* that the rejection for want of depth is left out.
PlaceOrder(request) ==
  LET fill == DepthFill(request)
      whole == request.quantity
  IN IF request.book.known /\ fill.filled > 0
     THEN Report(IF fill.remaining > 0 THEN "PARTIALLY_FILLED" ELSE "FILLED",
                 fill.filled, fill.remaining, fill.notional,
                 fill.remaining > 0 /\ request.type = "LIMIT")
     ELSE IF request.type = "LIMIT"
          THEN IF request.book.known \/ ~Crosses(request) THEN Resting(whole)
               ELSE Report("FILLED", whole, 0, whole * request.limit, FALSE)
          ELSE Report("FILLED", whole, 0,
                      whole * Slipped(request.reference, request.side), FALSE)

-----------------------------------------------------------------------------
OrderRequests ==
  [type : {"MARKET", "LIMIT"}, side : OrderSides, quantity : Quantities,
   limit : Prices, reference : Prices, book : Books]

\* An order row: where it stands ("placing" and "canceling" are before the
\* commit), the request it answers, and its fill.
NoOrder == [stage |-> "none", process |-> CHOOSE p \in Processes : TRUE,
            status |-> "NEW", filled |-> 0, remaining |-> 0, notional |-> 0,
            request |-> CHOOSE r \in OrderRequests : TRUE]

Cancelable == {"NEW", "PARTIALLY_FILLED"}

\* place_order in a process: the exchange answers, and remembers what rests.
Place(proc, o, request) ==
  LET report == PlaceOrder(request)
  IN /\ order[o].stage = "none"
     /\ request.type = "LIMIT" => proc \in LimitProcesses
     /\ order' = [order EXCEPT ![o] =
                    [stage |-> "placing", process |-> proc,
                     status |-> report.status, filled |-> report.filled,
                     remaining |-> report.remaining,
                     notional |-> report.notional, request |-> request]]
     /\ resting' = [resting EXCEPT ![proc] =
                      IF report.rests THEN @ \cup {o} ELSE @]
     /\ UNCHANGED failures

\* _persist_order and the commit at the end of the handler.
CommitPlaced(o) ==
  /\ order[o].stage = "placing"
  /\ order' = [order EXCEPT ![o].stage = "committed"]
  /\ UNCHANGED <<resting, failures>>

Fail == failures < MaxFailures /\ failures' = failures + 1

\* The handler raises before its commit: the row is never written, and its
\* process still remembers the order.
LosePlaced(o) ==
  /\ order[o].stage = "placing"
  /\ Fail
  /\ order' = [order EXCEPT ![o].stage = "lost"]
  /\ UNCHANGED resting

\* Mutant: a canceled order is not forgotten.
CancelOrderRemembered(proc, o) ==
  /\ order[o].stage = "committed"
  /\ order[o].status \in Cancelable
  /\ o \in resting[proc]
  /\ resting' = resting
  /\ order' = [order EXCEPT ![o].stage = "canceling", ![o].process = proc]
  /\ UNCHANGED failures

\* cancel_order in a process: refused unless the row is cancelable and this
\* process's exchange knows the order, which it then forgets.
CancelOrder(proc, o) ==
  /\ order[o].stage = "committed"
  /\ order[o].status \in Cancelable
  /\ o \in resting[proc]
  /\ resting' = [resting EXCEPT ![proc] = @ \ {o}]
  /\ order' = [order EXCEPT ![o].stage = "canceling", ![o].process = proc]
  /\ UNCHANGED failures

CommitCanceled(o) ==
  /\ order[o].stage = "canceling"
  /\ order' = [order EXCEPT ![o].stage = "committed", ![o].status = "CANCELED"]
  /\ UNCHANGED <<resting, failures>>

\* The commit raises: the row stays as it was, and no process remembers it.
LoseCanceled(o) ==
  /\ order[o].stage = "canceling"
  /\ Fail
  /\ order' = [order EXCEPT ![o].stage = "committed"]
  /\ UNCHANGED resting

\* A process stops between two steps and comes back with an empty exchange;
\* what it had not committed is gone.
Restart(proc) ==
  /\ Fail
  /\ resting' = [resting EXCEPT ![proc] = {}]
  /\ order' = [o \in Orders |->
                 IF order[o].process # proc THEN order[o]
                 ELSE IF order[o].stage = "placing"
                      THEN [order[o] EXCEPT !.stage = "lost"]
                 ELSE IF order[o].stage = "canceling"
                      THEN [order[o] EXCEPT !.stage = "committed"]
                 ELSE order[o]]

-----------------------------------------------------------------------------
ExchangeInit ==
  /\ order = [o \in Orders |-> NoOrder]
  /\ resting = [proc \in Processes |-> {}]
  /\ failures = 0

ExchangeNext ==
  \/ \E proc \in Processes, o \in Orders, request \in OrderRequests :
       Place(proc, o, request)
  \/ \E o \in Orders : CommitPlaced(o)
  \/ \E o \in Orders : LosePlaced(o)
  \/ \E proc \in Processes, o \in Orders : CancelOrder(proc, o)
  \/ \E o \in Orders : CommitCanceled(o)
  \/ \E o \in Orders : LoseCanceled(o)
  \/ \E proc \in Processes : Restart(proc)

ExchangeSpec == ExchangeInit /\ [][ExchangeNext]_exchangeVars

-----------------------------------------------------------------------------
\* No order is filled at a worse average than the limit it was given, on the
\* book or at the candle.
LimitPriceRespected ==
  \A o \in Orders :
    LET request == order[o].request
        atLimit == order[o].filled * request.limit
    IN order[o].stage # "none" /\ request.type = "LIMIT" =>
         IF request.side = "BUY" THEN order[o].notional <= atLimit
                                 ELSE order[o].notional >= atLimit

\* Every way of taking `quantity' units from the levels of a book.
Takings(levels, quantity) ==
  {take \in [DOMAIN levels -> 0 .. quantity] :
     /\ \A i \in DOMAIN levels : take[i] <= levels[i].size
     /\ FoldFunction(+, 0, take) = quantity}

Cost(levels, take) ==
  FoldFunctionOnSet(+, 0, [i \in DOMAIN levels |-> take[i] * levels[i].price],
                    DOMAIN levels)

\* A market order walks the book to the best price there is for what it fills,
\* and leaves something unfilled only when the book holds no more.
BestExecution ==
  \A o \in Orders :
    LET request == order[o].request
        levels == IF request.side = "BUY" THEN request.book.asks
                                          ELSE request.book.bids
        size == [i \in DOMAIN levels |-> levels[i].size]
        offered == FoldFunction(+, 0, size)
    IN order[o].stage # "none" /\ request.type = "MARKET" /\ offered > 0 =>
         /\ order[o].filled = Least(request.quantity, offered)
         /\ \A take \in Takings(levels, order[o].filled) :
              IF request.side = "BUY" THEN order[o].notional <= Cost(levels, take)
                                      ELSE order[o].notional >= Cost(levels, take)

\* What a process remembers is alive: a limit order with something left to fill
\* that nobody has canceled or is canceling.
RestingIsAlive ==
  \A proc \in Processes : \A o \in resting[proc] :
    /\ order[o].stage \in {"placing", "committed", "lost"}
    /\ order[o].status \in Cancelable
    /\ order[o].remaining > 0
    /\ order[o].request.type = "LIMIT"

\* An unfilled order remains NEW and can later be canceled through the API.
NewOrdersCancelable ==
  \A o \in Orders :
    order[o].stage = "committed" /\ order[o].status = "NEW" =>
      \E proc \in Processes : o \in resting[proc]

\* ... and that holds until a process restarts or a commit fails.
CancelableUntilFailure == failures = 0 => NewOrdersCancelable

=============================================================================
