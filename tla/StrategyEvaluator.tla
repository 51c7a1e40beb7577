--------------------------- MODULE StrategyEvaluator ---------------------------
(***************************************************************************)
(* One strategy instance on one symbol as time passes: candles form and    *)
(* complete, the scheduler calls ExecutionService.evaluate_strategy        *)
(* (app/services/execution_service.py) more often than candles complete,   *)
(* an operator may close the position by hand.                             *)
(*                                                                         *)
(* Time counts ticks of the scheduler, BarTicks of them to a candle; candle*)
(* b opens at b * BarTicks.  Its range is drawn when it completes, so that *)
(* what it reaches it reaches in its last tick; what a data frame says of  *)
(* a completed candle is taken to be true (OhlcvStore is about whether it  *)
(* is).  evaluate_on_bar_close_only is on, as it is by default.            *)
(***************************************************************************)
EXTENDS Integers, Sequences

CONSTANTS
  BarTicks,         \* timeframe_to_minutes(timeframe)
  CooldownTicks,    \* settings.strategy_exit_cooldown_minutes
  StopDistance,     \* stop_loss_pct of the entry price
  TakeDistance,     \* take_profit_pct of the entry price
  LiquidationDistance, \* 1 / leverage less the maintenance margin; 0 for spot
  Candles,          \* the candles, with their signals, that may complete
  ShortAllowed,     \* TRUE for a perpetual instrument
  BoughtQuantity,   \* what an entry buys
  MaxTime,          \* bound: ticks
  MaxOrders         \* bound: rows of the orders table

ASSUME EvaluatorAssumption ==
  /\ BarTicks \in Nat \ {0} /\ CooldownTicks \in Nat
  /\ StopDistance \in Nat \ {0} /\ TakeDistance \in Nat \ {0}
  /\ LiquidationDistance \in Nat
  /\ BoughtQuantity \in Nat \ {0}
  /\ \A c \in Candles :
       /\ c.low \in Int /\ c.close \in Int /\ c.high \in Int
       /\ c.low <= c.close /\ c.close <= c.high
       /\ c.entry \in {"NONE", "LONG", "SHORT"}

VARIABLES
  now,
  candles,          \* the completed candles, oldest first
  newest,           \* index of the newest candle in the data frame, or -1
  position,         \* the open position row of the instance, or NoPosition
  orders            \* its order rows, oldest first

evaluatorVars == <<now, candles, newest, position, orders>>

-----------------------------------------------------------------------------
NoPosition == [quantity |-> 0, side |-> "LONG", entry |-> 0]

IsOpen == position.quantity > 0

OpensAt(b) == b * BarTicks
ClosesAt(b) == (b + 1) * BarTicks
Candle(b) == candles[b + 1]

\* Whether a candle reached a level `distance' against, or for, a position.
Against(c, side, entry, distance) ==
  IF side = "LONG" THEN c.low <= entry - distance ELSE c.high >= entry + distance
InFavour(c, side, entry, distance) ==
  IF side = "LONG" THEN c.high >= entry + distance ELSE c.low <= entry - distance

Liquidated(c, side, entry) ==
  LiquidationDistance > 0 /\ Against(c, side, entry, LiquidationDistance)
Stopped(c, side, entry) == Against(c, side, entry, StopDistance)
Taken(c, side, entry) == InFavour(c, side, entry, TakeDistance)

\* The strategy's own exit, or an entry signal for the other side.
SignalsExit(c, side) == side \in c.exits \/ (c.entry # "NONE" /\ c.entry # side)

\* Mutant: the profit is looked at before the stop.
ExitReasonProfitFirst(c, side, entry) ==
  IF Liquidated(c, side, entry) THEN "liquidation"
  ELSE IF Taken(c, side, entry) THEN "take_profit"
  ELSE IF Stopped(c, side, entry) THEN "stop_loss"
  ELSE IF SignalsExit(c, side) THEN "strategy_exit"
  ELSE "none"

\* Why evaluate_strategy would close a position on a candle, in the order of
\* its checks, or "none".
ExitReason(c, side, entry) ==
  IF Liquidated(c, side, entry) THEN "liquidation"
  ELSE IF Stopped(c, side, entry) THEN "stop_loss"
  ELSE IF Taken(c, side, entry) THEN "take_profit"
  ELSE IF SignalsExit(c, side) THEN "strategy_exit"
  ELSE "none"

-----------------------------------------------------------------------------
\* _selected_signal_row: the newest candle if it is complete, else the one
\* before it, else none (-1).
SelectedBar ==
  IF newest >= 0 /\ ClosesAt(newest) <= now THEN newest
  ELSE IF newest >= 1 THEN newest - 1
  ELSE -1

\* Mutant: an order at the open of the candle does not count.
AlreadyProcessedLate(b) ==
  orders # <<>> /\ orders[Len(orders)].at > OpensAt(b)

\* _bar_already_processed: some order was created since the candle opened.
AlreadyProcessed(b) ==
  orders # <<>> /\ orders[Len(orders)].at >= OpensAt(b)

LongerOf(x, y) == IF x < y THEN y ELSE x

\* _strategy_cooldown_until, from the latest position closed; closing it by hand
\* starts no cooldown.
LatestClose ==
  LET closes == {i \in 1 .. Len(orders) : orders[i].closed}
  IN IF closes = {} THEN 0 ELSE CHOOSE i \in closes : \A k \in closes : k <= i

\* Mutant: the cooldown counts from the entry of the position, not its close.
CoolingDownFromEntry ==
  \E i \in 1 .. LatestClose :
    /\ orders[LatestClose].reason # "manual_exit"
    /\ orders[i].kind = "entry"
    /\ \A k \in (i + 1) .. LatestClose : orders[k].kind # "entry"
    /\ orders[i].at + LongerOf(CooldownTicks, BarTicks) > now

CoolingDown ==
  /\ LatestClose > 0
  /\ orders[LatestClose].reason # "manual_exit"
  /\ orders[LatestClose].at + LongerOf(CooldownTicks, BarTicks) > now

Record(kind, reason, b, closed) ==
  Append(orders, [kind |-> kind, reason |-> reason, at |-> now, bar |-> b,
                  side |-> position'.side, entry |-> position'.entry,
                  closed |-> closed])

\* Bound: room for an order row.
RoomForOrder == Len(orders) < MaxOrders

\* close_position: an order row, and some, all or none of the quantity filled.
Close(reason, b) ==
  /\ RoomForOrder
  /\ \E rest \in 0 .. position.quantity :
       /\ position' = [position EXCEPT !.quantity = rest]
       /\ orders' = Record("exit", reason, b, rest = 0)

\* normalize_order finds too little to trade: the call raises before its order
\* row is written.
Refused == UNCHANGED <<position, orders>>

-----------------------------------------------------------------------------
\* Nothing to look at, or the candle was acted upon: only the marks change.
Wait ==
  /\ SelectedBar = -1 \/ AlreadyProcessed(SelectedBar)
  /\ UNCHANGED <<position, orders>>

EvaluateOpen ==
  LET b == SelectedBar
      reason == ExitReason(Candle(b), position.side, position.entry)
  IN /\ b >= 0 /\ ~AlreadyProcessed(b)
     /\ IsOpen
     /\ IF reason = "none"
        THEN UNCHANGED <<position, orders>>
        ELSE Close(reason, b) \/ Refused

\* submit_entry_order at the candle's close: filled, refused by the risk checks
\* with a REJECTED order row, or refused before them.
EvaluateFlat ==
  LET b == SelectedBar
      c == Candle(b)
      enters == /\ ~CoolingDown
                /\ c.entry # "NONE"
                /\ c.entry = "SHORT" => ShortAllowed
  IN /\ b >= 0 /\ ~AlreadyProcessed(b)
     /\ ~IsOpen
     /\ IF ~enters
        THEN UNCHANGED <<position, orders>>
        ELSE /\ RoomForOrder
             /\ \/ /\ position' = [quantity |-> BoughtQuantity, side |-> c.entry,
                                   entry |-> c.close]
                   /\ orders' = Record("entry", "signal", b, FALSE)
                \/ /\ UNCHANGED position
                   /\ orders' = Record("rejected", "risk", b, FALSE)
                \/ Refused

EvaluateStrategy ==
  /\ Wait \/ EvaluateOpen \/ EvaluateFlat
  /\ UNCHANGED <<now, candles, newest>>

\* POST /positions/{id}/close, whole or in part.
ManualClose ==
  /\ IsOpen
  /\ Close("manual_exit", -1)
  /\ UNCHANGED <<now, candles, newest>>

\* refresh_market_data: the frame now ends with the candle that is forming.
Refresh ==
  /\ newest' = now \div BarTicks
  /\ newest' # newest
  /\ UNCHANGED <<now, candles, position, orders>>

\* Time passes; at the end of its last tick a candle is complete.
Tick ==
  /\ now < MaxTime
  /\ now' = now + 1
  /\ IF now' % BarTicks = 0 THEN \E c \in Candles : candles' = Append(candles, c)
                            ELSE UNCHANGED candles
  /\ UNCHANGED <<newest, position, orders>>

EvaluatorInit ==
  /\ now = 0
  /\ candles = <<>>
  /\ newest = -1
  /\ position = NoPosition
  /\ orders = <<>>

EvaluatorNext == EvaluateStrategy \/ ManualClose \/ Refresh \/ Tick

EvaluatorSpec == EvaluatorInit /\ [][EvaluatorNext]_evaluatorVars

-----------------------------------------------------------------------------
Bars == -1 .. MaxTime

ByStrategy(o) == o.reason # "manual_exit"

\* A strategy acts once per candle, on a candle that was complete when it acted,
\* and on prices made after its previous order, by hand or not: its exits never
\* answer to prices from before the entry.
OrdersUseLaterBars ==
  \A i \in 1 .. Len(orders) : ByStrategy(orders[i]) =>
    /\ ClosesAt(orders[i].bar) <= orders[i].at
    /\ \A k \in 1 .. (i - 1) : orders[k].at < OpensAt(orders[i].bar)

\* No entry follows a strategy's own exit before the cooldown has passed,
\* however many evaluations, rejections and refreshes lie in between.
ReentryCoolsDown ==
  \A i, k \in 1 .. Len(orders) :
    /\ i < k
    /\ orders[i].closed /\ ByStrategy(orders[i])
    /\ orders[k].kind = "entry"
    => orders[k].at >= orders[i].at + LongerOf(CooldownTicks, BarTicks)

\* When a candle reaches several levels the worst of them is the exit: no profit
\* is taken, and no signal followed, on a candle that reached the stop.
WorstLevelFirst ==
  \A i \in 1 .. Len(orders) :
    LET o == orders[i]
        c == Candle(o.bar)
    IN o.kind = "exit" /\ ByStrategy(o) =>
         /\ o.reason \in {"take_profit", "strategy_exit"} =>
              ~Stopped(c, o.side, o.entry)
         /\ o.reason # "liquidation" => ~Liquidated(c, o.side, o.entry)
=============================================================================
