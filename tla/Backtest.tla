------------------------------- MODULE Backtest -------------------------------
(***************************************************************************)
(* BacktestService.run_backtest (app/services/backtest_service.py): one    *)
(* simulated account, one strategy, one candle a step.  Each candle first  *)
(* charges funding, then may close the position, then may open one at its  *)
(* close; what is still open after the last candle is closed at its close. *)
(*                                                                         *)
(* Money is an integer count of 1/Leverage-th of a price unit, as in       *)
(* PositionLedger.  The list of trade records is kept as its sums.  What   *)
(* the fill model takes from a price - slippage on candles, the average of *)
(* a book on depth - is a choice from Slippages.                           *)
(***************************************************************************)
EXTENDS Integers

CONSTANTS
  Spot,             \* TRUE for a spot instrument, FALSE for a perpetual
  Leverage,
  FeeRate,          \* fee per price * quantity
  Slippages,        \* price units a fill may give away
  StopDistance,     \* stop_loss_pct of the entry price
  TakeDistance,     \* take_profit_pct of the entry price
  Maintenance,      \* default_maintenance_margin_pct, times Leverage
  FundingRates,     \* funding of a candle per entry price * quantity
  Candles,          \* candles with their signals
  Quantities,       \* what position_size may return
  StartingBalance,
  MayFail,          \* TRUE if fills insist on depth that may be missing
  MaxBars           \* bound: length of the data frame

ASSUME BacktestAssumption ==
  /\ Spot \in BOOLEAN /\ MayFail \in BOOLEAN
  /\ Leverage \in Nat \ {0}
  /\ FeeRate \in Nat /\ StartingBalance \in Nat /\ Maintenance \in Nat
  /\ StopDistance \in Nat \ {0} /\ TakeDistance \in Nat \ {0}
  /\ Slippages \subseteq Int /\ FundingRates \subseteq Int
  /\ 0 \in Quantities /\ Quantities \subseteq Nat
  /\ Candles # {}
  /\ \A c \in Candles :
       /\ c.low \in Int /\ c.close \in Int /\ c.high \in Int
       /\ c.low <= c.close /\ c.close <= c.high
       /\ c.entry \in {"NONE", "LONG", "SHORT"}
  /\ MaxBars \in Nat

VARIABLES
  bars,             \* candles processed
  candle,           \* the last of them
  account,          \* balance, position and the sums of the trade records
  report,           \* the response's own totals, and the last equity point
  status            \* of the strategy run

vars == <<bars, candle, account, report, status>>

-----------------------------------------------------------------------------
Direction(side) == IF side = "SHORT" THEN -1 ELSE 1

Notional(price, qty) == Leverage * price * qty

Fee(price, qty) == FeeRate * price * qty

Flat == [quantity |-> 0, side |-> "LONG", entry |-> 0, fee |-> 0, funding |-> 0]

IsOpen(a) == a.position.quantity > 0

\* What an entry takes from the balance besides its fee.
Locked(pos) ==
  IF Spot /\ pos.side = "LONG" THEN Notional(pos.entry, pos.quantity)
  ELSE IF Spot THEN 0 ELSE pos.entry * pos.quantity

Gross(pos, price) ==
  Leverage * Direction(pos.side) * (price - pos.entry) * pos.quantity

Against(c, pos, distance) ==
  IF pos.side = "LONG" THEN c.low <= pos.entry - distance
                       ELSE c.high >= pos.entry + distance
InFavour(c, pos, distance) ==
  IF pos.side = "LONG" THEN c.high >= pos.entry + distance
                       ELSE c.low <= pos.entry - distance

\* Mutant: the liquidation level keeps no maintenance margin.
LiquidationDistanceBankrupt(pos) == pos.entry \div Leverage

LiquidationDistance(pos) == (pos.entry - Maintenance) \div Leverage

\* The level a candle closes a position at and why, worst level first.
ExitLevel(c, pos) ==
  LET loss(distance) == pos.entry - Direction(pos.side) * distance
      profit(distance) == pos.entry + Direction(pos.side) * distance
  IN IF ~Spot /\ Against(c, pos, LiquidationDistance(pos))
     THEN [reason |-> "liquidation", price |-> loss(LiquidationDistance(pos))]
     ELSE IF Against(c, pos, StopDistance)
     THEN [reason |-> "stop_loss", price |-> loss(StopDistance)]
     ELSE IF InFavour(c, pos, TakeDistance)
     THEN [reason |-> "take_profit", price |-> profit(TakeDistance)]
     ELSE IF pos.side \in c.exits
     THEN [reason |-> "strategy_exit", price |-> c.close]
     ELSE [reason |-> "none", price |-> c.close]

\* _simulate_fill: a buy pays the slippage on top, a sell gives it away.
EntryFill(price, side, slip) == price + Direction(side) * slip
ExitFill(price, side, slip) == price - Direction(side) * slip

-----------------------------------------------------------------------------
\* A perpetual pays or receives the candle's funding on its entry notional.
Charge(pos, rate) == rate * Direction(pos.side) * pos.entry * pos.quantity

\* Mutant: the position does not remember the funding it has paid.
FundedUnrecorded(a, rate) ==
  IF ~IsOpen(a) \/ Spot THEN a
  ELSE [a EXCEPT !.balance = @ - Charge(a.position, rate)]

Funded(a, rate) ==
  IF ~IsOpen(a) \/ Spot THEN a
  ELSE [a EXCEPT !.balance = @ - Charge(a.position, rate),
                 !.position.funding = @ + Charge(a.position, rate)]

\* Mutant: the exit takes the funding from the balance a second time.
ReturnedLessFunding(pos, price) ==
  IF Spot /\ pos.side = "LONG" THEN Notional(price, pos.quantity)
                               ELSE Locked(pos) + Gross(pos, price) - pos.funding

\* What an exit at a price gives back to the balance, before its fee.
Returned(pos, price) ==
  IF Spot /\ pos.side = "LONG" THEN Notional(price, pos.quantity)
                               ELSE Locked(pos) + Gross(pos, price)

\* The exit: a trade record joins the list.
Exited(a, price) ==
  LET pos == a.position
      exitFee == Fee(price, pos.quantity)
  IN [balance |-> a.balance + Returned(pos, price) - exitFee,
      position |-> Flat,
      net |-> a.net + (Gross(pos, price) - pos.fee - exitFee - pos.funding),
      fees |-> a.fees + (pos.fee + exitFee),
      funding |-> a.funding + pos.funding]

Bought(price, side, qty) ==
  [quantity |-> qty, side |-> side, entry |-> price,
   fee |-> Fee(price, qty), funding |-> 0]

\* An entry is made if there is something to buy and the balance covers it.
CanEnter(a, c, pos) ==
  /\ ~IsOpen(a)
  /\ c.entry # "NONE" /\ ~(Spot /\ c.entry = "SHORT")
  /\ a.balance > 0 /\ pos.quantity > 0
  /\ Locked(pos) + pos.fee <= a.balance

\* Mutant: the entry fee is not taken from the balance.
EnteredFree(a, c, pos) ==
  IF CanEnter(a, c, pos)
  THEN [a EXCEPT !.balance = @ - Locked(pos), !.position = pos]
  ELSE a

Entered(a, c, pos) ==
  IF CanEnter(a, c, pos)
  THEN [a EXCEPT !.balance = @ - Locked(pos) - pos.fee, !.position = pos]
  ELSE a

\* _equity_with_position.
Equity(a, mark) ==
  IF ~IsOpen(a) THEN a.balance
  ELSE IF Spot /\ a.position.side = "LONG"
       THEN a.balance + Notional(mark, a.position.quantity)
       ELSE a.balance + Locked(a.position) + Gross(a.position, mark)

-----------------------------------------------------------------------------
\* One iteration of the loop over the signals.
ProcessBar(c, rate, qty, slipOut, slipIn) ==
  LET funded == Funded(account, rate)
      exit == ExitLevel(c, account.position)
      closes == IsOpen(account) /\ exit.reason # "none"
      out == ExitFill(exit.price, account.position.side, slipOut)
      exited == IF closes THEN Exited(funded, out) ELSE funded
      pos == Bought(EntryFill(c.close, c.entry, slipIn), c.entry, qty)
      enters == CanEnter(exited, c, pos)
  IN /\ status = "STARTED" /\ bars < MaxBars
     /\ bars' = bars + 1
     /\ candle' = c
     /\ account' = Entered(exited, c, pos)
     /\ report' = [fees |-> report.fees
                     + (IF closes THEN Fee(out, account.position.quantity) ELSE 0)
                     + (IF enters THEN pos.fee ELSE 0),
                   funding |-> report.funding + (account.balance - funded.balance),
                   liquidations |-> report.liquidations
                     + (IF closes /\ exit.reason = "liquidation" THEN 1 ELSE 0),
                   equity |-> Equity(account', c.close)]
     /\ UNCHANGED status

\* After the last candle: close what is open, and complete the run.
Finish(slip) ==
  LET out == ExitFill(candle.close, account.position.side, slip)
  IN /\ status = "STARTED" /\ bars = MaxBars
     /\ status' = "COMPLETED"
     /\ IF IsOpen(account)
        THEN /\ account' = Exited(account, out)
             /\ report' = [report EXCEPT
                             !.fees = @ + Fee(out, account.position.quantity),
                             !.equity = account'.balance]
        ELSE UNCHANGED <<account, report>>
     /\ UNCHANGED <<bars, candle>>

\* A fill that insists on depth finds no snapshot: the run fails where it is,
\* and keeps nothing but the message.
Fail ==
  /\ MayFail
  /\ status = "STARTED"
  /\ status' = "FAILED"
  /\ UNCHANGED <<bars, candle, account, report>>

AnyCandle == CHOOSE c \in Candles : TRUE

Init ==
  /\ bars = 0
  /\ candle = AnyCandle
  /\ account = [balance |-> StartingBalance, position |-> Flat,
                net |-> 0, fees |-> 0, funding |-> 0]
  /\ report = [fees |-> 0, funding |-> 0, liquidations |-> 0,
               equity |-> StartingBalance]
  /\ status = "STARTED"

Next ==
  \/ \E c \in Candles, rate \in FundingRates, qty \in Quantities,
        slipOut \in Slippages, slipIn \in Slippages :
       ProcessBar(c, rate, qty, slipOut, slipIn)
  \/ \E slip \in Slippages : Finish(slip)
  \/ Fail

Spec == Init /\ [][Next]_vars

-----------------------------------------------------------------------------
Accounts == [balance : Int, net : Int, fees : Int, funding : Int,
             position : [quantity : Nat, side : {"LONG", "SHORT"},
                         entry : Int, fee : Int, funding : Int]]

\* Every part of the run has its type.
TypeOK ==
  /\ bars \in 0 .. MaxBars
  /\ candle \in Candles
  /\ account \in Accounts
  /\ report \in [fees : Int, funding : Int, liquidations : Nat, equity : Int]
  /\ status \in {"STARTED", "COMPLETED", "FAILED"}

\* What an open position has taken from the balance and no trade record shows.
Pending(a) ==
  IF IsOpen(a) THEN Locked(a.position) + a.position.fee + a.position.funding ELSE 0

Explained(a) == a.balance = StartingBalance + a.net - Pending(a)

\* At every candle the balance is the starting balance plus the net profit of
\* the trade records, less what the open position has taken from it: however
\* entries, funding and exits follow each other, no money appears or is lost.
BalanceExplained == Explained(account)

\* The response's totals are the sums of its trade records, and the ending
\* balance and equity are what those records earned.
ReportAddsUp ==
  status = "COMPLETED" =>
    /\ report.fees = account.fees /\ report.funding = account.funding
    /\ account.balance = StartingBalance + account.net
    /\ report.equity = account.balance

\* The inductive invariant: the totals and the equity point of a run under way
\* agree with its account, and a completed run holds no position.
BacktestInv ==
  /\ TypeOK
  /\ BalanceExplained
  /\ ~IsOpen(account) => account.position = Flat
  /\ report.fees = account.fees + account.position.fee
  /\ report.funding = account.funding + account.position.funding
  /\ status = "COMPLETED" => ~IsOpen(account) /\ report.equity = account.balance
  /\ status = "STARTED" => report.equity = Equity(account, candle.close)

\* The liquidation level is checked before the stop and leaves a margin, so that
\* a candle through both never books a loss, fees and funding aside, of more
\* than the position had locked.
LossWithinMargin ==
  [][LET lost == (account.net + account.fees + account.funding)
                 - (account'.net + account'.fees + account'.funding)
     IN lost > 0 => lost <= Locked(account.position)]_vars
=============================================================================
