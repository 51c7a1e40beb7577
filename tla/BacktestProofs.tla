---------------------------- MODULE BacktestProofs ----------------------------
(***************************************************************************)
(* The accounting of Backtest holds for every data frame, every fill price *)
(* and every leverage, fee and funding rate; what a perpetual may lose,    *)
(* for every one whose slippage its maintenance margin pays for.           *)
(***************************************************************************)
EXTENDS Backtest, TLAPS

\* What BacktestInv says of an account and of the report's two totals.
Consistent(a, fees, funding) ==
  /\ a \in Accounts
  /\ Explained(a)
  /\ ~IsOpen(a) => a.position = Flat
  /\ fees = a.fees + a.position.fee
  /\ funding = a.funding + a.position.funding

\* Every amount computed from integers is an integer (whole money units).
LEMMA AmountsInt ==
  ASSUME NEW price \in Int, NEW qty \in Nat
  PROVE  Notional(price, qty) \in Int /\ Fee(price, qty) \in Int
BY BacktestAssumption DEF BacktestAssumption, Notional, Fee

\* What a position has locked, and what an exit returns of it, is an integer.
LEMMA PositionInt ==
  ASSUME NEW a \in Accounts, NEW price \in Int, NEW rate \in Int
  PROVE  /\ Locked(a.position) \in Int
         /\ Gross(a.position, price) \in Int
         /\ Charge(a.position, rate) \in Int
<1>1. /\ a.position.entry \in Int /\ a.position.quantity \in Nat
      /\ Direction(a.position.side) \in Int
  BY DEF Accounts, Direction
<1>2. Leverage \in Int
  BY BacktestAssumption DEF BacktestAssumption
<1>3. Notional(a.position.entry, a.position.quantity) \in Int
  BY <1>1, AmountsInt
<1>. QED
  BY <1>1, <1>2, <1>3 DEF Locked, Gross, Charge

\* A long position is worth, at any price, what was paid for it and its profit.
LEMMA LongIsWorth ==
  ASSUME NEW a \in Accounts, NEW price \in Int, a.position.side = "LONG"
  PROVE  Notional(price, a.position.quantity)
           = Notional(a.position.entry, a.position.quantity)
             + Gross(a.position, price)
<1>. DEFINE e == a.position.entry
            q == a.position.quantity
<1>1. /\ e \in Int /\ q \in Int /\ Leverage \in Int
      /\ Direction(a.position.side) = 1
  BY BacktestAssumption DEF Accounts, Direction, BacktestAssumption
<1>2. (Leverage * price) * q = (Leverage * e) * q + ((Leverage * 1) * (price - e)) * q
  BY <1>1
<1>. QED
  BY <1>1, <1>2 DEF Notional, Gross

\* Funding moves from the balance to the position's account of it.
LEMMA FundedKeeps ==
  ASSUME NEW a, NEW fees, NEW funding, NEW rate \in FundingRates,
         Consistent(a, fees, funding)
  PROVE  /\ Consistent(Funded(a, rate), fees,
                       funding + (a.balance - Funded(a, rate).balance))
         /\ Funded(a, rate).position.quantity = a.position.quantity
         /\ Funded(a, rate).position.side = a.position.side
<1>. DEFINE charge == Charge(a.position, rate)
            new == [a EXCEPT !.balance = @ - charge, !.position.funding = @ + charge]
<1>1. a \in Accounts /\ rate \in Int
  BY BacktestAssumption DEF Consistent, BacktestAssumption
<1>2. charge \in Int /\ Locked(a.position) \in Int
  BY <1>1, PositionInt
<1>3. CASE ~IsOpen(a) \/ Spot
  BY <1>1, <1>3 DEF Funded, Consistent, Accounts
<1>4. CASE IsOpen(a) /\ ~Spot
  <2>1. Funded(a, rate) = new
    BY <1>4 DEF Funded
  <2>. HIDE DEF charge
  <2>. DEFINE moved == [a.position EXCEPT !.funding = @ + charge]
  <2>2. /\ moved \in [quantity : Nat, side : {"LONG", "SHORT"},
                      entry : Int, fee : Int, funding : Int]
        /\ moved.funding = a.position.funding + charge
        /\ moved.fee = a.position.fee /\ moved.quantity = a.position.quantity
        /\ moved.side = a.position.side /\ moved.entry = a.position.entry
    BY <1>1, <1>2 DEF Accounts
  <2>3. a.balance - charge \in Int
    BY <1>1, <1>2 DEF Accounts
  <2>4. new = [a EXCEPT !.balance = a.balance - charge, !.position = moved]
    BY <1>1 DEF Accounts
  <2>. HIDE DEF moved
  <2>5. /\ new \in Accounts
        /\ new.balance = a.balance - charge
        /\ new.net = a.net /\ new.fees = a.fees /\ new.funding = a.funding
        /\ new.position = moved
    BY <1>1, <2>2, <2>3, <2>4 DEF Accounts
  <2>6. IsOpen(new) /\ Locked(new.position) = Locked(a.position)
    BY <1>4, <2>2, <2>5 DEF IsOpen, Locked
  <2>7. Explained(new)
    BY <1>1, <1>2, <1>4, <2>2, <2>5, <2>6, BacktestAssumption
       DEF Consistent, Explained, Pending, Accounts, BacktestAssumption
  <2>8. funding + (a.balance - new.balance) = new.funding + new.position.funding
    BY <1>1, <1>2, <2>2, <2>5 DEF Consistent, Accounts
  <2>9. Consistent(new, fees, funding + (a.balance - new.balance))
    BY <2>2, <2>5, <2>6, <2>7, <2>8 DEF Consistent
  <2>. QED
    BY <2>1, <2>2, <2>5, <2>9
<1>. QED
  BY <1>3, <1>4

\* An exit turns what was pending into the net profit of its trade record.
LEMMA ExitedKeeps ==
  ASSUME NEW a, NEW fees, NEW funding, NEW price \in Int,
         Consistent(a, fees, funding), IsOpen(a)
  PROVE  /\ Consistent(Exited(a, price), fees + Fee(price, a.position.quantity), funding)
         /\ ~IsOpen(Exited(a, price))
<1>. DEFINE q == a.position.quantity
            fee == Fee(price, q)
            gross == Gross(a.position, price)
            locked == Locked(a.position)
            new == Exited(a, price)
<1>1. /\ a \in Accounts /\ q \in Nat
      /\ a.balance \in Int /\ a.net \in Int /\ a.fees \in Int /\ a.funding \in Int
      /\ a.position.fee \in Int /\ a.position.funding \in Int
  BY DEF Consistent, Accounts
<1>2. /\ fee \in Int /\ gross \in Int /\ locked \in Int
      /\ Notional(price, q) \in Int
  BY <1>1, AmountsInt, PositionInt
<1>3. Spot /\ a.position.side = "LONG" => Notional(price, q) = locked + gross
  BY <1>1, LongIsWorth DEF Locked
<1>. HIDE DEF fee, gross, locked
<1>4. /\ new.balance = a.balance + locked + gross - fee
      /\ new.net = a.net + (gross - a.position.fee - fee - a.position.funding)
      /\ new.fees = a.fees + (a.position.fee + fee)
      /\ new.funding = a.funding + a.position.funding
      /\ new.position = Flat
      /\ new \in Accounts
  <2>1. new = [balance |-> a.balance + Returned(a.position, price) - fee,
               position |-> Flat,
               net |-> a.net + (gross - a.position.fee - fee - a.position.funding),
               fees |-> a.fees + (a.position.fee + fee),
               funding |-> a.funding + a.position.funding]
    BY DEF Exited, fee, gross
  <2>2. new.balance = a.balance + locked + gross - fee
    BY <2>1, <1>1, <1>2, <1>3 DEF Returned, locked, gross
  <2>3. Flat \in [quantity : Nat, side : {"LONG", "SHORT"},
                  entry : Int, fee : Int, funding : Int]
    BY DEF Flat
  <2>. QED
    BY <2>1, <2>2, <2>3, <1>1, <1>2 DEF Accounts
<1>5. ~IsOpen(new) /\ new.position.fee = 0 /\ new.position.funding = 0
  BY <1>4 DEF IsOpen, Flat
<1>6. a.balance = StartingBalance + a.net - (locked + a.position.fee + a.position.funding)
  BY DEF Consistent, Explained, Pending, locked
<1>7. Explained(new)
  BY <1>1, <1>2, <1>4, <1>5, <1>6, BacktestAssumption
     DEF Explained, Pending, BacktestAssumption
<1>8. /\ fees + fee = new.fees + new.position.fee
      /\ funding = new.funding + new.position.funding
  BY <1>1, <1>2, <1>4, <1>5 DEF Consistent
<1>. QED
  BY <1>4, <1>5, <1>7, <1>8 DEF Consistent, fee

\* An entry takes from the balance exactly what is then pending.
LEMMA EnteredKeeps ==
  ASSUME NEW a, NEW fees, NEW funding, NEW c \in Candles,
         NEW price \in Int, NEW qty \in Quantities,
         Consistent(a, fees, funding)
  PROVE  LET pos == Bought(price, c.entry, qty)
         IN Consistent(Entered(a, c, pos),
                       fees + (IF CanEnter(a, c, pos) THEN pos.fee ELSE 0), funding)
<1>. DEFINE pos == Bought(price, c.entry, qty)
            new == [a EXCEPT !.balance = @ - Locked(pos) - pos.fee, !.position = pos]
<1>1. /\ a \in Accounts /\ fees = a.fees + a.position.fee
      /\ a.fees \in Int /\ a.position.fee \in Int /\ a.balance \in Int
      /\ a.net \in Int
  BY DEF Consistent, Accounts
<1>2. CASE ~CanEnter(a, c, pos)
  BY <1>1, <1>2 DEF Entered
<1>3. CASE CanEnter(a, c, pos)
  <2>1. /\ qty \in Nat /\ c.entry \in {"LONG", "SHORT"} /\ pos.quantity > 0
    BY <1>3, BacktestAssumption DEF CanEnter, BacktestAssumption
  <2>2. Fee(price, qty) \in Int
    BY <2>1, AmountsInt
  <2>3. /\ pos \in [quantity : Nat, side : {"LONG", "SHORT"},
                    entry : Int, fee : Int, funding : Int]
        /\ pos.funding = 0 /\ pos.fee \in Int
    BY <2>1, <2>2 DEF Bought
  <2>4. [a EXCEPT !.position = pos] \in Accounts
        /\ [a EXCEPT !.position = pos].position = pos
    BY <1>1, <2>3 DEF Accounts
  <2>5. Locked(pos) \in Int
    BY <2>4, PositionInt
  <2>6. a.position = Flat
    BY <1>3 DEF Consistent, CanEnter
  <2>. HIDE DEF pos
  <2>. DEFINE balance == a.balance - Locked(pos) - pos.fee
  <2>7. balance \in Int
    BY <1>1, <2>3, <2>5
  <2>8. new = [a EXCEPT !.balance = balance, !.position = pos]
    BY <1>1 DEF Accounts
  <2>. HIDE DEF balance
  <2>9. /\ new \in Accounts /\ new.position = pos /\ new.balance = balance
         /\ new.net = a.net /\ new.fees = a.fees /\ new.funding = a.funding
    BY <1>1, <2>3, <2>7, <2>8 DEF Accounts
  <2>10. new.balance = a.balance - Locked(pos) - pos.fee
    BY <2>9 DEF balance
  <2>11. IsOpen(new)
    BY <2>1, <2>9 DEF IsOpen
  <2>12. a.balance = StartingBalance + a.net
    BY <1>1, <2>6, BacktestAssumption
       DEF Consistent, Explained, Pending, IsOpen, Flat, BacktestAssumption
  <2>13. Explained(new)
    BY <1>1, <2>3, <2>5, <2>10, <2>9, <2>11, <2>12, BacktestAssumption
       DEF Explained, Pending, BacktestAssumption
  <2>14. /\ fees + pos.fee = new.fees + new.position.fee
         /\ funding = new.funding + new.position.funding
    BY <1>1, <2>3, <2>6, <2>9 DEF Consistent, Flat
  <2>15. Entered(a, c, pos) = new
    BY <1>3 DEF Entered
  <2>. QED
    BY <1>3, <2>9, <2>11, <2>13, <2>14, <2>15 DEF Consistent, pos
<1>. QED
  BY <1>2, <1>3

\* The equity of a consistent account is an integer.
LEMMA EquityInt ==
  ASSUME NEW a \in Accounts, NEW mark \in Int
  PROVE  Equity(a, mark) \in Int
<1>1. a.balance \in Int /\ a.position.quantity \in Nat
  BY DEF Accounts
<1>2. /\ Locked(a.position) \in Int /\ Gross(a.position, mark) \in Int
  BY PositionInt
<1>3. Notional(mark, a.position.quantity) \in Int
  BY <1>1, AmountsInt
<1>. QED
  BY <1>1, <1>2, <1>3 DEF Equity

\* The price of an exit is an integer, whatever closed the position.
LEMMA ExitPriceInt ==
  ASSUME NEW a \in Accounts, NEW c \in Candles, NEW slip \in Slippages
  PROVE  /\ ExitFill(ExitLevel(c, a.position).price, a.position.side, slip) \in Int
         /\ ExitFill(c.close, a.position.side, slip) \in Int
         /\ EntryFill(c.close, c.entry, slip) \in Int
<1>. DEFINE pos == a.position
            sign == Direction(pos.side)
            far == LiquidationDistance(pos)
            loss(d) == pos.entry - sign * d
            profit(d) == pos.entry + sign * d
<1>1. /\ pos.entry \in Int /\ c.close \in Int /\ slip \in Int
      /\ sign \in {-1, 1} /\ Direction(c.entry) \in {-1, 1}
      /\ StopDistance \in Int /\ TakeDistance \in Int
      /\ Maintenance \in Int /\ Leverage \in Nat \ {0}
  BY BacktestAssumption DEF BacktestAssumption, Accounts, Direction
<1>2. far \in Int
  BY <1>1 DEF LiquidationDistance
<1>. HIDE DEF far, sign
<1>3. \A d \in Int : loss(d) \in Int /\ profit(d) \in Int
  BY <1>1
<1>4. ExitLevel(c, pos).price \in
        {loss(far), loss(StopDistance), profit(TakeDistance), c.close}
  BY DEF ExitLevel, far, sign
<1>5. ExitLevel(c, pos).price \in Int
  BY <1>1, <1>2, <1>3, <1>4
<1>. QED
  BY <1>1, <1>5 DEF ExitFill, EntryFill, sign

-----------------------------------------------------------------------------
\* A backtest starts consistent.
LEMMA InitInv == Init => BacktestInv
<1>. SUFFICES ASSUME Init PROVE BacktestInv
  OBVIOUS
<1>1. StartingBalance \in Int /\ MaxBars \in Nat
  BY BacktestAssumption DEF BacktestAssumption
<1>2. account \in Accounts /\ ~IsOpen(account) /\ account.position = Flat
  BY <1>1 DEF Init, Accounts, Flat, IsOpen
<1>3. candle \in Candles
  BY BacktestAssumption DEF Init, AnyCandle, BacktestAssumption
<1>. QED
  BY <1>1, <1>2, <1>3
     DEF Init, BacktestInv, TypeOK, BalanceExplained, Explained, Pending, Flat, Equity

\* One candle: funding, exit and entry, in the order of the loop.
LEMMA ProcessBarKeeps ==
  ASSUME BacktestInv, NEW c \in Candles, NEW rate \in FundingRates,
         NEW qty \in Quantities, NEW slipOut \in Slippages,
         NEW slipIn \in Slippages,
         ProcessBar(c, rate, qty, slipOut, slipIn)
  PROVE  BacktestInv'
<1>. DEFINE funded == Funded(account, rate)
            exit == ExitLevel(c, account.position)
            closes == IsOpen(account) /\ exit.reason # "none"
            out == ExitFill(exit.price, account.position.side, slipOut)
            exitFee == IF closes THEN Fee(out, account.position.quantity) ELSE 0
            exited == IF closes THEN Exited(funded, out) ELSE funded
            pos == Bought(EntryFill(c.close, c.entry, slipIn), c.entry, qty)
            entryFee == IF CanEnter(exited, c, pos) THEN pos.fee ELSE 0
            fees1 == report.fees + exitFee
            funding1 == report.funding + (account.balance - funded.balance)
<1>1. Consistent(account, report.fees, report.funding)
  BY DEF BacktestInv, TypeOK, BalanceExplained, Consistent
<1>2. /\ Consistent(funded, report.fees, funding1)
      /\ funded.position.quantity = account.position.quantity
  BY <1>1, FundedKeeps
<1>3. /\ out \in Int /\ EntryFill(c.close, c.entry, slipIn) \in Int
  BY ExitPriceInt DEF BacktestInv, TypeOK
<1>4. /\ account' = Entered(exited, c, pos)
      /\ report' = [fees |-> fees1 + entryFee, funding |-> funding1,
                    liquidations |-> report.liquidations
                      + (IF closes /\ exit.reason = "liquidation" THEN 1 ELSE 0),
                    equity |-> Equity(account', c.close)]
      /\ candle' = c /\ bars' = bars + 1 /\ bars < MaxBars
      /\ status = "STARTED" /\ status' = status
  BY DEF ProcessBar
<1>. HIDE DEF out, funded, exit, funding1
<1>5. Consistent(exited, fees1, funding1)
  <2>1. CASE closes
    <3>1. IsOpen(funded)
      BY <1>2, <2>1 DEF IsOpen
    <3>2. Consistent(Exited(funded, out),
                     report.fees + Fee(out, funded.position.quantity), funding1)
      BY <1>2, <1>3, <3>1, ExitedKeeps
    <3>. QED
      BY <1>2, <2>1, <3>2
  <2>2. CASE ~closes
    <3>1. exited = funded /\ fees1 = report.fees
      BY <2>2 DEF BacktestInv, TypeOK
    <3>. QED
      BY <1>2, <3>1
  <2>. QED
    BY <2>1, <2>2
<1>. HIDE DEF exited, fees1
<1>6. Consistent(account', fees1 + entryFee, funding1)
  BY <1>3, <1>4, <1>5, EnteredKeeps
<1>. HIDE DEF entryFee, closes
<1>7. /\ account' \in Accounts /\ c.close \in Int
      /\ report'.fees \in Int /\ report'.funding \in Int
  BY <1>4, <1>6, BacktestAssumption DEF Consistent, Accounts, BacktestAssumption
<1>8. Equity(account', c.close) \in Int
  BY <1>7, EquityInt
<1>9. report' \in [fees : Int, funding : Int, liquidations : Nat, equity : Int]
  BY <1>4, <1>7, <1>8 DEF BacktestInv, TypeOK
<1>10. TypeOK'
  BY <1>4, <1>7, <1>9, BacktestAssumption
     DEF BacktestInv, TypeOK, BacktestAssumption
<1>. QED
  BY <1>4, <1>6, <1>10 DEF BacktestInv, BalanceExplained, Consistent

\* The end of the run closes what is open.
LEMMA FinishKeeps ==
  ASSUME BacktestInv, NEW slip \in Slippages, Finish(slip)
  PROVE  BacktestInv'
<1>. DEFINE out == ExitFill(candle.close, account.position.side, slip)
            fee == Fee(out, account.position.quantity)
<1>1. Consistent(account, report.fees, report.funding)
  BY DEF BacktestInv, TypeOK, BalanceExplained, Consistent
<1>2. out \in Int
  BY ExitPriceInt DEF BacktestInv, TypeOK
<1>3. CASE IsOpen(account)
  <2>1. /\ account' = Exited(account, out)
        /\ report' = [report EXCEPT !.fees = @ + fee, !.equity = account'.balance]
        /\ UNCHANGED <<bars, candle>> /\ status' = "COMPLETED"
    BY <1>3 DEF Finish
  <2>2. /\ Consistent(account', report.fees + fee, report.funding)
        /\ ~IsOpen(account')
    BY <1>1, <1>2, <1>3, <2>1, ExitedKeeps
  <2>. HIDE DEF fee
  <2>3. /\ report'.fees = report.fees + fee /\ report'.funding = report.funding
        /\ report'.equity = account'.balance
        /\ report'.liquidations = report.liquidations
    BY <2>1 DEF BacktestInv, TypeOK
  <2>4. /\ account' \in Accounts /\ account'.balance \in Int
        /\ report.fees + fee \in Int
    BY <2>2 DEF Consistent, Accounts
  <2>5. TypeOK'
    BY <2>1, <2>3, <2>4 DEF BacktestInv, TypeOK
  <2>. QED
    BY <2>1, <2>2, <2>3, <2>5 DEF BacktestInv, BalanceExplained, Consistent
<1>4. CASE ~IsOpen(account)
  <2>1. UNCHANGED <<account, report, bars, candle>> /\ status' = "COMPLETED"
    BY <1>4 DEF Finish
  <2>2. report.equity = account.balance
    BY <1>4 DEF Finish, BacktestInv, Equity
  <2>. QED
    BY <1>4, <2>1, <2>2
       DEF BacktestInv, TypeOK, BalanceExplained, Explained, Pending, IsOpen
<1>. QED
  BY <1>3, <1>4

\* Every step keeps the invariant.
LEMMA NextInv == BacktestInv /\ [Next]_vars => BacktestInv'
<1>. SUFFICES ASSUME BacktestInv, [Next]_vars PROVE BacktestInv'
  OBVIOUS
<1>1. CASE \E c \in Candles, rate \in FundingRates, qty \in Quantities,
             slipOut \in Slippages, slipIn \in Slippages :
             ProcessBar(c, rate, qty, slipOut, slipIn)
  BY <1>1, ProcessBarKeeps
<1>2. CASE \E slip \in Slippages : Finish(slip)
  BY <1>2, FinishKeeps
<1>3. CASE Fail
  BY <1>3
     DEF Fail, BacktestInv, TypeOK, BalanceExplained, Explained, Pending, IsOpen, Equity
<1>4. CASE UNCHANGED vars
  BY <1>4
     DEF vars, BacktestInv, TypeOK, BalanceExplained, Explained, Pending, IsOpen, Equity
<1>. QED
  BY <1>1, <1>2, <1>3, <1>4 DEF Next

\* The account, the trade records and the report agree at every candle of every
\* backtest (run_backtest's bookkeeping).
THEOREM BacktestInvariant == Spec => []BacktestInv
  BY InitInv, NextInv, PTL DEF Spec

\* No candle sequence makes run_backtest create or lose money.
THEOREM BalanceTheorem == Spec => []BalanceExplained
<1>1. BacktestInv => BalanceExplained
  BY DEF BacktestInv
<1>. QED
  BY <1>1, BacktestInvariant, PTL

\* A completed run reports the sums of its trade records.
THEOREM ReportTheorem == Spec => []ReportAddsUp
<1>1. BacktestInv => ReportAddsUp
  <2>. SUFFICES ASSUME BacktestInv, status = "COMPLETED" PROVE ReportAddsUp
    BY DEF ReportAddsUp
  <2>1. ~IsOpen(account) /\ account.position = Flat
    BY DEF BacktestInv
  <2>2. /\ account.fees \in Int /\ account.funding \in Int
        /\ account.net \in Int /\ StartingBalance \in Int
    BY BacktestAssumption DEF BacktestInv, TypeOK, Accounts, BacktestAssumption
  <2>. QED
    BY <2>1, <2>2
       DEF BacktestInv, BalanceExplained, Explained, Pending, Flat, ReportAddsUp
<1>. QED
  BY <1>1, BacktestInvariant, PTL

-----------------------------------------------------------------------------
\* What a position loses per unit at a price, in price units.
LossAt(pos, price) == Direction(pos.side) * (pos.entry - price)

\* A position is inside its liquidation level at a price: what it loses there
\* leaves at least the maintenance margin of what it locked.
Inside(pos, price) ==
  /\ Maintenance <= pos.entry
  /\ Leverage * LossAt(pos, price) <= pos.entry - Maintenance

InsideInv == IsOpen(account) => Inside(account.position, candle.close)

\* Fills slip by less than the maintenance margin pays for, at prices that
\* are worth more than both.
SlippageWithinMargin ==
  \A slip \in Slippages :
    /\ Leverage * slip <= Maintenance
    /\ \A c \in Candles, side \in {"LONG", "SHORT"} :
         /\ Maintenance <= EntryFill(c.close, side, slip)
         /\ Maintenance + Leverage * slip <= EntryFill(c.close, side, slip)

Positions == [quantity : Nat, side : {"LONG", "SHORT"}, entry : Int, fee : Int,
              funding : Int]

LEMMA ProductNat ==
  ASSUME NEW m \in Nat, NEW n \in Nat
  PROVE  m * n \in Nat
OBVIOUS

\* The liquidation level leaves the maintenance margin.
LEMMA LiquidationInside ==
  ASSUME NEW pos \in Positions
  PROVE  /\ LiquidationDistance(pos) \in Int
         /\ Leverage * LiquidationDistance(pos) <= pos.entry - Maintenance
<1>1. pos.entry \in Int /\ Maintenance \in Int /\ Leverage \in Nat \ {0}
  BY BacktestAssumption DEF BacktestAssumption, Positions
<1>. QED
  BY <1>1 DEF LiquidationDistance

\* An exit inside the level loses no more than was locked, slippage included.
LEMMA LossIsLocked ==
  ASSUME ~Spot, SlippageWithinMargin, NEW pos \in Positions, NEW price \in Int,
         NEW slip \in Slippages, Inside(pos, price)
  PROVE  -Gross(pos, ExitFill(price, pos.side, slip)) <= Locked(pos)
<1>. DEFINE q == pos.quantity
            e == pos.entry
            sign == Direction(pos.side)
            lost == Leverage * LossAt(pos, price) + Leverage * slip
<1>1. /\ q \in Nat /\ e \in Int /\ slip \in Int /\ Maintenance \in Int
      /\ Leverage \in Int /\ (sign = 1 \/ sign = -1)
  BY BacktestAssumption DEF BacktestAssumption, Positions, Direction
<1>2. lost \in Int /\ lost <= e
  BY <1>1 DEF Inside, LossAt, SlippageWithinMargin
<1>3. Gross(pos, ExitFill(price, pos.side, slip)) = (-lost) * q
  <2>1. Leverage * sign * ((price - sign * slip) - e) = -lost
    <3>1. CASE sign = 1
      BY <1>1, <3>1 DEF LossAt
    <3>2. CASE sign = -1
      BY <1>1, <3>2 DEF LossAt
    <3>. QED
      BY <1>1, <3>1, <3>2
  <2>. QED
    BY <2>1 DEF Gross, ExitFill
<1>4. Locked(pos) = e * q
  BY DEF Locked
<1>. HIDE DEF lost
<1>5. (e - lost) * q \in Nat
  BY <1>1, <1>2, ProductNat
<1>6. (e - lost) * q = e * q + (-lost) * q /\ e * q \in Int /\ (-lost) * q \in Int
  BY <1>1, <1>2
<1>. QED
  BY <1>3, <1>4, <1>5, <1>6

\* Whatever the candle does, the level that closes the position is inside, and
\* so is the close of a candle that does not close it.
LEMMA LevelInside ==
  ASSUME ~Spot, NEW pos \in Positions, Maintenance <= pos.entry, NEW c \in Candles
  PROVE  LET exit == ExitLevel(c, pos)
         IN  /\ exit.price \in Int
             /\ Inside(pos, exit.price)
             /\ exit.reason = "none" => exit.price = c.close
<1>. DEFINE exit == ExitLevel(c, pos)
            far == LiquidationDistance(pos)
            sign == Direction(pos.side)
            loss(d) == pos.entry - sign * d
            profit(d) == pos.entry + sign * d
<1>1. /\ pos.entry \in Int /\ pos.side \in {"LONG", "SHORT"}
      /\ c.low \in Int /\ c.close \in Int /\ c.high \in Int
      /\ c.low <= c.close /\ c.close <= c.high
      /\ StopDistance \in Nat /\ TakeDistance \in Nat
      /\ Maintenance \in Int /\ Leverage \in Nat
      /\ far \in Int /\ Leverage * far <= pos.entry - Maintenance
  BY BacktestAssumption, LiquidationInside DEF BacktestAssumption, Positions
<1>. HIDE DEF far
<1>2. \A d \in Int :
        d <= far \/ d <= 0 => Leverage * d <= pos.entry - Maintenance
  <2>. TAKE d \in Int
  <2>1. CASE d <= far
    <3>1. Leverage * (far - d) \in Nat
      BY <1>1, <2>1, ProductNat
    <3>2. Leverage * (far - d) = Leverage * far - Leverage * d
          /\ Leverage * far \in Int /\ Leverage * d \in Int
      BY <1>1
    <3>. QED
      BY <1>1, <3>1, <3>2
  <2>2. CASE d <= 0
    <3>1. Leverage * (0 - d) \in Nat
      BY <1>1, <2>2, ProductNat
    <3>2. Leverage * (0 - d) = 0 - Leverage * d /\ Leverage * d \in Int
      BY <1>1
    <3>. QED
      BY <1>1, <3>1, <3>2
  <2>. QED
    BY <2>1, <2>2
<1>3. \A price \in Int :
        LossAt(pos, price) <= far \/ LossAt(pos, price) <= 0 => Inside(pos, price)
  <2>1. \A price \in Int : LossAt(pos, price) \in Int
    BY <1>1 DEF LossAt, Direction
  <2>. QED
    BY <1>2, <2>1 DEF Inside
<1>4. \A d \in Int :
        /\ loss(d) \in Int /\ LossAt(pos, loss(d)) = d
        /\ profit(d) \in Int /\ LossAt(pos, profit(d)) = -d
  BY <1>1 DEF LossAt, Direction
<1>5. CASE Against(c, pos, far)
  <2>1. exit = [reason |-> "liquidation", price |-> loss(far)]
    BY <1>5 DEF ExitLevel, far
  <2>. QED
    BY <1>1, <1>3, <1>4, <2>1
<1>6. CASE ~Against(c, pos, far)
  <2>1. LossAt(pos, c.close) <= far
    BY <1>1, <1>6 DEF Against, LossAt, Direction
  <2>2. CASE Against(c, pos, StopDistance)
    <3>1. StopDistance <= far
      BY <1>1, <1>6, <2>2 DEF Against
    <3>2. exit = [reason |-> "stop_loss", price |-> loss(StopDistance)]
      BY <1>6, <2>2 DEF ExitLevel, far
    <3>. QED
      BY <1>1, <1>3, <1>4, <3>1, <3>2
  <2>3. CASE ~Against(c, pos, StopDistance)
    <3>1. exit.price \in {profit(TakeDistance), c.close}
          /\ (exit.reason = "none" => exit.price = c.close)
      BY <1>6, <2>3 DEF ExitLevel, far
    <3>2. LossAt(pos, profit(TakeDistance)) <= 0 /\ profit(TakeDistance) \in Int
      BY <1>1, <1>4
    <3>. QED
      BY <1>1, <1>3, <2>1, <3>1, <3>2
  <2>. QED
    BY <2>2, <2>3
<1>. QED
  BY <1>5, <1>6

\* What the trade records have earned before fees and funding.
Booked(a) == a.net + a.fees + a.funding

\* Funding books nothing and leaves the position's price, side and size.
LEMMA FundedBooks ==
  ASSUME NEW a \in Accounts, NEW rate \in FundingRates
  PROVE  LET f == Funded(a, rate)
         IN  /\ f \in Accounts /\ Booked(f) = Booked(a)
             /\ f.position.quantity = a.position.quantity
             /\ f.position.side = a.position.side
             /\ f.position.entry = a.position.entry
<1>. DEFINE charge == Charge(a.position, rate)
<1>1. charge \in Int
  BY PositionInt, BacktestAssumption DEF BacktestAssumption
<1>2. CASE ~IsOpen(a) \/ Spot
  BY <1>2 DEF Funded
<1>3. CASE ~(~IsOpen(a) \/ Spot)
  <2>1. Funded(a, rate) = [a EXCEPT !.balance = @ - charge,
                                    !.position.funding = @ + charge]
    BY <1>3 DEF Funded
  <2>. HIDE DEF charge
  <2>. DEFINE moved == [a.position EXCEPT !.funding = @ + charge]
              balance == a.balance - charge
  <2>2. /\ moved \in Positions /\ moved.quantity = a.position.quantity
        /\ moved.side = a.position.side /\ moved.entry = a.position.entry
        /\ balance \in Int
    BY <1>1 DEF Accounts, Positions
  <2>3. Funded(a, rate) = [a EXCEPT !.balance = balance, !.position = moved]
    BY <2>1 DEF Accounts
  <2>. HIDE DEF moved, balance
  <2>. QED
    BY <2>2, <2>3 DEF Accounts, Positions, Booked
<1>. QED
  BY <1>2, <1>3

\* An exit books its gross profit and leaves the account flat.
LEMMA ExitedBooks ==
  ASSUME NEW a \in Accounts, NEW price \in Int
  PROVE  /\ Exited(a, price) \in Accounts
         /\ Booked(Exited(a, price)) = Booked(a) + Gross(a.position, price)
         /\ Exited(a, price).position = Flat
<1>. DEFINE pos == a.position
            fee == Fee(price, pos.quantity)
            gross == Gross(pos, price)
            new == Exited(a, price)
<1>1. /\ a.net \in Int /\ a.fees \in Int /\ a.funding \in Int
      /\ pos.fee \in Int /\ pos.funding \in Int /\ pos.quantity \in Nat
  BY DEF Accounts
<1>2. fee \in Int /\ gross \in Int
  BY <1>1, AmountsInt, PositionInt
<1>3. /\ new.net = a.net + (gross - pos.fee - fee - pos.funding)
      /\ new.fees = a.fees + (pos.fee + fee)
      /\ new.funding = a.funding + pos.funding
      /\ new.position = Flat
  BY DEF Exited
<1>. HIDE DEF fee, gross
<1>4. new \in Accounts
  <2>1. Notional(price, pos.quantity) \in Int /\ Locked(pos) \in Int
    BY <1>1, AmountsInt, PositionInt
  <2>2. Returned(pos, price) \in Int
    BY <1>2, <2>1 DEF Returned, gross
  <2>3. Flat \in [quantity : Nat, side : {"LONG", "SHORT"},
                  entry : Int, fee : Int, funding : Int]
    BY DEF Flat
  <2>4. new.balance = a.balance + Returned(pos, price) - fee
    BY DEF Exited, fee
  <2>5. new = [balance |-> new.balance, position |-> new.position, net |-> new.net,
               fees |-> new.fees, funding |-> new.funding]
    BY DEF Exited
  <2>. HIDE DEF new, pos
  <2>6. a.balance \in Int
    BY DEF Accounts
  <2>7. /\ new.balance \in Int /\ new.net \in Int /\ new.fees \in Int
        /\ new.funding \in Int
    BY <1>1, <1>2, <1>3, <2>2, <2>4, <2>6
  <2>. QED
    BY <1>3, <2>3, <2>5, <2>7 DEF Accounts
<1>. HIDE DEF pos, new
<1>5. new.net + new.fees + new.funding = (a.net + a.fees + a.funding) + gross
  BY <1>1, <1>2, <1>3
<1>. QED
  BY <1>3, <1>5, <1>4 DEF Booked, gross, pos, new

\* An entry books nothing.
LEMMA EnteredBooks ==
  ASSUME NEW a \in Accounts, NEW c, NEW pos
  PROVE  /\ Booked(Entered(a, c, pos)) = Booked(a)
         /\ Entered(a, c, pos).position = IF CanEnter(a, c, pos) THEN pos ELSE a.position
BY DEF Entered, Booked, Accounts

\* What is bought at the close of a candle is inside at that close.
LEMMA EntryInside ==
  ASSUME SlippageWithinMargin, NEW c \in Candles, c.entry \in {"LONG", "SHORT"},
         NEW slip \in Slippages, NEW qty
  PROVE  Inside(Bought(EntryFill(c.close, c.entry, slip), c.entry, qty), c.close)
<1>. DEFINE fill == EntryFill(c.close, c.entry, slip)
            pos == Bought(fill, c.entry, qty)
            sign == Direction(c.entry)
<1>1. /\ c.close \in Int /\ slip \in Int /\ (sign = 1 \/ sign = -1)
      /\ Maintenance \in Int /\ Leverage \in Int
  BY BacktestAssumption DEF BacktestAssumption, Direction
<1>2. pos.entry = fill /\ pos.side = c.entry
  BY DEF Bought
<1>3. fill = c.close + sign * slip
  BY DEF EntryFill
<1>4. Maintenance <= fill /\ Maintenance + Leverage * slip <= fill
  BY DEF SlippageWithinMargin
<1>. HIDE DEF fill
<1>5. LossAt(pos, c.close) = sign * (fill - c.close)
  BY <1>2 DEF LossAt
<1>. HIDE DEF pos, sign
<1>6. LossAt(pos, c.close) = slip /\ fill \in Int
  BY <1>1, <1>3, <1>5
<1>7. Leverage * slip \in Int
  BY <1>1
<1>8. Leverage * LossAt(pos, c.close) <= fill - Maintenance
  BY <1>1, <1>4, <1>6, <1>7
<1>. QED
  BY <1>2, <1>4, <1>8 DEF Inside, pos, fill

\* The loss a step may book.
LossBounded ==
  LET lost == Booked(account) - Booked(account')
  IN lost > 0 => lost <= Locked(account.position)

\* A candle books no more than was locked, and leaves what is open inside.
LEMMA BarInside ==
  ASSUME ~Spot, SlippageWithinMargin, BacktestInv, InsideInv,
         NEW c \in Candles, NEW rate \in FundingRates, NEW qty \in Quantities,
         NEW slipOut \in Slippages, NEW slipIn \in Slippages,
         ProcessBar(c, rate, qty, slipOut, slipIn)
  PROVE  InsideInv' /\ LossBounded
<1>. DEFINE funded == Funded(account, rate)
            held == account.position
            exit == ExitLevel(c, held)
            closes == IsOpen(account) /\ exit.reason # "none"
            out == ExitFill(exit.price, held.side, slipOut)
            exited == IF closes THEN Exited(funded, out) ELSE funded
            pos == Bought(EntryFill(c.close, c.entry, slipIn), c.entry, qty)
<1>1. account \in Accounts /\ held \in Positions
  BY DEF BacktestInv, TypeOK, Accounts, Positions
<1>2. /\ funded \in Accounts /\ Booked(funded) = Booked(account)
      /\ funded.position.quantity = held.quantity
      /\ funded.position.side = held.side
      /\ funded.position.entry = held.entry
  BY <1>1, FundedBooks
<1>3. account' = Entered(exited, c, pos) /\ candle' = c
  BY DEF ProcessBar
<1>4. out \in Int /\ Gross(held, out) \in Int /\ Gross(funded.position, out) = Gross(held, out)
  <2>1. out \in Int
    BY <1>1, ExitPriceInt
  <2>. QED
    BY <1>1, <1>2, <2>1, PositionInt DEF Gross
<1>5. Booked(account) \in Int
  BY <1>1 DEF Booked, Accounts
<1>6. IsOpen(account) => /\ exit.price \in Int /\ Inside(held, exit.price)
                         /\ exit.reason = "none" => exit.price = c.close
  BY <1>1, LevelInside DEF InsideInv, Inside
<1>. HIDE DEF funded, exit, out
<1>7. CASE closes
  <2>1. /\ Booked(exited) = Booked(account) + Gross(held, out)
        /\ exited.position = Flat /\ exited \in Accounts
    BY <1>2, <1>4, <1>7, ExitedBooks
  <2>2. Locked(held) \in Int /\ -Gross(held, out) <= Locked(held)
    BY <1>1, <1>4, <1>6, <1>7, LossIsLocked, PositionInt DEF out
  <2>3. Booked(account') = Booked(exited)
    BY <1>3, <2>1, EnteredBooks
  <2>4. LossBounded
    BY <1>4, <1>5, <2>1, <2>2, <2>3 DEF LossBounded
  <2>5. CASE CanEnter(exited, c, pos)
    <3>1. account'.position = pos
      BY <1>3, <2>1, <2>5, EnteredBooks
    <3>2. Inside(pos, c.close)
      BY <2>5, EntryInside, BacktestAssumption DEF CanEnter, BacktestAssumption
    <3>. QED
      BY <1>3, <2>4, <3>1, <3>2 DEF InsideInv
  <2>6. CASE ~CanEnter(exited, c, pos)
    <3>1. account'.position = Flat
      BY <1>3, <2>1, <2>6, EnteredBooks
    <3>2. ~IsOpen(account')
      BY <3>1 DEF IsOpen, Flat
    <3>. QED
      BY <2>4, <3>2 DEF InsideInv, IsOpen
  <2>. QED
    BY <2>5, <2>6
<1>8. CASE ~closes
  <2>1. exited = funded
    BY <1>8
  <2>2. Booked(account') = Booked(account)
    BY <1>2, <1>3, <2>1, EnteredBooks
  <2>3. LossBounded
    BY <1>5, <2>2 DEF LossBounded
  <2>4. CASE CanEnter(exited, c, pos)
    <3>1. account'.position = pos
      BY <1>2, <1>3, <2>1, <2>4, EnteredBooks
    <3>2. Inside(pos, c.close)
      BY <2>4, EntryInside, BacktestAssumption DEF CanEnter, BacktestAssumption
    <3>. QED
      BY <1>3, <2>3, <3>1, <3>2 DEF InsideInv
  <2>5. CASE ~CanEnter(exited, c, pos)
    <3>1. account'.position = funded.position
      BY <1>2, <1>3, <2>1, <2>5, EnteredBooks
    <3>2. IsOpen(account)' => Inside(held, c.close)
      BY <1>2, <1>6, <1>8, <3>1 DEF IsOpen
    <3>3. Inside(held, c.close) => Inside(funded.position, c.close)
      BY <1>2 DEF Inside, LossAt
    <3>. QED
      BY <1>3, <2>3, <3>1, <3>2, <3>3 DEF InsideInv
  <2>. QED
    BY <2>4, <2>5
<1>. QED
  BY <1>7, <1>8

\* The end of the run books no more than was locked, and leaves nothing open.
LEMMA FinishInside ==
  ASSUME ~Spot, SlippageWithinMargin, BacktestInv, InsideInv,
         NEW slip \in Slippages, Finish(slip)
  PROVE  InsideInv' /\ LossBounded
<1>. DEFINE held == account.position
            out == ExitFill(candle.close, held.side, slip)
<1>1. /\ account \in Accounts /\ held \in Positions /\ candle.close \in Int
      /\ candle \in Candles
  BY BacktestAssumption DEF BacktestInv, TypeOK, Accounts, Positions, BacktestAssumption
<1>2. Booked(account) \in Int
  BY <1>1 DEF Booked, Accounts
<1>3. CASE IsOpen(account)
  <2>1. account' = Exited(account, out)
    BY <1>3 DEF Finish
  <2>2. out \in Int /\ Gross(held, out) \in Int /\ Locked(held) \in Int
    <3>1. out \in Int
      BY <1>1, ExitPriceInt
    <3>. QED
      BY <1>1, <3>1, PositionInt
  <2>3. -Gross(held, out) <= Locked(held)
    BY <1>1, <1>3, LossIsLocked DEF InsideInv
  <2>4. /\ Booked(account') = Booked(account) + Gross(held, out)
        /\ account'.position = Flat
    BY <1>1, <2>1, <2>2, ExitedBooks
  <2>5. LossBounded
    BY <1>2, <2>2, <2>3, <2>4 DEF LossBounded
  <2>. QED
    BY <2>4, <2>5 DEF InsideInv, IsOpen, Flat
<1>4. CASE ~IsOpen(account)
  <2>1. account' = account
    BY <1>4 DEF Finish
  <2>. QED
    BY <1>2, <1>4, <2>1 DEF InsideInv, IsOpen, LossBounded, Booked
<1>. QED
  BY <1>3, <1>4

\* Every step of a perpetual's backtest keeps what is open inside its level,
\* and books no more than was locked.
LEMMA NextInside ==
  ASSUME ~Spot, SlippageWithinMargin, BacktestInv, InsideInv, [Next]_vars
  PROVE  InsideInv' /\ LossBounded
<1>1. Booked(account) \in Int
  BY DEF BacktestInv, TypeOK, Accounts, Booked
<1>2. CASE \E c \in Candles, rate \in FundingRates, qty \in Quantities,
             slipOut \in Slippages, slipIn \in Slippages :
             ProcessBar(c, rate, qty, slipOut, slipIn)
  BY <1>2, BarInside
<1>3. CASE \E slip \in Slippages : Finish(slip)
  BY <1>3, FinishInside
<1>4. CASE Fail \/ UNCHANGED vars
  <2>1. account' = account /\ candle' = candle
    BY <1>4 DEF Fail, vars
  <2>. QED
    BY <1>1, <2>1 DEF InsideInv, IsOpen, LossBounded, Booked
<1>. QED
  BY <1>2, <1>3, <1>4 DEF Next

\* On every perpetual whose fills slip by less than its maintenance margin pays
\* for, a closed position never loses more than it had locked: run_backtest looks
\* at the liquidation level before the stop (backtest_service.py:144).
THEOREM LossTheorem ==
  ASSUME ~Spot, SlippageWithinMargin
  PROVE  Spec => LossWithinMargin
<1>1. Init => InsideInv
  BY DEF Init, InsideInv, IsOpen, Flat
<1>2. BacktestInv /\ InsideInv /\ [Next]_vars => InsideInv'
  BY NextInside
<1>3. BacktestInv /\ InsideInv /\ [Next]_vars =>
        [LET lost == (account.net + account.fees + account.funding)
                     - (account'.net + account'.fees + account'.funding)
         IN lost > 0 => lost <= Locked(account.position)]_vars
  BY NextInside DEF LossBounded, Booked
<1>. QED
  BY <1>1, <1>2, <1>3, BacktestInvariant, PTL DEF Spec, LossWithinMargin
=============================================================================
