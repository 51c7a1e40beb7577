--------------------------- MODULE PortfolioAccount ---------------------------
(***************************************************************************)
(* The portfolio row that PortfolioService.recalculate_state               *)
(* (app/services/portfolio_service.py) rewrites from the trade rows and    *)
(* the open position rows, on top of the handlers of PositionLedger.       *)
(***************************************************************************)
EXTENDS PositionLedger, FiniteSets

CONSTANT StartingBalance

ASSUME AccountAssumption ==
  /\ StartingBalance \in Nat
  /\ IsFiniteSet(Positions)

VARIABLE portfolio

accountVars == <<position, trades, portfolio>>

-----------------------------------------------------------------------------
OpenRows(rows) == {p \in Positions : rows[p].status = "OPEN"}

\* Sums over all trade rows and over the open position rows.
CashBalance(sums) ==
  StartingBalance + SumFunction([p \in Positions |-> sums[p].cash])

RealizedPnl(sums) == SumFunction([p \in Positions |-> sums[p].realized])

SumOpen(rows, amount) == SumFunctionOnSet(amount, OpenRows(rows))

\* Mutant: the collateral of a margined position is left out of equity.
ContributionNoCollateral(row) ==
  IF PaidInFull(row.key, row.side) THEN Notional(row.price, row.quantity)
  ELSE Pnl(row, row.price, row.quantity)

\* What an open row adds to equity: a position paid in full its whole value, a
\* margined one its collateral and its unrealized PnL.
Contribution(row) ==
  IF PaidInFull(row.key, row.side) THEN Notional(row.price, row.quantity)
  ELSE row.collateral + Pnl(row, row.price, row.quantity)

Equity(rows, sums) ==
  CashBalance(sums) + SumOpen(rows, [p \in Positions |-> Contribution(rows[p])])

AtLeast(x, y) == IF x < y THEN y ELSE x

UnrealizedOf(rows) == [p \in Positions |-> rows[p].unrealized]
MarginOf(rows) ==
  [p \in Positions |->
     IF PaidInFull(rows[p].key, rows[p].side) THEN 0 ELSE rows[p].collateral]
GrossOf(rows) == [p \in Positions |-> Notional(rows[p].price, rows[p].quantity)]
NetOf(rows) == [p \in Positions |-> Direction(rows[p].side) * GrossOf(rows)[p]]

\* The row recalculate_state writes over one whose peak was `peak'.
Recalculated(rows, sums, peak) ==
  LET equity == Equity(rows, sums)
  IN [cash |-> CashBalance(sums),
      realized |-> RealizedPnl(sums),
      unrealized |-> SumOpen(rows, UnrealizedOf(rows)),
      margin |-> SumOpen(rows, MarginOf(rows)),
      gross |-> SumOpen(rows, GrossOf(rows)),
      net |-> SumOpen(rows, NetOf(rows)),
      equity |-> equity,
      peak |-> AtLeast(peak, equity)]

-----------------------------------------------------------------------------
\* The row after the recalculations a handler commits one after the other while
\* it looks for the symbol at these prices: only the peak remembers the first.
MarkedTwice(s, first, second) ==
  LET before == Recalculated(MarkAll(position, s, first), trades, portfolio.peak)
  IN Recalculated(MarkAll(position, s, second), trades, before.peak)

\* submit_entry_order recalculates at the reference price before it sizes the
\* order, evaluate_entry at the price it checks (the limit price of a limit
\* order), and submit_entry_order at the fill price once the fill is committed.
AccountEnter(p) ==
  \E k \in Keys, side \in Sides, ref \in Prices, check \in Prices,
     price \in Prices, want \in Quantities :
    \E qty \in 1 .. want :
      /\ RecordEntryFill(p, k, side, check, want, price, qty)
      /\ portfolio' = Recalculated(position', trades',
                                   MarkedTwice(SymbolOf[k], ref, check).peak)

AccountExit(p) ==
  /\ Exit(p)
  /\ portfolio' = Recalculated(position', trades', portfolio.peak)

AccountFunding(p) ==
  /\ \E rate \in FundingRates : RecordFundingCharge(p, rate)
  /\ UNCHANGED portfolio

\* A recalculation by itself, or the two of an entry that comes to nothing.
AccountMark ==
  \E s \in Symbols, first \in Prices, price \in Prices :
    /\ MarkToMarket(s, price)
    /\ portfolio' = MarkedTwice(s, first, price)

AccountInit ==
  /\ LedgerInit
  /\ portfolio = [cash |-> StartingBalance, realized |-> 0, unrealized |-> 0,
                  margin |-> 0, gross |-> 0, net |-> 0,
                  equity |-> StartingBalance, peak |-> StartingBalance]

AccountNext ==
  \/ \E p \in Positions : AccountEnter(p)
  \/ \E p \in Positions : AccountExit(p)
  \/ \E p \in Positions : AccountFunding(p)
  \/ AccountMark

AccountSpec == AccountInit /\ [][AccountNext]_accountVars

-----------------------------------------------------------------------------
\* The equity an operator reads is the starting balance, plus what was realized,
\* plus what is unrealized, less the entry fees the exits have yet to absorb,
\* but for the funding that spot exits leave in cash: collateral taken from cash
\* and given to margin never leaves the account.
EquityExplained ==
  LET now == Recalculated(position, trades, 0)
      pendingFee == [p \in Positions |->
                       Fee(position[p].entryPrice, position[p].quantity)]
      gap == [p \in Positions |-> SpotGap(position[p], trades[p])]
  IN now.equity = StartingBalance + now.realized + now.unrealized
                  - SumOpen(position, pendingFee) + SumFunction(gap)

\* A trade of a position never charged funding changes the equity at its price
\* by its fee and nothing else: entries do not create money and exits, whole or
\* partial, do not leak it.
TradeCostsOnlyItsFee ==
  [][\A p \in Positions :
       trades'[p] # trades[p] /\ trades'[p].charges = 0 =>
         LET marked == MarkAll(position, SymbolOf[position'[p].key],
                               position'[p].price)
             fees == trades'[p].entryFee + trades'[p].exitFee
                     - trades[p].entryFee - trades[p].exitFee
         IN Equity(position', trades') = Equity(marked, trades) - fees]_accountVars
=============================================================================
