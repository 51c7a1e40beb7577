---------------------------- MODULE PositionLedger ----------------------------
(***************************************************************************)
(* The position rows and the trade rows that ExecutionService and          *)
(* RiskService write (app/services/execution_service.py, risk_service.py), *)
(* one action per committed handler of ONE database session at a time.     *)
(*                                                                         *)
(* Money is an integer count of 1/Leverage-th of a price unit, so that     *)
(* notional / leverage, fees and every pro-rata share are exact; a         *)
(* quantity counts the smallest step a fill may have, and Lot of those     *)
(* make one tradable lot.  `trades' keeps, per position, the column sums   *)
(* of its append-only trade rows, which is all the code ever reads back.   *)
(***************************************************************************)
EXTENDS Integers, Functions

CONSTANTS
  Positions,        \* primary keys of the positions table
  Keys,             \* (strategy instance, symbol, instrument) triples
  Symbols,
  SymbolOf,         \* symbol of a key
  InstrumentOf,     \* instrument type of a key
  Prices,           \* prices of fills, candles and quotes
  Quantities,       \* quantities an entry may ask for
  Lot,              \* instrument.lot_size
  MinNotional,      \* instrument.min_notional, in price * quantity
  Leverage,         \* leverage of the perpetual orders
  FeeRate,          \* fee per price * quantity
  FundingRates,     \* funding charged per unit of quantity
  MaxCharges        \* bound: funding charges in all

ASSUME LedgerAssumption ==
  /\ Keys # {}
  /\ SymbolOf \in [Keys -> Symbols]
  /\ InstrumentOf \in [Keys -> {"SPOT", "PERPETUAL"}]
  /\ Prices \subseteq Nat \ {0}
  /\ Quantities \subseteq Nat \ {0}
  /\ Lot \in Nat \ {0}
  /\ MinNotional \in Nat
  /\ Leverage \in Nat \ {0}
  /\ FeeRate \in Nat
  /\ FundingRates \subseteq Int
  /\ MaxCharges \in Nat

VARIABLES
  position,         \* the position row of each primary key
  trades            \* per position, the sums over its trade rows

ledgerVars == <<position, trades>>

-----------------------------------------------------------------------------
Sides == {"LONG", "SHORT"}

Row == [status : {"NONE", "OPEN", "CLOSED"},
        key : Keys, side : Sides,
        quantity : Nat, entryPrice : Nat, price : Nat,
        entryNotional : Int, collateral : Int, funding : Int,
        unrealized : Int, realized : Int]

AnyKey == CHOOSE k \in Keys : TRUE

\* A primary key no entry has used yet.
NoRow == [status |-> "NONE", key |-> AnyKey, side |-> "LONG",
          quantity |-> 0, entryPrice |-> 0, price |-> 0,
          entryNotional |-> 0, collateral |-> 0, funding |-> 0,
          unrealized |-> 0, realized |-> 0]

Sums == [entryQty : Nat, exitQty : Nat,        \* SUM(quantity) by action
         entryFee : Int, exitFee : Int,        \* SUM(fee_paid) by action
         exitNotional : Int,                   \* SUM(notional) of the exits
         exitFunding : Int,                    \* SUM(funding_cost) of the exits
         charges : Nat,                        \* number of FUNDING trades
         cash : Int, realized : Int]           \* SUM(cash_flow), SUM(realized_pnl)

NoSums == [entryQty |-> 0, exitQty |-> 0, entryFee |-> 0, exitFee |-> 0,
           exitNotional |-> 0, exitFunding |-> 0, charges |-> 0,
           cash |-> 0, realized |-> 0]

IsOpen(p) == position[p].status = "OPEN"

OpenPositions == {p \in Positions : IsOpen(p)}

Direction(side) == IF side = "SHORT" THEN -1 ELSE 1

Notional(price, qty) == Leverage * price * qty

Fee(price, qty) == FeeRate * price * qty

\* A perpetual locks notional / leverage; a spot position locks nothing.
Collateral(k, price, qty) ==
  IF InstrumentOf[k] = "PERPETUAL" THEN price * qty ELSE 0

\* Spot longs are paid for in full; everything else is margined.
PaidInFull(k, side) == InstrumentOf[k] = "SPOT" /\ side = "LONG"

\* Mutant: the whole of the total goes with every part (lessons.md, line 43).
ShareOfAll(total, part, whole) == total

\* The share of a total that goes with `part' out of `whole'.
Share(total, part, whole) == IF whole = 0 THEN 0 ELSE (total * part) \div whole

RoundToLot(qty) == Lot * (qty \div Lot)

AtLeast0(x) == IF x < 0 THEN 0 ELSE x

\* instrument_service.normalize_order accepts the quantity at this price.
Tradable(qty, price) == qty > 0 /\ qty * price >= MinNotional

Pnl(row, price, qty) ==
  Leverage * Direction(row.side) * (price - row.entryPrice) * qty

\* Mutant: closed rows are marked to the market too.
MarkedClosedToo(row, s, price) ==
  LET last == IF SymbolOf[row.key] = s THEN price ELSE row.price
  IN IF row.status = "NONE" THEN row
     ELSE [row EXCEPT !.price = last, !.unrealized = Pnl(row, last, row.quantity)]

\* recalculate_state on one row: an open one takes the latest price of its
\* symbol, or keeps its own, and has its unrealized PnL rewritten.
Marked(row, s, price) ==
  LET last == IF SymbolOf[row.key] = s THEN price ELSE row.price
  IN IF row.status # "OPEN" THEN row
     ELSE [row EXCEPT !.price = last, !.unrealized = Pnl(row, last, row.quantity)]

MarkAll(rows, s, price) == [p \in Positions |-> Marked(rows[p], s, price)]

-----------------------------------------------------------------------------
\* Mutant: a margined entry pays no fee.
EntryCashFlowNoFee(k, side, price, qty) ==
  IF PaidInFull(k, side)
  THEN -(Notional(price, qty) + Fee(price, qty))
  ELSE -Collateral(k, price, qty)

EntryCashFlow(k, side, price, qty) ==
  IF PaidInFull(k, side)
  THEN -(Notional(price, qty) + Fee(price, qty))
  ELSE -(Collateral(k, price, qty) + Fee(price, qty))

OpenedRow(k, side, price, qty) ==
  [status |-> "OPEN", key |-> k, side |-> side,
   quantity |-> qty, entryPrice |-> price, price |-> price,
   entryNotional |-> Notional(price, qty),
   collateral |-> Collateral(k, price, qty),
   funding |-> 0, unrealized |-> 0, realized |-> 0]

OpenedSums(k, side, price, qty) ==
  [entryQty |-> qty, exitQty |-> 0,
   entryFee |-> Fee(price, qty), exitFee |-> 0, exitNotional |-> 0,
   exitFunding |-> 0, charges |-> 0,
   cash |-> EntryCashFlow(k, side, price, qty), realized |-> 0]

\* submit_entry_order with a fill: the order asked for `want' at `ref', the
\* exchange filled `qty' of it at `price'.
RecordEntryFill(p, k, side, ref, want, price, qty) ==
  /\ position[p].status = "NONE"
  /\ \A o \in OpenPositions : position[o].key # k
  /\ InstrumentOf[k] = "SPOT" => side = "LONG"
  /\ Tradable(RoundToLot(want), ref)
  /\ qty \in 1 .. RoundToLot(want)
  /\ position' = MarkAll([position EXCEPT ![p] = OpenedRow(k, side, price, qty)],
                         SymbolOf[k], price)
  /\ trades' = [trades EXCEPT ![p] = OpenedSums(k, side, price, qty)]

-----------------------------------------------------------------------------
\* What one exit fill books, computed from the row before it is touched.
ExitBooking(row, sums, price, filled) ==
  LET closed == IF filled < row.quantity THEN filled ELSE row.quantity
      gross == Pnl(row, price, closed)
      feePaid == Fee(price, filled)
      entryFeeAlloc == Share(sums.entryFee, closed, sums.entryQty)
      fundingAlloc == Share(row.funding, closed, row.quantity)
      release == Share(row.collateral, closed, row.quantity)
      exitNotional == Notional(price, closed)
  IN [closed |-> closed, fee |-> feePaid, fundingAlloc |-> fundingAlloc,
      release |-> release, notional |-> exitNotional,
      realized |-> gross - entryFeeAlloc - feePaid - fundingAlloc,
      cash |-> IF PaidInFull(row.key, row.side)
               THEN exitNotional - feePaid
               ELSE release + gross - feePaid - fundingAlloc]

ReducedRow(row, b, price) ==
  LET rest == AtLeast0(row.quantity - b.closed)
  IN [status |-> IF rest = 0 THEN "CLOSED" ELSE "OPEN",
      key |-> row.key, side |-> row.side,
      quantity |-> rest, entryPrice |-> row.entryPrice, price |-> price,
      entryNotional |-> Notional(row.entryPrice, rest),
      collateral |-> AtLeast0(row.collateral - b.release),
      funding |-> AtLeast0(row.funding - b.fundingAlloc),
      unrealized |-> Pnl(row, price, rest),
      realized |-> row.realized + b.realized]

\* Mutant: an exit is booked as a purchase given back.
AddExitBack(sums, b) ==
  [entryQty |-> sums.entryQty, exitQty |-> sums.exitQty - b.closed,
   entryFee |-> sums.entryFee, exitFee |-> sums.exitFee + b.fee,
   exitNotional |-> sums.exitNotional + b.notional,
   exitFunding |-> sums.exitFunding + b.fundingAlloc, charges |-> sums.charges,
   cash |-> sums.cash + b.cash, realized |-> sums.realized + b.realized]

AddExit(sums, b) ==
  [entryQty |-> sums.entryQty, exitQty |-> sums.exitQty + b.closed,
   entryFee |-> sums.entryFee, exitFee |-> sums.exitFee + b.fee,
   exitNotional |-> sums.exitNotional + b.notional,
   exitFunding |-> sums.exitFunding + b.fundingAlloc, charges |-> sums.charges,
   cash |-> sums.cash + b.cash, realized |-> sums.realized + b.realized]

\* close_position with a fill: whole or partial, then recalculate_state.
ClosePosition(p, ref, price, filled) ==
  /\ IsOpen(p)
  /\ Tradable(RoundToLot(position[p].quantity), ref)
  /\ filled \in 1 .. RoundToLot(position[p].quantity)
  /\ LET b == ExitBooking(position[p], trades[p], price, filled)
     IN /\ position' = MarkAll([position EXCEPT ![p] = ReducedRow(@, b, price)],
                               SymbolOf[position[p].key], price)
        /\ trades' = [trades EXCEPT ![p] = AddExit(@, b)]

-----------------------------------------------------------------------------
AddFunding(sums, charge) ==
  [sums EXCEPT !.charges = @ + 1, !.cash = @ - charge, !.realized = @ - charge]

\* risk_service.record_funding_charge of any position that has trades, closed
\* and spot ones too: a FUNDING trade, and the same amount on the row, which
\* later exits subtract again.  No mark follows it.  The caller names the
\* amount: per unit of what is held, so that its shares are exact, or of
\* nothing when the row is closed.
RecordFundingCharge(p, rate) ==
  LET charge == IF position[p].quantity = 0 THEN rate ELSE rate * position[p].quantity
  IN /\ position[p].status # "NONE"
     /\ SumFunction([o \in Positions |-> trades[o].charges]) < MaxCharges
     /\ position' = [position EXCEPT ![p].funding = @ + charge]
     /\ trades' = [trades EXCEPT ![p] = AddFunding(@, charge)]

\* recalculate_state by itself: pnl_summary, a hold, a rejected or a resting
\* entry, all of which only mark the open rows.
MarkToMarket(s, price) ==
  /\ position' = MarkAll(position, s, price)
  /\ UNCHANGED trades

-----------------------------------------------------------------------------
LedgerInit ==
  /\ position = [p \in Positions |-> NoRow]
  /\ trades = [p \in Positions |-> NoSums]

Enter(p) ==
  \E k \in Keys, side \in Sides, ref \in Prices, price \in Prices,
     want \in Quantities :
    \E qty \in 1 .. want : RecordEntryFill(p, k, side, ref, want, price, qty)

Exit(p) ==
  \E ref \in Prices, price \in Prices :
    \E filled \in 1 .. position[p].quantity : ClosePosition(p, ref, price, filled)

LedgerNext ==
  \/ \E p \in Positions : Enter(p)
  \/ \E p \in Positions : Exit(p)
  \/ \E p \in Positions, rate \in FundingRates : RecordFundingCharge(p, rate)
  \/ \E s \in Symbols, price \in Prices : MarkToMarket(s, price)

LedgerSpec == LedgerInit /\ [][LedgerNext]_ledgerVars

-----------------------------------------------------------------------------
\* Every row and every sum has its type: no quantity of a row and no sum of
\* quantities ever goes negative.
LedgerTypeOK ==
  /\ position \in [Positions -> Row]
  /\ trades \in [Positions -> Sums]

\* What the row still holds of the account's money.
Held(row) ==
  IF PaidInFull(row.key, row.side) THEN row.entryNotional ELSE row.collateral

\* Spot exits take their share of a charge from the PnL and not from the cash
\* (_exit_cash_flow), so what they took is a gap between the two.
SpotGap(row, sums) ==
  IF PaidInFull(row.key, row.side) THEN sums.exitFunding ELSE 0

\* Cash and PnL tell one story: however an entry is split over partial exits,
\* and whenever it is charged funding, the cash a position has moved is the PnL
\* it has realized, less what it still holds, less the entry fee not yet charged
\* to an exit, but for the shares of funding that spot exits leave in cash.
CashIsRealizedLessHeld ==
  \A p \in Positions :
    trades[p].cash = trades[p].realized - Held(position[p])
                     - Fee(position[p].entryPrice, position[p].quantity)
                     + SpotGap(position[p], trades[p])

\* The exits never sell what was not bought, and a row is CLOSED exactly when
\* all of it has been sold; then it locks no collateral and no notional.
QuantityConserved ==
  \A p \in Positions :
    /\ trades[p].entryQty = trades[p].exitQty + position[p].quantity
    /\ IsOpen(p) => position[p].quantity > 0
    /\ position[p].status = "CLOSED" =>
         /\ position[p].quantity = 0
         /\ position[p].collateral = 0
         /\ position[p].entryNotional = 0

\* The inductive invariant: what each row and its trades say of each other.
RowConsistent(row, sums) ==
  IF row.status = "NONE" THEN row = NoRow /\ sums = NoSums
  ELSE
    /\ row.status = "OPEN" <=> row.quantity > 0
    /\ sums.entryQty > 0
    /\ sums.entryQty = sums.exitQty + row.quantity
    /\ sums.entryFee = Fee(row.entryPrice, sums.entryQty)
    /\ row.entryNotional = Notional(row.entryPrice, row.quantity)
    /\ row.collateral = Collateral(row.key, row.entryPrice, row.quantity)
    /\ InstrumentOf[row.key] = "SPOT" => row.side = "LONG"
    /\ sums.charges = 0 => row.funding = 0 /\ sums.exitFunding = 0
    /\ sums.cash = sums.realized - Held(row) - Fee(row.entryPrice, row.quantity)
                     + SpotGap(row, sums)

LedgerInv ==
  /\ LedgerTypeOK
  /\ \A p \in Positions : RowConsistent(position[p], trades[p])

\* A closed position that was never charged funding has earned, in cash and in
\* realized PnL alike, the move of its price from entry to exit less the fees of
\* both sides, however many fills sold it.  One that was charged pays the charge
\* twice: its FUNDING trade books it and the exits subtract it again.
UnfundedProfitIsExact ==
  \A p \in Positions :
    position[p].status = "CLOSED" /\ trades[p].charges = 0 =>
      LET entryNotional == Notional(position[p].entryPrice, trades[p].entryQty)
          profit == Direction(position[p].side)
                      * (trades[p].exitNotional - entryNotional)
                    - trades[p].entryFee - trades[p].exitFee
      IN trades[p].cash = profit /\ trades[p].realized = profit

\* What makes UnfundedProfitIsExact inductive: the realized PnL explains the
\* exits so far, whatever their number.
ProfitConsistent(row, sums) ==
  row.status # "NONE" /\ sums.charges = 0 =>
    sums.realized =
      Direction(row.side)
        * (sums.exitNotional - Notional(row.entryPrice, sums.exitQty))
      - Fee(row.entryPrice, sums.exitQty) - sums.exitFee

ProfitInv == \A p \in Positions : ProfitConsistent(position[p], trades[p])

\* A closed row is history but for funding: no entry, exit or mark changes it or
\* books to it, and a late charge moves the row and its trades by one amount.
ClosedIsOnlyCharged ==
  [][\A p \in Positions :
       position[p].status = "CLOSED" =>
         LET charge == position'[p].funding - position[p].funding
         IN \/ position'[p] = position[p] /\ trades'[p] = trades[p]
            \/ /\ position'[p] = [position[p] EXCEPT !.funding = @ + charge]
               /\ trades'[p] = AddFunding(trades[p], charge)]_ledgerVars
=============================================================================
