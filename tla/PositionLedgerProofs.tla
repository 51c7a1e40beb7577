------------------------- MODULE PositionLedgerProofs -------------------------
(***************************************************************************)
(* The accounting of PositionLedger holds for every set of positions,      *)
(* every price, every fill size and every leverage, fee and funding rate.  *)
(***************************************************************************)
EXTENDS PositionLedger, TLAPS

\* Money units are chosen so that a pro-rata share is never rounded: dividing
\* a multiple of the whole gives the multiple back.
LEMMA DivExact ==
  ASSUME NEW m \in Int, NEW w \in Nat, w > 0
  PROVE  (m * w) \div w = m
OBVIOUS

\* Share is exact when the total was charged per unit of the quantity: the
\* entry-fee and collateral shares of an exit lose no fraction to rounding.
LEMMA ShareExact ==
  ASSUME NEW u \in Int, NEW part \in Nat, NEW whole \in Nat, whole > 0
  PROVE  Share(u * whole, part, whole) = u * part
<1>1. (u * whole) * part = (u * part) * whole
  OBVIOUS
<1>2. u * part \in Int
  OBVIOUS
<1>. QED
  BY <1>1, <1>2, DivExact DEF Share

\* A pro-rata share is an integer, of an empty quantity too (execution_service
\* guards the division).
LEMMA ShareInt ==
  ASSUME NEW t \in Int, NEW part \in Nat, NEW whole \in Nat
  PROVE  Share(t, part, whole) \in Int
BY DEF Share

\* The whole of a total goes with the whole quantity.
LEMMA ShareWhole ==
  ASSUME NEW t \in Int, NEW whole \in Nat, whole > 0
  PROVE  Share(t, whole, whole) = t
BY DivExact DEF Share

\* A total of zero has no share: rows without funding allocate none.
LEMMA ShareOfNothing ==
  ASSUME NEW part \in Nat, NEW whole \in Nat, whole > 0
  PROVE  Share(0, part, whole) = 0
BY DivExact DEF Share

\* Notionals, fees and collateral of natural prices and quantities are naturals.
LEMMA MoneyInt ==
  ASSUME NEW price \in Nat, NEW qty \in Nat, NEW k \in Keys
  PROVE  /\ Notional(price, qty) \in Int
         /\ Fee(price, qty) \in Int
         /\ Collateral(k, price, qty) \in Int
         /\ Collateral(k, price, qty) >= 0
BY LedgerAssumption DEF LedgerAssumption, Notional, Fee, Collateral

\* Splitting a quantity splits its notional, fee and collateral.
LEMMA MoneySplits ==
  ASSUME NEW price \in Nat, NEW a \in Nat, NEW b \in Nat, NEW k \in Keys
  PROVE  /\ Notional(price, a + b) = Notional(price, a) + Notional(price, b)
         /\ Fee(price, a + b) = Fee(price, a) + Fee(price, b)
         /\ Collateral(k, price, a + b)
              = Collateral(k, price, a) + Collateral(k, price, b)
<1>1. \A c, x, y \in Int : c * (x + y) = c * x + c * y
  OBVIOUS
<1>2. Leverage * price \in Int /\ FeeRate * price \in Int /\ price \in Int
  BY LedgerAssumption DEF LedgerAssumption
<1>. QED
  BY <1>1, <1>2, LedgerAssumption
     DEF LedgerAssumption, Notional, Fee, Collateral

\* The profit of any quantity of a row at any price is an integer.
LEMMA PnlInt ==
  ASSUME NEW row \in Row, NEW price \in Nat, NEW qty \in Nat
  PROVE  Pnl(row, price, qty) \in Int
<1>1. Direction(row.side) \in Int
  BY DEF Direction
<1>2. /\ row.entryPrice \in Int /\ qty \in Int /\ price \in Int
      /\ Leverage \in Int
  BY LedgerAssumption DEF LedgerAssumption, Row
<1>. QED
  BY <1>1, <1>2 DEF Pnl

-----------------------------------------------------------------------------
\* recalculate_state touches nothing the invariant speaks of.
LEMMA MarkedKeeps ==
  ASSUME NEW row \in Row, NEW sums, NEW s, NEW price \in Prices,
         RowConsistent(row, sums)
  PROVE  /\ Marked(row, s, price) \in Row
         /\ RowConsistent(Marked(row, s, price), sums)
         /\ Marked(row, s, price).status = row.status
<1>. DEFINE last == IF SymbolOf[row.key] = s THEN price ELSE row.price
            new == [row EXCEPT !.price = last, !.unrealized = Pnl(row, last, row.quantity)]
<1>1. last \in Nat
  BY LedgerAssumption DEF LedgerAssumption, Row
<1>2. Pnl(row, last, row.quantity) \in Int
  BY <1>1, PnlInt DEF Row
<1>3. CASE row.status # "OPEN"
  BY <1>3 DEF Marked
<1>4. CASE row.status = "OPEN"
  <2>1. Marked(row, s, price) = new
    BY <1>4 DEF Marked
  <2>2. new \in Row
    BY <1>1, <1>2 DEF Row
  <2>3. /\ new.status = row.status /\ new.quantity = row.quantity
        /\ new.key = row.key /\ new.side = row.side
        /\ new.entryPrice = row.entryPrice
        /\ new.entryNotional = row.entryNotional
        /\ new.collateral = row.collateral /\ new.funding = row.funding
    BY DEF Row
  <2>4. RowConsistent(new, sums)
    BY <1>4, <2>3 DEF RowConsistent, Held, SpotGap
  <2>. QED
    BY <2>1, <2>2, <2>3, <2>4
<1>. QED
  BY <1>3, <1>4

\* _record_entry_fill starts a consistent position.
LEMMA OpenedConsistent ==
  ASSUME NEW k \in Keys, NEW side \in Sides, NEW price \in Prices,
         NEW qty \in Nat, qty > 0, InstrumentOf[k] = "SPOT" => side = "LONG"
  PROVE  /\ OpenedRow(k, side, price, qty) \in Row
         /\ OpenedSums(k, side, price, qty) \in Sums
         /\ RowConsistent(OpenedRow(k, side, price, qty),
                          OpenedSums(k, side, price, qty))
<1>. DEFINE row == OpenedRow(k, side, price, qty)
            sums == OpenedSums(k, side, price, qty)
<1>1. price \in Nat
  BY LedgerAssumption DEF LedgerAssumption
<1>2. /\ Notional(price, qty) \in Int /\ Fee(price, qty) \in Int
      /\ Collateral(k, price, qty) \in Int
  BY <1>1, MoneyInt
<1>3. EntryCashFlow(k, side, price, qty) \in Int
  BY <1>2 DEF EntryCashFlow
<1>4. row \in Row
  BY <1>1, <1>2 DEF OpenedRow, Row, Sides
<1>5. /\ sums \in Sums
      /\ sums.entryQty = qty /\ sums.exitQty = 0 /\ sums.realized = 0
      /\ sums.entryFee = Fee(price, qty)
      /\ sums.cash = EntryCashFlow(k, side, price, qty)
      /\ sums.exitFunding = 0
  BY <1>2, <1>3 DEF OpenedSums, Sums
<1>6. /\ row.status = "OPEN" /\ row.key = k /\ row.side = side
      /\ row.quantity = qty /\ row.entryPrice = price
      /\ row.entryNotional = Notional(price, qty)
      /\ row.collateral = Collateral(k, price, qty) /\ row.funding = 0
  BY DEF OpenedRow
<1>7. sums.cash = sums.realized - Held(row) - Fee(price, qty) + SpotGap(row, sums)
  BY <1>2, <1>5, <1>6 DEF EntryCashFlow, Held, SpotGap
<1>8. RowConsistent(row, sums)
  BY <1>5, <1>6, <1>7 DEF RowConsistent
<1>. QED
  BY <1>4, <1>5, <1>8

-----------------------------------------------------------------------------
\* What close_position books for a fill is proportional to the fill: it
\* releases the collateral and the entry fee of exactly the quantity closed.
LEMMA ExitBookingExact ==
  ASSUME NEW row \in Row, NEW sums \in Sums, NEW price \in Prices,
         NEW filled \in 1 .. row.quantity,
         row.status = "OPEN", RowConsistent(row, sums)
  PROVE  LET b == ExitBooking(row, sums, price, filled)
             gross == Pnl(row, price, filled)
         IN /\ b.closed = filled
            /\ b.fee = Fee(price, filled)
            /\ b.notional = Notional(price, filled)
            /\ b.release = Collateral(row.key, row.entryPrice, filled)
            /\ b.fundingAlloc \in Int
            /\ filled = row.quantity => b.fundingAlloc = row.funding
            /\ row.funding = 0 => b.fundingAlloc = 0
            /\ gross \in Int
            /\ b.realized = gross - Fee(row.entryPrice, filled) - b.fee
                              - b.fundingAlloc
            /\ b.cash = IF PaidInFull(row.key, row.side)
                        THEN b.notional - b.fee
                        ELSE b.release + gross - b.fee - b.fundingAlloc
<1>. DEFINE b == ExitBooking(row, sums, price, filled)
            gross == Pnl(row, price, filled)
            e == row.entryPrice
<1>1. /\ filled \in Nat /\ row.quantity \in Nat /\ row.quantity > 0
      /\ filled <= row.quantity /\ e \in Nat /\ price \in Nat
      /\ row.key \in Keys /\ row.funding \in Int
      /\ sums.entryQty \in Nat /\ sums.entryQty > 0
  BY LedgerAssumption DEF LedgerAssumption, Row, Sums, RowConsistent
<1>2. b.closed = filled
  BY <1>1 DEF ExitBooking
<1>3. Share(sums.entryFee, filled, sums.entryQty) = Fee(e, filled)
  <2>1. sums.entryFee = (FeeRate * e) * sums.entryQty
    BY <1>1 DEF RowConsistent, Fee
  <2>2. FeeRate * e \in Int
    BY <1>1, LedgerAssumption DEF LedgerAssumption
  <2>. QED
    BY <1>1, <2>1, <2>2, ShareExact DEF Fee
<1>4. Share(row.collateral, filled, row.quantity) = Collateral(row.key, e, filled)
  <2>1. row.collateral = Collateral(row.key, e, row.quantity)
    BY <1>1 DEF RowConsistent
  <2>2. CASE InstrumentOf[row.key] = "PERPETUAL"
    BY <1>1, <2>1, <2>2, ShareExact DEF Collateral
  <2>3. CASE InstrumentOf[row.key] # "PERPETUAL"
    BY <1>1, <2>1, <2>3, ShareOfNothing DEF Collateral
  <2>. QED
    BY <2>2, <2>3
<1>5. /\ Share(row.funding, filled, row.quantity) \in Int
      /\ filled = row.quantity =>
           Share(row.funding, filled, row.quantity) = row.funding
  BY <1>1, ShareInt, ShareWhole
<1>6. row.funding = 0 => Share(row.funding, filled, row.quantity) = 0
  BY <1>1, ShareOfNothing
<1>7. gross \in Int
  BY <1>1, PnlInt
<1>8. /\ b.fee = Fee(price, filled)
      /\ b.notional = Notional(price, filled)
      /\ b.release = Share(row.collateral, filled, row.quantity)
      /\ b.fundingAlloc = Share(row.funding, filled, row.quantity)
      /\ b.realized = gross - Share(sums.entryFee, filled, sums.entryQty)
                        - b.fee - b.fundingAlloc
      /\ b.cash = IF PaidInFull(row.key, row.side)
                  THEN b.notional - b.fee
                  ELSE b.release + gross - b.fee - b.fundingAlloc
  BY <1>2, <1>1 DEF ExitBooking
<1>. QED
  BY <1>2, <1>3, <1>4, <1>5, <1>6, <1>7, <1>8

\* close_position leaves a consistent position, whatever part of it was filled.
LEMMA ExitConsistent ==
  ASSUME NEW row \in Row, NEW sums \in Sums, NEW price \in Prices,
         NEW filled \in 1 .. row.quantity,
         row.status = "OPEN", RowConsistent(row, sums)
  PROVE  LET b == ExitBooking(row, sums, price, filled)
         IN /\ ReducedRow(row, b, price) \in Row
            /\ AddExit(sums, b) \in Sums
            /\ RowConsistent(ReducedRow(row, b, price), AddExit(sums, b))
<1>. DEFINE b == ExitBooking(row, sums, price, filled)
            gross == Pnl(row, price, filled)
            e == row.entryPrice
            rest == row.quantity - filled
            new == ReducedRow(row, b, price)
            booked == AddExit(sums, b)
<1>1. /\ filled \in Nat /\ filled > 0 /\ row.quantity \in Nat
      /\ rest \in Nat /\ row.quantity = filled + rest
      /\ e \in Nat /\ price \in Nat /\ row.key \in Keys
      /\ row.funding \in Int /\ row.realized \in Int
  BY LedgerAssumption DEF LedgerAssumption, Row
<1>2. /\ b.closed = filled
      /\ b.fee = Fee(price, filled)
      /\ b.notional = Notional(price, filled)
      /\ b.release = Collateral(row.key, e, filled)
      /\ b.fundingAlloc \in Int
      /\ filled = row.quantity => b.fundingAlloc = row.funding
      /\ row.funding = 0 => b.fundingAlloc = 0
      /\ gross \in Int
      /\ b.realized = gross - Fee(e, filled) - b.fee - b.fundingAlloc
      /\ b.cash = IF PaidInFull(row.key, row.side)
                  THEN b.notional - b.fee
                  ELSE b.release + gross - b.fee - b.fundingAlloc
  BY ExitBookingExact
<1>. HIDE DEF b, gross
<1>3. /\ Notional(price, filled) \in Int /\ Fee(price, filled) \in Int
      /\ Notional(e, filled) \in Int /\ Fee(e, filled) \in Int
      /\ Notional(e, rest) \in Int /\ Fee(e, rest) \in Int
      /\ Collateral(row.key, e, filled) \in Int
      /\ Collateral(row.key, e, rest) \in Int
      /\ Collateral(row.key, e, rest) >= 0
  BY <1>1, MoneyInt
<1>. HIDE DEF rest, e
<1>4. /\ Notional(e, row.quantity) = Notional(e, filled) + Notional(e, rest)
      /\ Fee(e, row.quantity) = Fee(e, filled) + Fee(e, rest)
      /\ Collateral(row.key, e, row.quantity)
           = Collateral(row.key, e, filled) + Collateral(row.key, e, rest)
  BY <1>1, MoneySplits
<1>5. b.realized \in Int /\ b.cash \in Int
  BY <1>2, <1>3
<1>6. /\ booked \in Sums
      /\ booked.entryQty = sums.entryQty
      /\ booked.entryFee = sums.entryFee
      /\ booked.exitQty = sums.exitQty + filled
      /\ booked.cash = sums.cash + b.cash
      /\ booked.realized = sums.realized + b.realized
      /\ booked.exitFunding = sums.exitFunding + b.fundingAlloc
      /\ booked.charges = sums.charges
  BY <1>1, <1>2, <1>3, <1>5 DEF AddExit, Sums
<1>7. /\ new \in Row
      /\ new.quantity = rest
      /\ new.status = IF rest = 0 THEN "CLOSED" ELSE "OPEN"
      /\ new.key = row.key /\ new.side = row.side /\ new.entryPrice = e
      /\ new.entryNotional = Notional(e, rest)
      /\ new.collateral = AtLeast0(row.collateral - b.release)
      /\ new.funding = AtLeast0(row.funding - b.fundingAlloc)
  <2>1. AtLeast0(row.quantity - b.closed) = rest
    BY <1>1, <1>2 DEF AtLeast0, rest, e
  <2>2. Pnl(row, price, rest) \in Int
    BY <1>1, PnlInt
  <2>3. /\ AtLeast0(row.collateral - b.release) \in Int
        /\ AtLeast0(row.funding - b.fundingAlloc) \in Int
    BY <1>1, <1>2, <1>3 DEF AtLeast0, Row
  <2>4. row.entryPrice = e /\ row.side \in {"LONG", "SHORT"}
    BY DEF e, Row, Sides
  <2>. QED
    BY <1>1, <1>3, <1>5, <2>1, <2>2, <2>3, <2>4 DEF ReducedRow, Row
<1>. HIDE DEF new, booked
<1>8. new.collateral = Collateral(row.key, e, rest)
  <2>1. row.collateral = Collateral(row.key, e, row.quantity)
    BY <1>1 DEF RowConsistent, e
  <2>2. row.collateral - b.release = Collateral(row.key, e, rest)
    BY <1>2, <1>3, <1>4, <2>1
  <2>. QED
    BY <1>3, <1>7, <2>2 DEF AtLeast0
<1>9. booked.charges = 0 => new.funding = 0 /\ booked.exitFunding = 0
  BY <1>1, <1>2, <1>6, <1>7 DEF AtLeast0, RowConsistent
<1>10. PaidInFull(row.key, row.side) => b.notional = gross + Notional(e, filled)
  <2>1. ASSUME PaidInFull(row.key, row.side)
        PROVE  b.notional = gross + Notional(e, filled)
    <3>1. gross = Leverage * (price - e) * filled
      BY <2>1, <1>1, LedgerAssumption
         DEF PaidInFull, LedgerAssumption, Pnl, Direction, gross, e
    <3>2. Leverage * (price - e) * filled
            = Leverage * price * filled - Leverage * e * filled
      BY <1>1, LedgerAssumption DEF LedgerAssumption
    <3>. QED
      BY <1>1, <1>2, <1>3, <3>1, <3>2 DEF Notional
  <2>. QED
    BY <2>1
<1>11. Held(row) - Held(new) = IF PaidInFull(row.key, row.side)
                               THEN Notional(e, filled) ELSE b.release
  BY <1>1, <1>2, <1>3, <1>4, <1>7, <1>8 DEF Held, RowConsistent, e
<1>12. booked.cash = booked.realized - Held(new) - Fee(e, rest)
                       + SpotGap(new, booked)
  <2>1. sums.cash = sums.realized - Held(row) - Fee(e, row.quantity)
                      + SpotGap(row, sums)
    BY <1>1 DEF RowConsistent, e
  <2>2. /\ sums.cash \in Int /\ sums.realized \in Int /\ b.fee \in Int
        /\ sums.exitFunding \in Int
    BY <1>2, <1>3 DEF Sums
  <2>3. Held(row) \in Int /\ Held(new) \in Int
    BY <1>7 DEF Held, Row
  <2>4. CASE PaidInFull(row.key, row.side)
    <3>1. SpotGap(row, sums) = sums.exitFunding
      BY <2>4 DEF SpotGap
    <3>2. SpotGap(new, booked) = sums.exitFunding + b.fundingAlloc
      BY <2>4, <1>6, <1>7 DEF SpotGap
    <3>. QED
      BY <1>2, <1>3, <1>4, <1>6, <1>10, <1>11, <2>1, <2>2, <2>3, <2>4, <3>1, <3>2
  <2>5. CASE ~PaidInFull(row.key, row.side)
    <3>1. SpotGap(row, sums) = 0 /\ SpotGap(new, booked) = 0
      BY <2>5, <1>7 DEF SpotGap
    <3>. QED
      BY <1>2, <1>3, <1>4, <1>6, <1>11, <2>1, <2>2, <2>3, <2>5, <3>1
  <2>. QED
    BY <2>4, <2>5
<1>13. RowConsistent(new, booked)
  <2>1. /\ sums.entryQty > 0
        /\ sums.entryQty = sums.exitQty + row.quantity
        /\ sums.entryFee = Fee(e, sums.entryQty)
        /\ InstrumentOf[row.key] = "SPOT" => row.side = "LONG"
    BY <1>1 DEF RowConsistent, e
  <2>2. sums.exitQty \in Nat /\ sums.entryQty \in Nat
    BY DEF Sums
  <2>3. booked.entryQty = booked.exitQty + new.quantity
    BY <1>1, <1>6, <1>7, <2>1, <2>2
  <2>. QED
    BY <1>1, <1>6, <1>7, <1>8, <1>9, <1>12, <2>1, <2>3 DEF RowConsistent
<1>. QED
  BY <1>6, <1>7, <1>13 DEF b, new, booked

-----------------------------------------------------------------------------
\* Every step keeps the row and the sums of each position consistent.
LEMMA InitInv == LedgerInit => LedgerInv
<1>1. AnyKey \in Keys
  BY LedgerAssumption DEF LedgerAssumption, AnyKey
<1>2. NoRow \in Row /\ NoRow.status = "NONE"
  BY <1>1 DEF NoRow, Row, Sides
<1>3. NoSums \in Sums
  BY DEF NoSums, Sums
<1>. QED
  BY <1>2, <1>3 DEF LedgerInit, LedgerInv, LedgerTypeOK, RowConsistent

\* recalculate_state over all rows keeps every pair of row and sums consistent.
LEMMA MarkAllKeeps ==
  ASSUME NEW rows \in [Positions -> Row], NEW sums \in [Positions -> Sums],
         \A p \in Positions : RowConsistent(rows[p], sums[p]),
         NEW s, NEW price \in Prices
  PROVE  /\ MarkAll(rows, s, price) \in [Positions -> Row]
         /\ \A p \in Positions : RowConsistent(MarkAll(rows, s, price)[p], sums[p])
BY MarkedKeeps DEF MarkAll

\* submit_entry_order with a fill keeps the invariant.
LEMMA EntryKeeps ==
  ASSUME LedgerInv, NEW p \in Positions, NEW k \in Keys, NEW side \in Sides,
         NEW ref \in Prices, NEW want \in Quantities, NEW price \in Prices,
         NEW qty \in Nat, RecordEntryFill(p, k, side, ref, want, price, qty)
  PROVE  LedgerInv'
<1>. DEFINE rows == [position EXCEPT ![p] = OpenedRow(k, side, price, qty)]
<1>1. qty > 0
  BY LedgerAssumption DEF LedgerAssumption, RecordEntryFill
<1>2. /\ OpenedRow(k, side, price, qty) \in Row
      /\ OpenedSums(k, side, price, qty) \in Sums
      /\ RowConsistent(OpenedRow(k, side, price, qty),
                       OpenedSums(k, side, price, qty))
  BY <1>1, OpenedConsistent DEF RecordEntryFill
<1>3. rows \in [Positions -> Row] /\ trades' \in [Positions -> Sums]
  BY <1>2 DEF LedgerInv, LedgerTypeOK, RecordEntryFill
<1>4. \A o \in Positions : RowConsistent(rows[o], trades'[o])
  BY <1>2 DEF LedgerInv, LedgerTypeOK, RecordEntryFill
<1>5. position' = MarkAll(rows, SymbolOf[k], price)
  BY DEF RecordEntryFill
<1>. HIDE DEF rows
<1>. QED
  BY <1>3, <1>4, <1>5, MarkAllKeeps DEF LedgerInv, LedgerTypeOK

\* close_position with a fill, whole or partial, keeps the invariant.
LEMMA ExitKeeps ==
  ASSUME LedgerInv, NEW p \in Positions, NEW ref \in Prices,
         NEW price \in Prices, NEW filled \in 1 .. position[p].quantity,
         ClosePosition(p, ref, price, filled)
  PROVE  LedgerInv'
<1>. DEFINE b == ExitBooking(position[p], trades[p], price, filled)
            rows == [position EXCEPT ![p] = ReducedRow(position[p], b, price)]
<1>1. /\ position[p] \in Row /\ trades[p] \in Sums
      /\ position[p].status = "OPEN" /\ RowConsistent(position[p], trades[p])
  BY DEF LedgerInv, LedgerTypeOK, ClosePosition, IsOpen
<1>2. /\ ReducedRow(position[p], b, price) \in Row
      /\ AddExit(trades[p], b) \in Sums
      /\ RowConsistent(ReducedRow(position[p], b, price), AddExit(trades[p], b))
  BY <1>1, ExitConsistent
<1>3. /\ position' = MarkAll(rows, SymbolOf[position[p].key], price)
      /\ trades' = [trades EXCEPT ![p] = AddExit(trades[p], b)]
  BY DEF ClosePosition
<1>. HIDE DEF b
<1>4. rows \in [Positions -> Row] /\ trades' \in [Positions -> Sums]
  BY <1>2, <1>3 DEF LedgerInv, LedgerTypeOK
<1>5. \A o \in Positions : RowConsistent(rows[o], trades'[o])
  BY <1>2, <1>3 DEF LedgerInv, LedgerTypeOK
<1>. HIDE DEF rows
<1>. QED
  BY <1>3, <1>4, <1>5, MarkAllKeeps DEF LedgerInv, LedgerTypeOK

\* record_funding_charge keeps the invariant, of an open row and of a closed
\* one: what it books to the trades it books to cash and to PnL alike.
LEMMA FundingKeeps ==
  ASSUME LedgerInv, NEW p \in Positions, NEW rate \in FundingRates,
         RecordFundingCharge(p, rate)
  PROVE  LedgerInv'
<1>. DEFINE charge == IF position[p].quantity = 0 THEN rate
                      ELSE rate * position[p].quantity
            row == position[p]
            new == [row EXCEPT !.funding = @ + charge]
            sums == AddFunding(trades[p], charge)
<1>1. row \in Row /\ trades[p] \in Sums /\ RowConsistent(row, trades[p])
  BY DEF LedgerInv, LedgerTypeOK
<1>2. charge \in Int
  BY <1>1, LedgerAssumption DEF LedgerAssumption, Row
<1>3. /\ row.status # "NONE"
      /\ position' = [position EXCEPT ![p] = new]
      /\ trades' = [trades EXCEPT ![p] = sums]
  BY DEF RecordFundingCharge
<1>. HIDE DEF charge, row
<1>4. /\ new \in Row
      /\ new.status = row.status /\ new.quantity = row.quantity
      /\ new.key = row.key /\ new.side = row.side
      /\ new.entryPrice = row.entryPrice
      /\ new.entryNotional = row.entryNotional
      /\ new.collateral = row.collateral
  <2>1. row.funding + charge \in Int
    BY <1>1, <1>2 DEF Row
  <2>. QED
    BY <1>1, <2>1 DEF Row
<1>5. /\ sums \in Sums
      /\ sums.entryQty = trades[p].entryQty /\ sums.exitQty = trades[p].exitQty
      /\ sums.entryFee = trades[p].entryFee
      /\ sums.exitFunding = trades[p].exitFunding
      /\ sums.cash = trades[p].cash - charge
      /\ sums.realized = trades[p].realized - charge
      /\ sums.charges # 0
  <2>1. /\ trades[p].charges \in Nat /\ trades[p].charges + 1 \in Nat
        /\ trades[p].charges + 1 # 0
        /\ trades[p].cash - charge \in Int /\ trades[p].realized - charge \in Int
    BY <1>1, <1>2 DEF Sums
  <2>. QED
    BY <1>1, <2>1 DEF AddFunding, Sums
<1>. HIDE DEF new, sums
<1>6. RowConsistent(new, sums)
  <2>1. /\ Held(new) = Held(row) /\ Held(row) \in Int
        /\ SpotGap(new, sums) = SpotGap(row, trades[p])
        /\ SpotGap(row, trades[p]) \in Int
    BY <1>1, <1>4, <1>5 DEF Held, SpotGap, Row, Sums
  <2>2. /\ trades[p].cash \in Int /\ trades[p].realized \in Int
        /\ row.entryPrice \in Nat /\ row.quantity \in Nat /\ row.key \in Keys
    BY <1>1 DEF Sums, Row
  <2>3. Fee(row.entryPrice, row.quantity) \in Int
    BY <2>2, MoneyInt
  <2>4. trades[p].cash = trades[p].realized - Held(row)
                           - Fee(row.entryPrice, row.quantity) + SpotGap(row, trades[p])
    BY <1>1, <1>3 DEF RowConsistent
  <2>5. sums.cash = sums.realized - Held(new) - Fee(new.entryPrice, new.quantity)
                      + SpotGap(new, sums)
    BY <1>2, <1>4, <1>5, <2>1, <2>2, <2>3, <2>4
  <2>. QED
    BY <1>1, <1>3, <1>4, <1>5, <2>5 DEF RowConsistent
<1>. QED
  BY <1>3, <1>4, <1>5, <1>6 DEF LedgerInv, LedgerTypeOK

\* Every handler keeps the invariant, and so does a stutter.
LEMMA NextInv == LedgerInv /\ [LedgerNext]_ledgerVars => LedgerInv'
<1>. SUFFICES ASSUME LedgerInv, [LedgerNext]_ledgerVars
              PROVE  LedgerInv'
  OBVIOUS
<1>1. ASSUME NEW p \in Positions, Enter(p)
      PROVE  LedgerInv'
  <2>1. \A want \in Quantities : 1 .. want \subseteq Nat
    BY LedgerAssumption DEF LedgerAssumption
  <2>. QED
    BY <1>1, <2>1, EntryKeeps DEF Enter
<1>2. ASSUME NEW p \in Positions, Exit(p)
      PROVE  LedgerInv'
  BY <1>2, ExitKeeps DEF Exit
<1>3. ASSUME NEW p \in Positions, NEW rate \in FundingRates,
             RecordFundingCharge(p, rate)
      PROVE  LedgerInv'
  BY <1>3, FundingKeeps
<1>4. ASSUME NEW s \in Symbols, NEW price \in Prices, MarkToMarket(s, price)
      PROVE  LedgerInv'
  BY <1>4, MarkAllKeeps DEF MarkToMarket, LedgerInv, LedgerTypeOK
<1>5. CASE UNCHANGED ledgerVars
  BY <1>5 DEF ledgerVars, LedgerInv, LedgerTypeOK
<1>. QED
  BY <1>1, <1>2, <1>3, <1>4, <1>5 DEF LedgerNext

\* Type correctness, together with the consistency it needs to be inductive:
\* quantities never go negative because no exit is larger than its row.
THEOREM LedgerInvariant == LedgerSpec => []LedgerInv
BY InitInv, NextInv, PTL DEF LedgerSpec

\* LedgerTypeOK: every row and every sum keeps its type.
THEOREM LedgerTypeCorrect == LedgerSpec => []LedgerTypeOK
BY LedgerInvariant, PTL DEF LedgerInv

\* CashIsRealizedLessHeld, for any entry, any split of its exits and any funding.
THEOREM CashTheorem == LedgerSpec => []CashIsRealizedLessHeld
<1>1. LedgerInv => CashIsRealizedLessHeld
  <2>. SUFFICES ASSUME LedgerInv, NEW p \in Positions
                PROVE  trades[p].cash = trades[p].realized - Held(position[p])
                         - Fee(position[p].entryPrice, position[p].quantity)
                         + SpotGap(position[p], trades[p])
    BY DEF CashIsRealizedLessHeld
  <2>1. CASE position[p].status = "NONE"
    <3>1. position[p] = NoRow /\ trades[p] = NoSums
      BY <2>1 DEF LedgerInv, RowConsistent
    <3>2. Held(NoRow) = 0 /\ SpotGap(NoRow, NoSums) = 0
      BY DEF Held, SpotGap, NoRow, NoSums
    <3>3. Fee(0, 0) = 0
      BY LedgerAssumption DEF LedgerAssumption, Fee
    <3>. QED
      BY <3>1, <3>2, <3>3 DEF NoRow, NoSums
  <2>2. CASE position[p].status # "NONE"
    BY <2>2 DEF LedgerInv, RowConsistent
  <2>. QED
    BY <2>1, <2>2
<1>. QED
  BY <1>1, LedgerInvariant, PTL

\* QuantityConserved: no exit sells what was not bought.
THEOREM QuantityTheorem == LedgerSpec => []QuantityConserved
<1>1. LedgerInv => QuantityConserved
  <2>. SUFFICES ASSUME LedgerInv, NEW p \in Positions
                PROVE  /\ trades[p].entryQty
                            = trades[p].exitQty + position[p].quantity
                       /\ IsOpen(p) => position[p].quantity > 0
                       /\ position[p].status = "CLOSED" =>
                            /\ position[p].quantity = 0
                            /\ position[p].collateral = 0
                            /\ position[p].entryNotional = 0
    BY DEF QuantityConserved
  <2>0. position[p] \in Row
    BY DEF LedgerInv, LedgerTypeOK
  <2>1. CASE position[p].status = "NONE"
    BY <2>1 DEF LedgerInv, RowConsistent, NoRow, NoSums, IsOpen
  <2>2. CASE position[p].status # "NONE"
    <3>1. RowConsistent(position[p], trades[p])
      BY DEF LedgerInv
    <3>2. position[p].status = "CLOSED" => position[p].quantity = 0
      BY <2>0, <3>1, <2>2 DEF RowConsistent, Row
    <3>3. /\ Notional(position[p].entryPrice, 0) = 0
          /\ Collateral(position[p].key, position[p].entryPrice, 0) = 0
      BY <2>0, LedgerAssumption
         DEF LedgerAssumption, Notional, Collateral, Row
    <3>. QED
      BY <2>2, <3>1, <3>2, <3>3 DEF RowConsistent, IsOpen
  <2>. QED
    BY <2>1, <2>2
<1>. QED
  BY <1>1, LedgerInvariant, PTL

-----------------------------------------------------------------------------
\* ClosedIsOnlyCharged: marks pass over a closed row, no exit takes from it, no
\* entry reuses it, and a late charge books one amount to the row and its trades.
THEOREM ClosedFinalTheorem == LedgerSpec => ClosedIsOnlyCharged
<1>. DEFINE kept(p) == position'[p] = position[p] /\ trades'[p] = trades[p]
            charged(p) ==
              LET charge == position'[p].funding - position[p].funding
              IN /\ position'[p] = [position[p] EXCEPT !.funding = @ + charge]
                 /\ trades'[p] = AddFunding(trades[p], charge)
<1>1. ASSUME LedgerInv, [LedgerNext]_ledgerVars, NEW p \in Positions,
             position[p].status = "CLOSED"
      PROVE  kept(p) \/ charged(p)
  <2>. USE <1>1
  <2>1. \A s, price : Marked(position[p], s, price) = position[p]
    BY DEF Marked
  <2>2. position \in [Positions -> Row] /\ trades \in [Positions -> Sums]
    BY DEF LedgerInv, LedgerTypeOK
  <2>3. ASSUME NEW o \in Positions, Enter(o)
        PROVE  kept(p)
    BY <2>1, <2>2, <2>3 DEF Enter, RecordEntryFill, MarkAll
  <2>4. ASSUME NEW o \in Positions, Exit(o)
        PROVE  kept(p)
    BY <2>1, <2>2, <2>4 DEF Exit, ClosePosition, IsOpen, MarkAll
  <2>5. ASSUME NEW o \in Positions, NEW rate \in FundingRates,
               RecordFundingCharge(o, rate)
        PROVE  kept(p) \/ charged(p)
    <3>1. CASE o # p
      BY <2>2, <2>5, <3>1 DEF RecordFundingCharge
    <3>2. CASE o = p
      <4>1. PICK amount \in Int :
              /\ position' = [position EXCEPT ![p].funding = position[p].funding + amount]
              /\ trades' = [trades EXCEPT ![p] = AddFunding(trades[p], amount)]
        <5>1. /\ rate \in Int /\ position[p].quantity \in Int
              /\ rate * position[p].quantity \in Int
          BY <2>2, LedgerAssumption DEF LedgerAssumption, Row
        <5>. QED
          BY <2>5, <3>2, <5>1 DEF RecordFundingCharge
      <4>2. /\ position'[p] = [position[p] EXCEPT !.funding = position[p].funding + amount]
            /\ trades'[p] = AddFunding(trades[p], amount)
        BY <2>2, <4>1
      <4>3. position[p].funding \in Int
        BY <2>2 DEF Row
      <4>4. position'[p].funding = position[p].funding + amount
        BY <2>2, <4>2 DEF Row
      <4>5. position'[p].funding - position[p].funding = amount
        BY <4>3, <4>4
      <4>. QED
        BY <4>2, <4>5
    <3>. QED
      BY <3>1, <3>2
  <2>6. ASSUME NEW s \in Symbols, NEW price \in Prices, MarkToMarket(s, price)
        PROVE  kept(p)
    BY <2>1, <2>2, <2>6 DEF MarkToMarket, MarkAll
  <2>7. CASE UNCHANGED ledgerVars
    BY <2>7 DEF ledgerVars
  <2>. QED
    BY <2>3, <2>4, <2>5, <2>6, <2>7 DEF LedgerNext
<1>2. LedgerInv /\ [LedgerNext]_ledgerVars =>
        [\A p \in Positions :
           position[p].status = "CLOSED" =>
             LET charge == position'[p].funding - position[p].funding
             IN \/ position'[p] = position[p] /\ trades'[p] = trades[p]
                \/ /\ position'[p] = [position[p] EXCEPT !.funding = @ + charge]
                   /\ trades'[p] = AddFunding(trades[p], charge)]_ledgerVars
  BY <1>1
<1>. QED
  BY <1>2, LedgerInvariant, PTL DEF LedgerSpec, ClosedIsOnlyCharged

-----------------------------------------------------------------------------
\* The price move of an exit is the difference of its two notionals.
LEMMA GrossIsNotionalMove ==
  ASSUME NEW row \in Row, NEW price \in Nat, NEW qty \in Nat
  PROVE  Pnl(row, price, qty) =
           Direction(row.side)
             * (Notional(price, qty) - Notional(row.entryPrice, qty))
<1>. DEFINE e == row.entryPrice
<1>1. e \in Nat /\ Leverage \in Nat
  BY LedgerAssumption DEF LedgerAssumption, Row
<1>2. Leverage * (price - e) * qty = Notional(price, qty) - Notional(e, qty)
  BY <1>1 DEF Notional
<1>3. CASE row.side = "SHORT"
  <2>1. Pnl(row, price, qty) = -(Leverage * (price - e) * qty)
    BY <1>1, <1>3 DEF Pnl, Direction
  <2>. QED
    BY <1>1, <1>2, <1>3, <2>1 DEF Direction, Notional
<1>4. CASE row.side # "SHORT"
  <2>1. Pnl(row, price, qty) = Leverage * (price - e) * qty
    BY <1>1, <1>4 DEF Pnl, Direction
  <2>. QED
    BY <1>1, <1>2, <1>4, <2>1 DEF Direction, Notional
<1>. QED
  BY <1>3, <1>4

\* Without funding an exit realizes exactly its move less its fees, and what
\* was realized so far goes on explaining all exits.
LEMMA ExitProfit ==
  ASSUME NEW row \in Row, NEW sums \in Sums, NEW price \in Prices,
         NEW filled \in 1 .. row.quantity, row.status = "OPEN",
         RowConsistent(row, sums), ProfitConsistent(row, sums), sums.charges = 0
  PROVE  LET b == ExitBooking(row, sums, price, filled)
         IN ProfitConsistent(ReducedRow(row, b, price), AddExit(sums, b))
<1>. DEFINE b == ExitBooking(row, sums, price, filled)
            e == row.entryPrice
            d == Direction(row.side)
            new == ReducedRow(row, b, price)
            booked == AddExit(sums, b)
            qty == sums.exitQty + filled
<1>1. /\ filled \in Nat /\ e \in Nat /\ price \in Nat /\ row.key \in Keys
      /\ sums.exitQty \in Nat /\ sums.exitNotional \in Int
      /\ sums.realized \in Int /\ sums.exitFee \in Int
  BY LedgerAssumption DEF LedgerAssumption, Row, Sums
<1>2. /\ b.closed = filled
      /\ b.fee = Fee(price, filled)
      /\ b.notional = Notional(price, filled)
      /\ b.fundingAlloc = 0
      /\ b.realized = Pnl(row, price, filled) - Fee(e, filled) - b.fee
                        - b.fundingAlloc
  BY ExitBookingExact DEF RowConsistent
<1>3. Pnl(row, price, filled) = d * (Notional(price, filled) - Notional(e, filled))
  BY <1>1, GrossIsNotionalMove
<1>4. /\ sums.realized = d * (sums.exitNotional - Notional(e, sums.exitQty))
                         - Fee(e, sums.exitQty) - sums.exitFee
      /\ sums.charges = 0
  BY DEF ProfitConsistent
<1>5. /\ Notional(e, qty) = Notional(e, sums.exitQty) + Notional(e, filled)
      /\ Fee(e, qty) = Fee(e, sums.exitQty) + Fee(e, filled)
  BY <1>1, MoneySplits
<1>6. /\ Notional(price, filled) \in Int /\ Fee(price, filled) \in Int
      /\ Notional(e, filled) \in Int /\ Fee(e, filled) \in Int
      /\ Notional(e, sums.exitQty) \in Int /\ Fee(e, sums.exitQty) \in Int
  BY <1>1, MoneyInt
<1>7. new.side = row.side /\ new.entryPrice = e
  BY DEF ReducedRow
<1>9. /\ booked.exitQty = sums.exitQty + b.closed
      /\ booked.exitFee = sums.exitFee + b.fee
      /\ booked.exitNotional = sums.exitNotional + b.notional
      /\ booked.realized = sums.realized + b.realized
      /\ booked.charges = sums.charges
  BY DEF AddExit
<1>10. d = 1 \/ d = -1
  BY DEF Direction
<1>. HIDE DEF b, e, d, new, booked
<1>11. booked.realized = d * (booked.exitNotional - Notional(e, qty))
                         - Fee(e, qty) - booked.exitFee
  <2>1. CASE d = 1
    BY <1>1, <1>2, <1>3, <1>4, <1>5, <1>6, <1>9, <2>1
  <2>2. CASE d = -1
    BY <1>1, <1>2, <1>3, <1>4, <1>5, <1>6, <1>9, <2>2
  <2>. QED
    BY <1>10, <2>1, <2>2
<1>12. ProfitConsistent(new, booked)
  BY <1>2, <1>4, <1>7, <1>9, <1>11 DEF ProfitConsistent, d
<1>. QED
  BY <1>12 DEF b, new, booked

\* A mark changes nothing ProfitConsistent speaks of.
LEMMA MarkedProfit ==
  ASSUME NEW row \in Row, NEW sums, NEW s, NEW price, ProfitConsistent(row, sums)
  PROVE  ProfitConsistent(Marked(row, s, price), sums)
<1>1. CASE row.status # "OPEN"
  BY <1>1 DEF Marked
<1>2. CASE row.status = "OPEN"
  <2>. DEFINE last == IF SymbolOf[row.key] = s THEN price ELSE row.price
              new == [row EXCEPT !.price = last,
                                 !.unrealized = Pnl(row, last, row.quantity)]
  <2>1. Marked(row, s, price) = new
    BY <1>2 DEF Marked
  <2>2. /\ new.status = row.status /\ new.side = row.side
        /\ new.entryPrice = row.entryPrice
    BY DEF Row
  <2>. QED
    BY <2>1, <2>2 DEF ProfitConsistent
<1>. QED
  BY <1>1, <1>2

\* Every handler keeps ProfitInv: a charge ends its claim about the position.
LEMMA ProfitNext ==
  ASSUME LedgerInv, ProfitInv, [LedgerNext]_ledgerVars
  PROVE  ProfitInv'
<1>. USE DEF ProfitInv
<1>1. position \in [Positions -> Row] /\ trades \in [Positions -> Sums]
  BY DEF LedgerInv, LedgerTypeOK
<1>2. \A rows \in [Positions -> Row] : \A sums, s, price :
        (\A p \in Positions : ProfitConsistent(rows[p], sums[p]))
          => \A p \in Positions : ProfitConsistent(MarkAll(rows, s, price)[p], sums[p])
  BY MarkedProfit DEF MarkAll
<1>3. ASSUME NEW p \in Positions, Enter(p)
      PROVE  ProfitInv'
  <2>1. PICK k \in Keys, side \in Sides, ref \in Prices, price \in Prices,
             want \in Quantities, qty \in Nat :
               RecordEntryFill(p, k, side, ref, want, price, qty) /\ qty > 0
    BY <1>3, LedgerAssumption DEF LedgerAssumption, Enter
  <2>. DEFINE rows == [position EXCEPT ![p] = OpenedRow(k, side, price, qty)]
  <2>2. OpenedRow(k, side, price, qty) \in Row
    BY <2>1, OpenedConsistent DEF RecordEntryFill
  <2>3. /\ Notional(price, 0) = 0 /\ Fee(price, 0) = 0 /\ Direction(side) \in Int
    BY LedgerAssumption DEF LedgerAssumption, Notional, Fee, Direction
  <2>4. ProfitConsistent(OpenedRow(k, side, price, qty),
                         OpenedSums(k, side, price, qty))
    BY <2>3 DEF ProfitConsistent, OpenedRow, OpenedSums
  <2>5. /\ rows \in [Positions -> Row]
        /\ \A o \in Positions : ProfitConsistent(rows[o], trades'[o])
        /\ position' = MarkAll(rows, SymbolOf[k], price)
    BY <1>1, <2>1, <2>2, <2>4 DEF RecordEntryFill
  <2>. QED
    BY <1>2, <2>5
<1>4. ASSUME NEW p \in Positions, Exit(p)
      PROVE  ProfitInv'
  <2>1. PICK ref \in Prices, price \in Prices, filled \in 1 .. position[p].quantity :
               ClosePosition(p, ref, price, filled)
    BY <1>4 DEF Exit
  <2>. DEFINE b == ExitBooking(position[p], trades[p], price, filled)
              rows == [position EXCEPT ![p] = ReducedRow(position[p], b, price)]
  <2>2. /\ position[p] \in Row /\ trades[p] \in Sums
        /\ position[p].status = "OPEN" /\ RowConsistent(position[p], trades[p])
    BY <1>1, <2>1 DEF LedgerInv, ClosePosition, IsOpen
  <2>3. /\ ReducedRow(position[p], b, price) \in Row
        /\ ProfitConsistent(ReducedRow(position[p], b, price), AddExit(trades[p], b))
    <3>1. CASE trades[p].charges = 0
      BY <2>2, <3>1, ExitConsistent, ExitProfit
    <3>2. CASE trades[p].charges # 0
      <4>1. AddExit(trades[p], b).charges # 0
        BY <3>2 DEF AddExit
      <4>. QED
        BY <2>2, <4>1, ExitConsistent DEF ProfitConsistent
    <3>. QED
      BY <3>1, <3>2
  <2>4. /\ position' = MarkAll(rows, SymbolOf[position[p].key], price)
        /\ trades' = [trades EXCEPT ![p] = AddExit(trades[p], b)]
    BY <2>1 DEF ClosePosition
  <2>. HIDE DEF b
  <2>5. /\ rows \in [Positions -> Row]
        /\ \A o \in Positions : ProfitConsistent(rows[o], trades'[o])
    BY <1>1, <2>3, <2>4
  <2>. QED
    BY <1>2, <2>4, <2>5
<1>5. ASSUME NEW s \in Symbols, NEW price \in Prices, MarkToMarket(s, price)
      PROVE  ProfitInv'
  BY <1>1, <1>2, <1>5 DEF MarkToMarket
<1>6. ASSUME NEW p \in Positions, NEW rate \in FundingRates,
             RecordFundingCharge(p, rate)
      PROVE  ProfitInv'
  <2>1. \A o \in Positions : o # p =>
          position'[o] = position[o] /\ trades'[o] = trades[o]
    BY <1>1, <1>6 DEF RecordFundingCharge
  <2>2. \E charge : trades'[p] = AddFunding(trades[p], charge)
    BY <1>1, <1>6 DEF RecordFundingCharge
  <2>3. /\ trades[p] \in Sums
        /\ \A n \in Nat : n + 1 # 0
    BY <1>1
  <2>4. trades'[p].charges # 0
    BY <2>2, <2>3 DEF AddFunding, Sums
  <2>. QED
    BY <2>1, <2>4 DEF ProfitConsistent
<1>7. CASE UNCHANGED ledgerVars
  BY <1>7 DEF ledgerVars
<1>. QED
  BY <1>3, <1>4, <1>5, <1>6, <1>7 DEF LedgerNext

\* The realized PnL of every position explains its exits, in every behaviour.
LEMMA ProfitInvariant == LedgerSpec => []ProfitInv
<1>1. LedgerInit => ProfitInv
  BY DEF LedgerInit, ProfitInv, ProfitConsistent, NoRow
<1>2. LedgerInv /\ ProfitInv /\ [LedgerNext]_ledgerVars => ProfitInv'
  BY ProfitNext
<1>. QED
  BY <1>1, <1>2, LedgerInvariant, PTL DEF LedgerSpec

\* However many exits close a position that was never charged funding (as in the
\* program, in which nothing calls record_funding_charge yet), its profit is its
\* price move less the fees of both sides, in cash and in PnL.
THEOREM UnfundedProfitTheorem == LedgerSpec => []UnfundedProfitIsExact
<1>1. LedgerInv /\ ProfitInv => UnfundedProfitIsExact
  <2>. SUFFICES ASSUME LedgerInv, ProfitInv, NEW p \in Positions,
                       position[p].status = "CLOSED", trades[p].charges = 0
                PROVE  LET entryNotional == Notional(position[p].entryPrice,
                                                     trades[p].entryQty)
                           profit == Direction(position[p].side)
                                       * (trades[p].exitNotional - entryNotional)
                                     - trades[p].entryFee - trades[p].exitFee
                       IN trades[p].cash = profit /\ trades[p].realized = profit
    BY DEF UnfundedProfitIsExact
  <2>. DEFINE row == position[p]
              sums == trades[p]
  <2>1. /\ row \in Row /\ sums \in Sums
        /\ RowConsistent(row, sums) /\ ProfitConsistent(row, sums)
    BY DEF LedgerInv, LedgerTypeOK, ProfitInv
  <2>2. row.quantity = 0 /\ sums.entryQty = sums.exitQty
    BY <2>1 DEF RowConsistent, Row, Sums
  <2>3. Held(row) = 0 /\ Fee(row.entryPrice, 0) = 0 /\ SpotGap(row, sums) = 0
    BY <2>1, <2>2, LedgerAssumption
       DEF LedgerAssumption, RowConsistent, Held, SpotGap, Notional, Collateral, Fee, Row
  <2>4. /\ sums.cash \in Int /\ sums.realized \in Int
        /\ sums.entryFee \in Int /\ sums.exitFee \in Int
    BY <2>1 DEF Sums
  <2>5. sums.cash = sums.realized
    BY <2>1, <2>2, <2>3, <2>4 DEF RowConsistent
  <2>6. Direction(row.side) * (sums.exitNotional
                                - Notional(row.entryPrice, sums.exitQty)) \in Int
    <3>1. Notional(row.entryPrice, sums.exitQty) \in Int
      BY <2>1, MoneyInt DEF Row, Sums
    <3>2. sums.exitNotional \in Int /\ Direction(row.side) \in Int
      BY <2>1 DEF Direction, Sums
    <3>. QED
      BY <3>1, <3>2
  <2>. QED
    BY <2>1, <2>2, <2>4, <2>5, <2>6 DEF RowConsistent, ProfitConsistent
<1>. QED
  BY <1>1, LedgerInvariant, ProfitInvariant, PTL DEF LedgerSpec
=============================================================================
