---------------------------- MODULE AccountProofs -----------------------------
(***************************************************************************)
(* The portfolio account and the risk gate in front of it.                 *)
(*                                                                         *)
(* The handlers that also rewrite the portfolio row are handlers of the    *)
(* ledger, and the gated handlers are handlers of the account, so that     *)
(* whatever is shown of the rows below holds above.  The account's own     *)
(* theorems are about sums over all positions: each is one fact of one row *)
(* and its trades, carried through the sums by the lemmas of SumLemmas.    *)
(* The two locks of the gate, the drawdown breaker and the stop-loss       *)
(* cooldown, hold for every setting, price and number of positions.        *)
(***************************************************************************)
EXTENDS RiskGate, PositionLedgerProofs, SumLemmas

\* Every handler of the account is a handler of the ledger or leaves it alone.
LEMMA AccountStepIsLedgerStep ==
  [AccountNext]_accountVars => [LedgerNext]_ledgerVars
<1>1. ASSUME NEW p \in Positions, AccountEnter(p)
      PROVE  LedgerNext
  BY <1>1 DEF AccountEnter, Enter, LedgerNext
<1>2. ASSUME NEW p \in Positions, AccountExit(p)
      PROVE  LedgerNext
  BY <1>2 DEF AccountExit, LedgerNext
<1>3. ASSUME NEW p \in Positions, AccountFunding(p)
      PROVE  LedgerNext
  BY <1>3 DEF AccountFunding, LedgerNext
<1>4. ASSUME AccountMark
      PROVE  LedgerNext
  BY <1>4 DEF AccountMark, LedgerNext
<1>5. CASE UNCHANGED accountVars
  BY <1>5 DEF accountVars, ledgerVars
<1>. QED
  BY <1>1, <1>2, <1>3, <1>4, <1>5 DEF AccountNext

\* The account implements the ledger: recalculating the portfolio row after a
\* handler takes nothing from what the handler promises of rows and trades.
THEOREM AccountImplementsLedger == AccountSpec => LedgerSpec
<1>1. AccountInit => LedgerInit
  BY DEF AccountInit
<1>. QED
  BY <1>1, AccountStepIsLedgerStep, PTL DEF AccountSpec, LedgerSpec

-----------------------------------------------------------------------------
\* The unrealized PnL of an open row is that of its price: every handler that
\* changes one of the two rewrites the other.
UnrealizedIsPnl ==
  \A p \in Positions : IsOpen(p) =>
    position[p].unrealized = Pnl(position[p], position[p].price, position[p].quantity)

LEMMA MarkedIsPnl ==
  ASSUME NEW row \in Row, NEW s, NEW price, Marked(row, s, price).status = "OPEN"
  PROVE  LET new == Marked(row, s, price)
         IN new.unrealized = Pnl(new, new.price, new.quantity)
<1>. DEFINE last == IF SymbolOf[row.key] = s THEN price ELSE row.price
            pnl == Pnl(row, last, row.quantity)
            new == [row EXCEPT !.price = last, !.unrealized = pnl]
<1>1. row.status = "OPEN" /\ Marked(row, s, price) = new
  BY DEF Marked
<1>2. /\ new.unrealized = pnl /\ new.price = last /\ new.side = row.side
      /\ new.entryPrice = row.entryPrice /\ new.quantity = row.quantity
  BY DEF Row
<1>. HIDE DEF new, last
<1>3. pnl = Pnl(new, last, row.quantity)
  BY <1>2 DEF Pnl
<1>. QED
  BY <1>1, <1>2, <1>3

LEMMA MarkAllIsPnl ==
  ASSUME NEW rows \in [Positions -> Row], NEW s, NEW price,
         position' = MarkAll(rows, s, price)
  PROVE  UnrealizedIsPnl'
<1>. SUFFICES ASSUME NEW p \in Positions, position'[p].status = "OPEN"
              PROVE  position'[p].unrealized
                       = Pnl(position'[p], position'[p].price, position'[p].quantity)
  BY DEF UnrealizedIsPnl, IsOpen
<1>1. position'[p] = Marked(rows[p], s, price) /\ rows[p] \in Row
  BY DEF MarkAll
<1>. QED
  BY <1>1, MarkedIsPnl

LEMMA RowsAreTyped ==
  ASSUME LedgerInv
  PROVE  /\ position \in [Positions -> Row] /\ trades \in [Positions -> Sums]
         /\ \A p \in Positions : /\ position[p] \in Row /\ trades[p] \in Sums
                                 /\ RowConsistent(position[p], trades[p])
BY DEF LedgerInv, LedgerTypeOK

LEMMA UnrealizedNext ==
  ASSUME LedgerInv, UnrealizedIsPnl, [LedgerNext]_ledgerVars
  PROVE  UnrealizedIsPnl'
<1>1. position \in [Positions -> Row] /\ trades \in [Positions -> Sums]
  BY RowsAreTyped
<1>2. ASSUME NEW p \in Positions, Enter(p)
      PROVE  UnrealizedIsPnl'
  <2>1. PICK k \in Keys, side \in Sides, ref \in Prices, price \in Prices,
             want \in Quantities : \E qty \in 1 .. want :
               RecordEntryFill(p, k, side, ref, want, price, qty)
    BY <1>2 DEF Enter
  <2>2. PICK qty \in 1 .. want : RecordEntryFill(p, k, side, ref, want, price, qty)
    BY <2>1
  <2>3. OpenedRow(k, side, price, qty) \in Row
    <3>1. qty \in Nat /\ qty > 0
      BY LedgerAssumption DEF LedgerAssumption
    <3>. QED
      BY <2>2, <3>1, OpenedConsistent DEF RecordEntryFill
  <2>4. /\ [position EXCEPT ![p] = OpenedRow(k, side, price, qty)] \in [Positions -> Row]
        /\ position' = MarkAll([position EXCEPT ![p] = OpenedRow(k, side, price, qty)],
                               SymbolOf[k], price)
    BY <1>1, <2>2, <2>3 DEF RecordEntryFill
  <2>. QED
    BY <2>4, MarkAllIsPnl
<1>3. ASSUME NEW p \in Positions, Exit(p)
      PROVE  UnrealizedIsPnl'
  <2>1. PICK ref \in Prices, price \in Prices, filled \in 1 .. position[p].quantity :
          ClosePosition(p, ref, price, filled)
    BY <1>3 DEF Exit
  <2>. DEFINE b == ExitBooking(position[p], trades[p], price, filled)
              row == ReducedRow(position[p], b, price)
              rows == [position EXCEPT ![p] = row]
  <2>2. row \in Row
    <3>1. /\ position[p] \in Row /\ trades[p] \in Sums
          /\ position[p].status = "OPEN" /\ RowConsistent(position[p], trades[p])
      BY <2>1, RowsAreTyped DEF ClosePosition, IsOpen
    <3>. QED
      BY <3>1, ExitConsistent
  <2>3. position' = MarkAll(rows, SymbolOf[position[p].key], price)
    BY <2>1 DEF ClosePosition
  <2>4. rows \in [Positions -> Row]
    BY <1>1, <2>2
  <2>. HIDE DEF rows
  <2>. QED
    BY <2>3, <2>4, MarkAllIsPnl
<1>4. ASSUME NEW p \in Positions, NEW rate \in FundingRates,
             RecordFundingCharge(p, rate)
      PROVE  UnrealizedIsPnl'
  <2>1. \E charge : position' = [position EXCEPT ![p].funding = @ + charge]
    BY <1>4 DEF RecordFundingCharge
  <2>2. \A q \in Positions :
          /\ position'[q].status = position[q].status
          /\ position'[q].unrealized = position[q].unrealized
          /\ position'[q].price = position[q].price
          /\ position'[q].quantity = position[q].quantity
          /\ position'[q].side = position[q].side
          /\ position'[q].entryPrice = position[q].entryPrice
    BY <1>1, <2>1 DEF Row
  <2>. QED
    BY <2>2 DEF UnrealizedIsPnl, IsOpen, Pnl
<1>5. ASSUME NEW s \in Symbols, NEW price \in Prices, MarkToMarket(s, price)
      PROVE  UnrealizedIsPnl'
  BY <1>1, <1>5, MarkAllIsPnl DEF MarkToMarket
<1>6. CASE UNCHANGED ledgerVars
  BY <1>6 DEF ledgerVars, UnrealizedIsPnl, IsOpen
<1>. QED
  BY <1>2, <1>3, <1>4, <1>5, <1>6 DEF LedgerNext

-----------------------------------------------------------------------------
PendingFee == [p \in Positions |-> Fee(position[p].entryPrice, position[p].quantity)]
HeldBy == [p \in Positions |-> Held(position[p])]
CashOf == [p \in Positions |-> trades[p].cash]
RealizedOf == [p \in Positions |-> trades[p].realized]
GapOf == [p \in Positions |-> SpotGap(position[p], trades[p])]
Contributions == [p \in Positions |-> Contribution(position[p])]

\* An open row adds to equity what it holds and what it has gained.
LEMMA OpenRowContributes ==
  ASSUME NEW row \in Row, NEW sums, row.status = "OPEN", RowConsistent(row, sums)
  PROVE  Contribution(row) = Pnl(row, row.price, row.quantity) + Held(row)
<1>. DEFINE e == row.entryPrice
            q == row.quantity
<1>1. e \in Nat /\ q \in Nat /\ row.key \in Keys /\ row.price \in Nat
  BY DEF Row
<1>2. Notional(e, q) \in Int /\ Notional(row.price, q) \in Int
  BY <1>1, MoneyInt
<1>3. row.collateral \in Int /\ Pnl(row, row.price, q) \in Int
  BY <1>1, PnlInt DEF Row
<1>4. CASE PaidInFull(row.key, row.side)
  <2>1. Contribution(row) = Notional(row.price, q) /\ Held(row) = row.entryNotional
    BY <1>4 DEF Contribution, Held
  <2>2. row.entryNotional = Notional(e, q)
    BY DEF RowConsistent
  <2>3. Direction(row.side) = 1
    BY <1>4 DEF PaidInFull, Direction
  <2>4. Pnl(row, row.price, q)
          = Direction(row.side) * (Notional(row.price, q) - Notional(e, q))
    BY <1>1, GrossIsNotionalMove
  <2>. QED
    BY <1>2, <2>1, <2>2, <2>3, <2>4
<1>5. CASE ~PaidInFull(row.key, row.side)
  BY <1>3, <1>5 DEF Contribution, Held
<1>. QED
  BY <1>4, <1>5

\* What one row and its trades say of the account's money.
LEMMA RowExplained ==
  ASSUME LedgerInv, UnrealizedIsPnl, NEW p \in Positions
  PROVE  /\ PendingFee[p] \in Int /\ HeldBy[p] \in Int /\ CashOf[p] \in Int
         /\ RealizedOf[p] \in Int /\ GapOf[p] \in Int
         /\ RealizedOf[p] + GapOf[p] = CashOf[p] + (HeldBy[p] + PendingFee[p])
         /\ ~IsOpen(p) => HeldBy[p] = 0 /\ PendingFee[p] = 0
         /\ IsOpen(p) => /\ UnrealizedOf(position)[p] \in Int
                        /\ Contributions[p] = UnrealizedOf(position)[p] + HeldBy[p]
<1>. DEFINE row == position[p]
            e == row.entryPrice
            q == row.quantity
<1>1. /\ row \in Row /\ trades[p] \in Sums /\ RowConsistent(row, trades[p])
      /\ e \in Nat /\ q \in Nat /\ row.key \in Keys /\ row.price \in Nat
  <2>1. row \in Row /\ trades[p] \in Sums /\ RowConsistent(row, trades[p])
    BY RowsAreTyped
  <2>. QED
    BY <2>1 DEF Row
<1>2. /\ PendingFee[p] = Fee(e, q) /\ HeldBy[p] = Held(row)
      /\ CashOf[p] = trades[p].cash /\ RealizedOf[p] = trades[p].realized
      /\ UnrealizedOf(position)[p] = row.unrealized
      /\ Contributions[p] = Contribution(row)
      /\ GapOf[p] = SpotGap(row, trades[p])
  BY DEF GapOf, PendingFee, HeldBy, CashOf, RealizedOf, UnrealizedOf, Contributions
<1>3. /\ Notional(e, q) \in Int /\ Fee(e, q) \in Int
      /\ Notional(row.price, q) \in Int
  BY <1>1, MoneyInt
<1>4. /\ Held(row) \in Int /\ trades[p].cash \in Int /\ trades[p].realized \in Int
      /\ row.unrealized \in Int /\ SpotGap(row, trades[p]) \in Int
  <2>1. row.entryNotional \in Int /\ row.collateral \in Int /\ row.unrealized \in Int
    BY <1>1 DEF Row
  <2>2. /\ trades[p].cash \in Int /\ trades[p].realized \in Int
        /\ trades[p].exitFunding \in Int
    BY <1>1 DEF Sums
  <2>. QED
    BY <2>1, <2>2 DEF Held, SpotGap
<1>5. row.status = "NONE" => /\ q = 0 /\ Held(row) = 0
                             /\ trades[p].cash = 0 /\ trades[p].realized = 0
                             /\ SpotGap(row, trades[p]) = 0
  BY <1>1 DEF RowConsistent, NoRow, NoSums, Held, SpotGap
<1>6. row.status # "NONE" =>
        trades[p].cash = trades[p].realized - Held(row) - Fee(e, q)
                           + SpotGap(row, trades[p])
  BY <1>1 DEF RowConsistent
<1>7. q = 0 => Fee(e, q) = 0 /\ Notional(e, q) = 0 /\ Collateral(row.key, e, q) = 0
  BY <1>1, LedgerAssumption DEF Fee, Notional, Collateral, LedgerAssumption
<1>8. row.status = "CLOSED" => q = 0 /\ Held(row) = 0
  <2>. HAVE row.status = "CLOSED"
  <2>1. /\ q = 0 /\ row.entryNotional = Notional(e, q)
        /\ row.collateral = Collateral(row.key, e, q)
    BY <1>1 DEF RowConsistent
  <2>. QED
    BY <1>7, <2>1 DEF Held
<1>9. row.status \in {"NONE", "OPEN", "CLOSED"}
  BY <1>1 DEF Row
<1>10. IsOpen(p) => Contribution(row) = row.unrealized + Held(row)
  <2>. HAVE IsOpen(p)
  <2>1. row.unrealized = Pnl(row, row.price, q)
    BY DEF UnrealizedIsPnl
  <2>. QED
    BY <1>1, <2>1, OpenRowContributes DEF IsOpen
<1>. HIDE DEF row, e, q
<1>11. trades[p].realized + SpotGap(row, trades[p])
         = trades[p].cash + (Held(row) + Fee(e, q))
  <2>1. CASE row.status = "NONE"
    BY <1>5, <1>7, <2>1
  <2>2. CASE row.status # "NONE"
    BY <1>3, <1>4, <1>6, <2>2
  <2>. QED
    BY <2>1, <2>2
<1>12. ~IsOpen(p) => Held(row) = 0 /\ Fee(e, q) = 0
  BY <1>5, <1>7, <1>8, <1>9 DEF IsOpen, row
<1>. QED
  BY <1>2, <1>3, <1>4, <1>10, <1>11, <1>12

\* The sums say of the account what each row says of its money.
LEMMA SumsExplainEquity ==
  ASSUME LedgerInv, UnrealizedIsPnl
  PROVE  EquityExplained
<1>. DEFINE open == OpenRows(position)
            S(f, U) == SumFunctionOnSet(f, U)
            locked == [p \in Positions |-> HeldBy[p] + PendingFee[p]]
            earned == [p \in Positions |-> RealizedOf[p] + GapOf[p]]
            unrealized == UnrealizedOf(position)
<1>1. /\ IsFiniteSet(Positions) /\ open \in SUBSET Positions /\ IsFiniteSet(open)
      /\ \A p \in Positions : p \in open <=> IsOpen(p)
  BY AccountAssumption, FS_Subset DEF AccountAssumption, OpenRows, IsOpen
<1>2. \A p \in Positions :
        /\ PendingFee[p] \in Int /\ HeldBy[p] \in Int /\ CashOf[p] \in Int
        /\ RealizedOf[p] \in Int /\ GapOf[p] \in Int /\ locked[p] \in Int
        /\ locked[p] = HeldBy[p] + PendingFee[p]
        /\ earned[p] = RealizedOf[p] + GapOf[p]
        /\ earned[p] = CashOf[p] + locked[p]
        /\ p \notin open => locked[p] = 0
        /\ p \in open => /\ unrealized[p] \in Int
                         /\ Contributions[p] = unrealized[p] + HeldBy[p]
  <2>. TAKE p \in Positions
  <2>1. /\ locked[p] = HeldBy[p] + PendingFee[p]
        /\ earned[p] = RealizedOf[p] + GapOf[p]
    OBVIOUS
  <2>2. p \notin open => ~IsOpen(p)
    BY <1>1
  <2>. HIDE DEF locked, earned, open
  <2>. QED
    BY <1>1, <2>1, <2>2, RowExplained
<1>. HIDE DEF open, locked, earned, unrealized
<1>3. /\ S(earned, Positions) = S(CashOf, Positions) + S(locked, Positions)
      /\ S(earned, Positions) = S(RealizedOf, Positions) + S(GapOf, Positions)
  BY <1>1, <1>2, SumPlus
<1>4. S(locked, Positions) = S(locked, open)
  BY <1>1, <1>2, SumWithin
<1>5. S(locked, open) = S(HeldBy, open) + S(PendingFee, open)
  BY <1>1, <1>2, SumPlus
<1>6. S(Contributions, open) = S(unrealized, open) + S(HeldBy, open)
  BY <1>1, <1>2, SumPlus
<1>7. /\ S(RealizedOf, Positions) \in Int /\ S(CashOf, Positions) \in Int
      /\ S(HeldBy, open) \in Int /\ S(PendingFee, open) \in Int
      /\ S(unrealized, open) \in Int /\ S(GapOf, Positions) \in Int
  BY <1>1, <1>2, SumType
<1>8. /\ CashBalance(trades) = StartingBalance + S(CashOf, Positions)
      /\ RealizedPnl(trades) = S(RealizedOf, Positions)
      /\ SumFunction(GapOf) = S(GapOf, Positions)
  BY DEF GapOf, CashBalance, RealizedPnl, CashOf, RealizedOf, SumFunction
<1>9. /\ SumOpen(position, UnrealizedOf(position)) = S(unrealized, open)
      /\ SumOpen(position, PendingFee) = S(PendingFee, open)
      /\ Equity(position, trades) = CashBalance(trades) + S(Contributions, open)
  BY DEF SumOpen, Equity, Contributions, open, unrealized
<1>10. /\ Recalculated(position, trades, 0).equity = Equity(position, trades)
       /\ Recalculated(position, trades, 0).realized = RealizedPnl(trades)
       /\ Recalculated(position, trades, 0).unrealized
            = SumOpen(position, UnrealizedOf(position))
  BY DEF Recalculated
<1>. HIDE DEF S
<1>11. StartingBalance \in Int
  BY AccountAssumption DEF AccountAssumption
<1>12. Equity(position, trades)
         = StartingBalance + RealizedPnl(trades) + S(unrealized, open)
             - S(PendingFee, open) + SumFunction(GapOf)
  <2>1. S(CashOf, Positions)
          = RealizedPnl(trades) + SumFunction(GapOf)
              - S(HeldBy, open) - S(PendingFee, open)
    BY <1>3, <1>4, <1>5, <1>7, <1>8
  <2>2. Equity(position, trades)
          = StartingBalance + S(CashOf, Positions) + S(unrealized, open)
              + S(HeldBy, open)
    BY <1>6, <1>7, <1>8, <1>9, <1>11
  <2>3. RealizedPnl(trades) \in Int /\ SumFunction(GapOf) \in Int
    BY <1>7, <1>8
  <2>. QED
    BY <1>7, <1>11, <2>1, <2>2, <2>3
<1>. QED
  BY <1>9, <1>10, <1>12 DEF EquityExplained, PendingFee, GapOf

\* EquityExplained, for any number of positions, prices, fees and fills: what an
\* operator reads as equity is the starting balance and the PnL, less the entry
\* fees the exits have yet to absorb, plus the funding spot exits leave in cash.
THEOREM EquityTheorem == AccountSpec => []EquityExplained
<1>1. LedgerInit => UnrealizedIsPnl
  BY DEF LedgerInit, UnrealizedIsPnl, IsOpen, NoRow
<1>2. LedgerInv /\ UnrealizedIsPnl /\ [LedgerNext]_ledgerVars => UnrealizedIsPnl'
  BY UnrealizedNext
<1>3. LedgerInv /\ UnrealizedIsPnl => EquityExplained
  BY SumsExplainEquity
<1>. QED
  BY <1>1, <1>2, <1>3, AccountImplementsLedger, LedgerInvariant, PTL DEF LedgerSpec

-----------------------------------------------------------------------------
\* What a position and its trades add to the equity at its price.
Worth(row, sums) ==
  sums.cash + (IF row.status = "OPEN" THEN Contribution(row) ELSE 0)

WorthOf(rows, sums) == [p \in Positions |-> Worth(rows[p], sums[p])]

\* Of a position never charged funding it is what was realized and what the row
\* has gained, less the entry fee still to be charged.
LEMMA WorthIsProfit ==
  ASSUME NEW row \in Row, NEW sums \in Sums, RowConsistent(row, sums),
         row.status # "NONE", sums.charges = 0
  PROVE  Worth(row, sums) = sums.realized + Pnl(row, row.price, row.quantity)
                              - Fee(row.entryPrice, row.quantity)
<1>. DEFINE e == row.entryPrice
            q == row.quantity
<1>1. e \in Nat /\ q \in Nat /\ row.key \in Keys /\ row.price \in Nat
  BY DEF Row
<1>2. /\ sums.cash \in Int /\ sums.realized \in Int /\ Fee(e, q) \in Int
      /\ Pnl(row, row.price, q) \in Int
  BY <1>1, MoneyInt, PnlInt DEF Sums
<1>3. Held(row) \in Int
  BY DEF Held, Row
<1>4. sums.cash = sums.realized - Held(row) - Fee(e, q)
  <2>1. SpotGap(row, sums) = 0
    BY DEF RowConsistent, SpotGap
  <2>. QED
    BY <1>2, <1>3, <2>1 DEF RowConsistent
<1>5. CASE row.status = "OPEN"
  <2>1. Contribution(row) = Pnl(row, row.price, q) + Held(row)
    BY <1>5, OpenRowContributes
  <2>2. Worth(row, sums) = sums.cash + Contribution(row)
    BY <1>5 DEF Worth
  <2>. QED
    BY <1>2, <1>3, <1>4, <2>1, <2>2
<1>6. CASE row.status # "OPEN"
  <2>1. /\ q = 0 /\ row.entryNotional = Notional(e, q)
        /\ row.collateral = Collateral(row.key, e, q)
    BY <1>1, <1>6 DEF RowConsistent
  <2>2. Held(row) = 0 /\ Fee(e, q) = 0 /\ Pnl(row, row.price, q) = 0
    <3>1. /\ Notional(e, 0) = 0 /\ Collateral(row.key, e, 0) = 0 /\ Fee(e, 0) = 0
      BY <1>1, LedgerAssumption DEF LedgerAssumption, Notional, Collateral, Fee
    <3>2. Pnl(row, row.price, 0) = 0
      <4>1. Direction(row.side) \in Int /\ Leverage \in Int
        BY LedgerAssumption DEF LedgerAssumption, Direction
      <4>. QED
        BY <1>1, <4>1 DEF Pnl
    <3>. QED
      BY <2>1, <3>1, <3>2 DEF Held
  <2>3. Worth(row, sums) = sums.cash + 0
    BY <1>6 DEF Worth
  <2>. QED
    BY <1>2, <1>4, <2>2, <2>3
<1>. QED
  BY <1>5, <1>6

LEMMA WorthInt ==
  ASSUME NEW row \in Row, NEW sums \in Sums
  PROVE  Worth(row, sums) \in Int
<1>1. row.price \in Nat /\ row.quantity \in Nat /\ row.key \in Keys
  BY DEF Row
<1>2. /\ Notional(row.price, row.quantity) \in Int
      /\ Pnl(row, row.price, row.quantity) \in Int
      /\ row.collateral \in Int /\ sums.cash \in Int
  BY <1>1, MoneyInt, PnlInt DEF Row, Sums
<1>3. Contribution(row) \in Int
  BY <1>2 DEF Contribution
<1>. QED
  BY <1>2, <1>3 DEF Worth

\* The equity of any rows and trades is the starting balance and what each of
\* them is worth.
LEMMA EquityIsWorth ==
  ASSUME NEW rows \in [Positions -> Row], NEW sums \in [Positions -> Sums]
  PROVE  Equity(rows, sums)
           = StartingBalance + SumFunctionOnSet(WorthOf(rows, sums), Positions)
<1>. DEFINE open == OpenRows(rows)
            S(f, U) == SumFunctionOnSet(f, U)
            cash == [p \in Positions |-> sums[p].cash]
            given == [p \in Positions |-> Contribution(rows[p])]
            counted == [p \in Positions |-> IF p \in open THEN given[p] ELSE 0]
<1>1. IsFiniteSet(Positions) /\ open \in SUBSET Positions /\ IsFiniteSet(open)
  BY AccountAssumption, FS_Subset DEF AccountAssumption, OpenRows
<1>2. \A p \in Positions :
        /\ cash[p] \in Int /\ counted[p] \in Int
        /\ p \notin open => counted[p] = 0
        /\ p \in open => given[p] \in Int /\ counted[p] = given[p]
        /\ WorthOf(rows, sums)[p] = cash[p] + counted[p]
  <2>. TAKE p \in Positions
  <2>1. rows[p] \in Row /\ sums[p] \in Sums /\ cash[p] = sums[p].cash
    OBVIOUS
  <2>2. sums[p].cash \in Int
    BY <2>1 DEF Sums
  <2>3. Worth(rows[p], sums[p])
          = sums[p].cash + (IF rows[p].status = "OPEN" THEN Contribution(rows[p]) ELSE 0)
    BY DEF Worth
  <2>4. Contribution(rows[p]) \in Int
    <3>1. /\ rows[p].price \in Nat /\ rows[p].quantity \in Nat
          /\ rows[p].key \in Keys /\ rows[p].collateral \in Int
      BY <2>1 DEF Row
    <3>2. /\ Notional(rows[p].price, rows[p].quantity) \in Int
          /\ Pnl(rows[p], rows[p].price, rows[p].quantity) \in Int
      BY <2>1, <3>1, MoneyInt, PnlInt
    <3>. QED
      BY <3>1, <3>2 DEF Contribution
  <2>5. given[p] = Contribution(rows[p]) /\ (p \in open <=> rows[p].status = "OPEN")
    BY DEF OpenRows
  <2>6. WorthOf(rows, sums)[p] = Worth(rows[p], sums[p])
    BY DEF WorthOf
  <2>. HIDE DEF given, open, cash
  <2>7. counted[p] = IF rows[p].status = "OPEN" THEN Contribution(rows[p]) ELSE 0
    BY <2>5
  <2>. HIDE DEF counted
  <2>. QED
    BY <2>1, <2>2, <2>3, <2>4, <2>5, <2>6, <2>7
<1>3. /\ CashBalance(sums) = StartingBalance + S(cash, Positions)
      /\ Equity(rows, sums) = CashBalance(sums) + S(given, open)
  BY DEF CashBalance, SumFunction, Equity, SumOpen
<1>. HIDE DEF open, cash, given, counted
<1>4. S(WorthOf(rows, sums), Positions) = S(cash, Positions) + S(counted, Positions)
  BY <1>1, <1>2, SumPlus
<1>5. S(counted, Positions) = S(counted, open)
  BY <1>1, <1>2, SumWithin
<1>6. S(counted, open) = S(given, open)
  <2>1. \A p \in open : counted[p] \in Int /\ given[p] = counted[p]
    BY <1>1, <1>2
  <2>. QED
    BY <1>1, <2>1, SumSame
<1>7. S(cash, Positions) \in Int /\ S(given, open) \in Int /\ StartingBalance \in Int
  BY <1>1, <1>2, SumType, AccountAssumption DEF AccountAssumption
<1>. HIDE DEF S
<1>8. Equity(rows, sums) = StartingBalance + (S(cash, Positions) + S(counted, Positions))
  BY <1>3, <1>5, <1>6, <1>7
<1>. QED
  BY <1>4, <1>8 DEF S

\* Rows and trades that differ at one position differ in equity by its worth.
LEMMA EquityChangedAt ==
  ASSUME NEW rows \in [Positions -> Row], NEW sums \in [Positions -> Sums],
         NEW new \in [Positions -> Row], NEW booked \in [Positions -> Sums],
         NEW p \in Positions,
         \A q \in Positions : q # p => new[q] = rows[q] /\ booked[q] = sums[q]
  PROVE  Equity(new, booked)
           = Equity(rows, sums) - Worth(rows[p], sums[p]) + Worth(new[p], booked[p])
<1>. DEFINE f == WorthOf(rows, sums)
            g == WorthOf(new, booked)
<1>1. \A q \in Positions : /\ f[q] = Worth(rows[q], sums[q])
                          /\ g[q] = Worth(new[q], booked[q])
  BY DEF WorthOf
<1>. HIDE DEF f, g
<1>2. \A q \in Positions : f[q] \in Int /\ g[q] \in Int /\ (q # p => g[q] = f[q])
  <2>. TAKE q \in Positions
  <2>1. /\ rows[q] \in Row /\ sums[q] \in Sums
        /\ new[q] \in Row /\ booked[q] \in Sums
    OBVIOUS
  <2>2. Worth(rows[q], sums[q]) \in Int /\ Worth(new[q], booked[q]) \in Int
    BY <2>1, WorthInt
  <2>3. q # p => Worth(new[q], booked[q]) = Worth(rows[q], sums[q])
    OBVIOUS
  <2>. QED
    BY <1>1, <2>2, <2>3
<1>3. IsFiniteSet(Positions) /\ StartingBalance \in Int
  BY AccountAssumption DEF AccountAssumption
<1>4. SumFunctionOnSet(g, Positions) = SumFunctionOnSet(f, Positions) - f[p] + g[p]
  BY <1>2, <1>3, SumChangedAt
<1>5. SumFunctionOnSet(f, Positions) \in Int
  BY <1>2, <1>3, SumType
<1>6. /\ Equity(new, booked) = StartingBalance + SumFunctionOnSet(g, Positions)
      /\ Equity(rows, sums) = StartingBalance + SumFunctionOnSet(f, Positions)
  BY EquityIsWorth DEF f, g
<1>7. /\ f[p] = Worth(rows[p], sums[p]) /\ g[p] = Worth(new[p], booked[p])
      /\ f[p] \in Int /\ g[p] \in Int
  BY <1>1, <1>2
<1>. QED
  BY <1>3, <1>4, <1>5, <1>6, <1>7

\* A marked row has the price of its symbol.
LEMMA MarkedAt ==
  ASSUME NEW row \in Row, NEW price
  PROVE  LET new == Marked(row, SymbolOf[row.key], price)
         IN /\ new.status = row.status /\ new.side = row.side /\ new.key = row.key
            /\ new.quantity = row.quantity /\ new.entryPrice = row.entryPrice
            /\ row.status = "OPEN" => new.price = price
            /\ row.status # "OPEN" => new = row
BY DEF Marked, Row

\* The profit of a position depends on its side, entry price and quantity alone.
LEMMA PnlOf ==
  ASSUME NEW row, NEW new, NEW price, NEW qty,
         new.side = row.side, new.entryPrice = row.entryPrice
  PROVE  Pnl(new, price, qty) = Pnl(row, price, qty)
BY DEF Pnl

LEMMA PnlSplits ==
  ASSUME NEW row \in Row, NEW price \in Nat, NEW a \in Nat, NEW b \in Nat
  PROVE  Pnl(row, price, a + b) = Pnl(row, price, a) + Pnl(row, price, b)
<1>1. \A c, x, y \in Int : c * (x + y) = c * x + c * y
  OBVIOUS
<1>2. Leverage * Direction(row.side) * (price - row.entryPrice) \in Int
  <2>1. /\ Leverage \in Int /\ Direction(row.side) \in Int
        /\ price - row.entryPrice \in Int
    BY LedgerAssumption DEF LedgerAssumption, Direction, Row
  <2>. QED
    BY <2>1
<1>. QED
  BY <1>1, <1>2 DEF Pnl

\* An entry is worth nothing but the fee it costs.
LEMMA EntryCosts ==
  ASSUME NEW k \in Keys, NEW side \in Sides, NEW price \in Prices,
         NEW qty \in Nat, qty > 0, InstrumentOf[k] = "SPOT" => side = "LONG"
  PROVE  LET row == Marked(OpenedRow(k, side, price, qty), SymbolOf[k], price)
             sums == OpenedSums(k, side, price, qty)
         IN /\ row \in Row /\ sums \in Sums /\ row.price = price /\ row.key = k
            /\ row.status = "OPEN"
            /\ Worth(row, sums) = -Fee(price, qty)
            /\ sums.entryFee = Fee(price, qty) /\ sums.exitFee = 0
<1>. DEFINE opened == OpenedRow(k, side, price, qty)
            row == Marked(opened, SymbolOf[k], price)
            sums == OpenedSums(k, side, price, qty)
<1>1. /\ opened \in Row /\ sums \in Sums /\ RowConsistent(opened, sums)
      /\ opened.key = k /\ opened.status = "OPEN" /\ opened.entryPrice = price
      /\ opened.quantity = qty
      /\ sums.realized = 0 /\ sums.entryFee = Fee(price, qty) /\ sums.exitFee = 0
      /\ sums.charges = 0
  BY OpenedConsistent DEF OpenedRow, OpenedSums
<1>. HIDE DEF opened, sums
<1>2. row \in Row /\ RowConsistent(row, sums)
  BY <1>1, MarkedKeeps
<1>3. /\ row.status = "OPEN" /\ row.key = k /\ row.price = price
      /\ row.entryPrice = price /\ row.quantity = qty
  BY <1>1, MarkedAt
<1>. HIDE DEF row
<1>4. Worth(row, sums) = sums.realized + Pnl(row, row.price, row.quantity)
                           - Fee(row.entryPrice, row.quantity)
  BY <1>1, <1>2, <1>3, WorthIsProfit
<1>5. price \in Nat /\ Fee(price, qty) \in Int
  BY MoneyInt, LedgerAssumption DEF LedgerAssumption
<1>6. Pnl(row, price, qty) = 0
  <2>1. Leverage * Direction(row.side) \in Int
    BY LedgerAssumption DEF LedgerAssumption, Direction
  <2>. QED
    BY <1>3, <1>5, <2>1 DEF Pnl
<1>7. Worth(row, sums) = 0 + 0 - Fee(price, qty)
  BY <1>1, <1>3, <1>4, <1>6
<1>. QED
  BY <1>1, <1>2, <1>3, <1>5, <1>7 DEF row, opened, sums

\* An exit of a position never charged funding takes its fee from what the
\* position was worth at the price of the fill.
LEMMA ExitCosts ==
  ASSUME NEW row \in Row, NEW sums \in Sums, NEW price \in Prices,
         NEW filled \in 1 .. row.quantity, row.status = "OPEN",
         RowConsistent(row, sums), sums.charges = 0
  PROVE  LET b == ExitBooking(row, sums, price, filled)
             s == SymbolOf[row.key]
             before == Marked(row, s, price)
             new == Marked(ReducedRow(row, b, price), s, price)
             booked == AddExit(sums, b)
         IN /\ new \in Row /\ booked \in Sums /\ new.price = price /\ new.key = row.key
            /\ Worth(new, booked) = Worth(before, sums) - Fee(price, filled)
            /\ booked.exitFee = sums.exitFee + Fee(price, filled)
            /\ booked.entryFee = sums.entryFee
<1>. DEFINE b == ExitBooking(row, sums, price, filled)
            s == SymbolOf[row.key]
            e == row.entryPrice
            rest == row.quantity - filled
            reduced == ReducedRow(row, b, price)
            before == Marked(row, s, price)
            new == Marked(reduced, s, price)
            booked == AddExit(sums, b)
<1>1. /\ price \in Nat /\ e \in Nat /\ row.quantity \in Nat /\ filled \in Nat
      /\ rest \in Nat /\ row.quantity = filled + rest /\ row.key \in Keys
  BY LedgerAssumption DEF LedgerAssumption, Row
<1>2. /\ b.closed = filled /\ b.fee = Fee(price, filled) /\ b.fundingAlloc = 0
      /\ b.realized = Pnl(row, price, filled) - Fee(e, filled) - b.fee
                        - b.fundingAlloc
  BY ExitBookingExact DEF RowConsistent
<1>3. reduced \in Row /\ booked \in Sums /\ RowConsistent(reduced, booked)
  BY ExitConsistent
<1>. HIDE DEF b
<1>4. /\ reduced.key = row.key /\ reduced.side = row.side /\ reduced.entryPrice = e
      /\ reduced.quantity = rest /\ reduced.price = price /\ reduced.status # "NONE"
  <2>1. AtLeast0(row.quantity - b.closed) = rest
    BY <1>1, <1>2 DEF AtLeast0
  <2>. QED
    BY <2>1 DEF ReducedRow
<1>5. /\ booked.realized = sums.realized + b.realized
      /\ booked.exitFee = sums.exitFee + b.fee /\ booked.entryFee = sums.entryFee
      /\ booked.charges = sums.charges
  BY DEF AddExit
<1>. HIDE DEF reduced, booked, s
<1>6. /\ new \in Row /\ RowConsistent(new, booked) /\ new.status # "NONE"
      /\ new.key = row.key /\ new.side = row.side /\ new.entryPrice = e
      /\ new.quantity = rest /\ new.price = price
  <2>1. /\ new \in Row /\ RowConsistent(new, booked)
        /\ new.status = reduced.status
    BY <1>3, MarkedKeeps
  <2>2. s = SymbolOf[reduced.key]
    BY <1>4 DEF s
  <2>. QED
    BY <1>3, <1>4, <2>1, <2>2, MarkedAt
<1>7. /\ before \in Row /\ RowConsistent(before, sums) /\ before.status = "OPEN"
      /\ before.side = row.side /\ before.entryPrice = e
      /\ before.quantity = row.quantity /\ before.price = price
  BY MarkedKeeps, MarkedAt DEF s
<1>. HIDE DEF new, before
<1>8. /\ Worth(new, booked) = booked.realized + Pnl(row, price, rest) - Fee(e, rest)
      /\ Worth(before, sums)
           = sums.realized + Pnl(row, price, row.quantity) - Fee(e, row.quantity)
  BY <1>3, <1>5, <1>6, <1>7, WorthIsProfit, PnlOf
<1>9. /\ Pnl(row, price, filled + rest) = Pnl(row, price, filled) + Pnl(row, price, rest)
      /\ Fee(e, filled + rest) = Fee(e, filled) + Fee(e, rest)
  <2>1. Pnl(row, price, filled + rest)
          = Pnl(row, price, filled) + Pnl(row, price, rest)
    BY <1>1, PnlSplits
  <2>2. \A k \in Keys : Fee(e, filled + rest) = Fee(e, filled) + Fee(e, rest)
    BY <1>1, MoneySplits
  <2>. QED
    BY <1>1, <2>1, <2>2
<1>10. /\ Pnl(row, price, filled) \in Int /\ Pnl(row, price, rest) \in Int
       /\ Fee(e, filled) \in Int /\ Fee(e, rest) \in Int /\ Fee(price, filled) \in Int
       /\ sums.realized \in Int
  BY <1>1, PnlInt, MoneyInt DEF Sums
<1>. HIDE DEF e, rest
<1>11. Worth(new, booked) = Worth(before, sums) - Fee(price, filled)
  BY <1>1, <1>2, <1>5, <1>8, <1>9, <1>10
<1>. QED
  BY <1>2, <1>3, <1>5, <1>6, <1>11 DEF b, s, reduced, before, new, booked

\* TradeCostsOnlyItsFee for one handler.
LEMMA StepCostsItsFee ==
  ASSUME LedgerInv, [LedgerNext]_ledgerVars, NEW p \in Positions,
         trades'[p] # trades[p], trades'[p].charges = 0
  PROVE  LET marked == MarkAll(position, SymbolOf[position'[p].key], position'[p].price)
             fees == trades'[p].entryFee + trades'[p].exitFee
                     - trades[p].entryFee - trades[p].exitFee
         IN Equity(position', trades') = Equity(marked, trades) - fees
<1>. DEFINE s == SymbolOf[position'[p].key]
            marked == MarkAll(position, s, position'[p].price)
            fees == trades'[p].entryFee + trades'[p].exitFee
                    - trades[p].entryFee - trades[p].exitFee
            Goal == Equity(position', trades') = Equity(marked, trades) - fees
<1>1. /\ position \in [Positions -> Row] /\ trades \in [Positions -> Sums]
      /\ \A q \in Positions : /\ position[q] \in Row /\ trades[q] \in Sums
                              /\ RowConsistent(position[q], trades[q])
  BY RowsAreTyped
<1>2. position' \in [Positions -> Row] /\ trades' \in [Positions -> Sums]
  <2>1. LedgerInv'
    BY NextInv
  <2>. QED
    BY <2>1 DEF LedgerInv, LedgerTypeOK
\* What is left to show of a handler at a price: it changes the worth of one
\* position by the fees, and marks the others.
<1>3. ASSUME NEW price \in Prices, position'[p].price = price,
             \A q \in Positions : q # p =>
               position'[q] = Marked(position[q], s, price) /\ trades'[q] = trades[q],
             fees \in Int,
             Worth(position'[p], trades'[p])
               = Worth(Marked(position[p], s, price), trades[p]) - fees
      PROVE  Goal
  <2>1. /\ marked \in [Positions -> Row]
        /\ \A q \in Positions : marked[q] = Marked(position[q], s, price)
    <3>1. marked = MarkAll(position, s, price)
      BY <1>3
    <3>2. MarkAll(position, s, price) \in [Positions -> Row]
      BY <1>1, MarkAllKeeps
    <3>3. \A q \in Positions :
            MarkAll(position, s, price)[q] = Marked(position[q], s, price)
      BY DEF MarkAll
    <3>. HIDE DEF marked, s
    <3>. QED
      BY <3>1, <3>2, <3>3
  <2>. HIDE DEF marked, fees, s
  <2>2. \A q \in Positions : q # p => position'[q] = marked[q] /\ trades'[q] = trades[q]
    BY <1>3, <2>1
  <2>3. Equity(position', trades')
          = Equity(marked, trades) - Worth(marked[p], trades[p])
              + Worth(position'[p], trades'[p])
    BY <1>1, <1>2, <2>1, <2>2, EquityChangedAt
  <2>4. Equity(marked, trades) \in Int
    <3>1. /\ IsFiniteSet(Positions) /\ StartingBalance \in Int
          /\ \A q \in Positions : WorthOf(marked, trades)[q] \in Int
      BY <1>1, <2>1, WorthInt, AccountAssumption DEF AccountAssumption, WorthOf
    <3>2. SumFunctionOnSet(WorthOf(marked, trades), Positions) \in Int
      BY <3>1, SumType
    <3>. QED
      BY <1>1, <2>1, <3>1, <3>2, EquityIsWorth
  <2>5. Worth(marked[p], trades[p]) \in Int
    BY <1>1, <2>1, WorthInt
  <2>6. Worth(position'[p], trades'[p]) = Worth(marked[p], trades[p]) - fees
    BY <1>3, <2>1
  <2>. QED
    BY <1>3, <2>3, <2>4, <2>5, <2>6
<1>4. ASSUME NEW o \in Positions, Enter(o)
      PROVE  Goal
  <2>1. PICK k \in Keys, side \in Sides, ref \in Prices, price \in Prices,
             want \in Quantities : \E qty \in 1 .. want :
               RecordEntryFill(o, k, side, ref, want, price, qty)
    BY <1>4 DEF Enter
  <2>2. PICK qty \in 1 .. want : RecordEntryFill(o, k, side, ref, want, price, qty)
    BY <2>1
  <2>. DEFINE opened == OpenedRow(k, side, price, qty)
              booked == OpenedSums(k, side, price, qty)
              row == Marked(opened, SymbolOf[k], price)
  <2>3. qty \in Nat /\ qty > 0 /\ InstrumentOf[k] = "SPOT" => side = "LONG"
    BY <2>2, LedgerAssumption DEF LedgerAssumption, RecordEntryFill
  <2>4. /\ position' = MarkAll([position EXCEPT ![o] = opened], SymbolOf[k], price)
        /\ trades' = [trades EXCEPT ![o] = booked]
        /\ position[o].status = "NONE"
    BY <2>2 DEF RecordEntryFill
  <2>. HIDE DEF opened, booked
  <2>5. o = p /\ trades'[p] = booked
    BY <1>1, <2>4
  <2>6. /\ position'[p] = row
        /\ \A q \in Positions : q # p =>
             /\ position'[q] = Marked(position[q], SymbolOf[k], price)
             /\ trades'[q] = trades[q]
    BY <1>1, <2>4, <2>5 DEF MarkAll
  <2>7. /\ row.price = price /\ row.key = k /\ Worth(row, booked) = -Fee(price, qty)
        /\ booked.entryFee = Fee(price, qty) /\ booked.exitFee = 0
    BY <2>3, EntryCosts DEF opened, booked
  <2>8. /\ position[p] = NoRow /\ trades[p] = NoSums
    BY <1>1, <2>4, <2>5 DEF RowConsistent
  <2>9. /\ Worth(Marked(position[p], s, price), trades[p]) = 0
        /\ trades[p].entryFee = 0 /\ trades[p].exitFee = 0
    BY <2>8 DEF Marked, Worth, NoRow, NoSums
  <2>10. Fee(price, qty) \in Int
    BY <2>3, MoneyInt, LedgerAssumption DEF LedgerAssumption
  <2>11. fees = Fee(price, qty)
    BY <2>5, <2>7, <2>9, <2>10
  <2>12. s = SymbolOf[k] /\ position'[p].price = price
    BY <2>6, <2>7
  <2>. HIDE DEF fees, s, row, Goal
  <2>13. Worth(position'[p], trades'[p])
           = Worth(Marked(position[p], s, price), trades[p]) - fees
    BY <2>5, <2>6, <2>7, <2>9, <2>10, <2>11
  <2>. QED
    BY <1>3, <2>6, <2>10, <2>11, <2>12, <2>13
<1>5. ASSUME NEW o \in Positions, Exit(o)
      PROVE  Goal
  <2>1. PICK ref \in Prices, price \in Prices, filled \in 1 .. position[o].quantity :
          ClosePosition(o, ref, price, filled)
    BY <1>5 DEF Exit
  <2>. DEFINE b == ExitBooking(position[o], trades[o], price, filled)
              sym == SymbolOf[position[o].key]
              reduced == ReducedRow(position[o], b, price)
              new == Marked(reduced, sym, price)
              booked == AddExit(trades[o], b)
  <2>2. /\ position' = MarkAll([position EXCEPT ![o] = reduced], sym, price)
        /\ trades' = [trades EXCEPT ![o] = booked]
        /\ position[o].status = "OPEN"
    BY <2>1 DEF ClosePosition, IsOpen
  <2>3. booked.charges = trades[o].charges
    BY DEF AddExit
  <2>. HIDE DEF b, reduced, booked
  <2>4. o = p /\ trades'[p] = booked
    BY <1>1, <2>2
  <2>5. /\ position'[p] = new
        /\ \A q \in Positions : q # p =>
             /\ position'[q] = Marked(position[q], sym, price)
             /\ trades'[q] = trades[q]
    BY <1>1, <2>2, <2>4 DEF MarkAll
  <2>6. trades[p].charges = 0
    BY <2>3, <2>4
  <2>7. /\ new.price = price /\ new.key = position[p].key
        /\ Worth(new, booked)
             = Worth(Marked(position[p], sym, price), trades[p]) - Fee(price, filled)
        /\ booked.exitFee = trades[p].exitFee + Fee(price, filled)
        /\ booked.entryFee = trades[p].entryFee
    BY <1>1, <2>2, <2>4, <2>6, ExitCosts DEF b, reduced, booked
  <2>8. s = sym /\ position'[p].price = price
    BY <2>4, <2>5, <2>7
  <2>9. Fee(price, filled) \in Int
    <3>1. filled \in Nat /\ price \in Nat
      BY <1>1, LedgerAssumption DEF LedgerAssumption, Row
    <3>. QED
      BY <3>1, MoneyInt, LedgerAssumption DEF LedgerAssumption
  <2>10. trades[p].entryFee \in Int /\ trades[p].exitFee \in Int
    BY <1>1 DEF Sums
  <2>11. fees = Fee(price, filled)
    BY <2>4, <2>7, <2>9, <2>10
  <2>. HIDE DEF fees, s, new, sym, Goal
  <2>. QED
    BY <1>3, <2>4, <2>5, <2>7, <2>8, <2>9, <2>11
<1>6. ASSUME NEW o \in Positions, NEW rate \in FundingRates,
             RecordFundingCharge(o, rate)
      PROVE  Goal
  <2>1. \E charge : trades' = [trades EXCEPT ![o] = AddFunding(trades[o], charge)]
    BY <1>6 DEF RecordFundingCharge
  <2>2. o = p
    BY <1>1, <2>1
  <2>3. trades'[p].charges = trades[p].charges + 1 /\ trades[p].charges \in Nat
    BY <1>1, <2>1, <2>2 DEF AddFunding, Sums
  <2>. QED
    BY <2>3
<1>7. ASSUME NEW sym \in Symbols, NEW price \in Prices, MarkToMarket(sym, price)
      PROVE  Goal
  BY <1>7 DEF MarkToMarket
<1>8. CASE UNCHANGED ledgerVars
  BY <1>8 DEF ledgerVars
<1>. QED
  BY <1>4, <1>5, <1>6, <1>7, <1>8 DEF LedgerNext

\* TradeCostsOnlyItsFee, for any row, any split of its exits and any prices.
THEOREM TradeCostsTheorem == AccountSpec => TradeCostsOnlyItsFee
<1>1. LedgerInv /\ [LedgerNext]_ledgerVars =>
        [\A p \in Positions :
           trades'[p] # trades[p] /\ trades'[p].charges = 0 =>
             LET marked == MarkAll(position, SymbolOf[position'[p].key],
                                   position'[p].price)
                 fees == trades'[p].entryFee + trades'[p].exitFee
                         - trades[p].entryFee - trades[p].exitFee
             IN Equity(position', trades') = Equity(marked, trades) - fees]_accountVars
  BY StepCostsItsFee
<1>. QED
  BY <1>1, AccountImplementsLedger, LedgerInvariant, PTL
     DEF LedgerSpec, TradeCostsOnlyItsFee

-----------------------------------------------------------------------------
\* Raising a peak to the same equity twice is raising it once.
LEMMA AtLeastTwice ==
  ASSUME NEW x, NEW y
  PROVE  AtLeast(AtLeast(x, y), y) = AtLeast(x, y)
BY DEF AtLeast

\* The peak a recalculation writes depends on the rows by their equity alone.
LEMMA PeakOfRecalculated ==
  ASSUME NEW rows, NEW sums, NEW peak
  PROVE  /\ Recalculated(rows, sums, peak).peak = AtLeast(peak, Equity(rows, sums))
         /\ Recalculated(rows, sums, peak).equity = Equity(rows, sums)
BY DEF Recalculated

\* Recalculating twice at one price is recalculating once.
LEMMA MarkedTwiceAtOnce ==
  ASSUME NEW s, NEW q
  PROVE  MarkedTwice(s, q, q)
           = Recalculated(MarkAll(position, s, q), trades, portfolio.peak)
<1>. DEFINE rows == MarkAll(position, s, q)
            e == Equity(rows, trades)
<1>1. Recalculated(rows, trades, portfolio.peak).peak = AtLeast(portfolio.peak, e)
  BY PeakOfRecalculated
<1>2. AtLeast(AtLeast(portfolio.peak, e), e) = AtLeast(portfolio.peak, e)
  BY AtLeastTwice
<1>. HIDE DEF rows
<1>3. Recalculated(rows, trades, AtLeast(portfolio.peak, e))
        = Recalculated(rows, trades, portfolio.peak)
  BY <1>2 DEF Recalculated
<1>. QED
  BY <1>1, <1>3 DEF MarkedTwice, rows

-----------------------------------------------------------------------------
\* Every gated step is a step of the account or leaves it alone.
LEMMA GateStepIsAccountStep ==
  [GateNext]_gateVars => [AccountNext]_accountVars
<1>. SUFFICES ASSUME [GateNext]_gateVars
              PROVE  [AccountNext]_accountVars
  OBVIOUS
<1>0. \A k \in Keys : SymbolOf[k] \in Symbols
  BY LedgerAssumption DEF LedgerAssumption
<1>1. ASSUME NEW p \in Positions, GateEnter(p)
      PROVE  AccountNext
  <2>1. AccountEnter(p)
    BY <1>1 DEF GateEnter, AccountEnter
  <2>. QED
    BY <2>1 DEF AccountNext
<1>2. ASSUME NEW p \in Positions, GateExit(p)
      PROVE  AccountNext
  BY <1>2 DEF GateExit, AccountNext
<1>3. CASE GateRefuse
  <2>1. AccountMark
    BY <1>0, <1>3 DEF GateRefuse, AccountMark
  <2>. QED
    BY <2>1 DEF AccountNext
<1>4. CASE GateRest
  <2>1. AccountMark
    BY <1>0, <1>4 DEF GateRest, AccountMark
  <2>. QED
    BY <2>1 DEF AccountNext
<1>5. CASE GateMark
  <2>1. PICK s \in Symbols, price \in Prices :
          /\ MarkToMarket(s, price)
          /\ portfolio' = Recalculated(position', trades, portfolio.peak)
    BY <1>5 DEF GateMark
  <2>2. portfolio' = MarkedTwice(s, price, price)
    BY <2>1, MarkedTwiceAtOnce DEF MarkToMarket
  <2>3. AccountMark
    BY <2>1, <2>2 DEF AccountMark
  <2>. QED
    BY <2>3 DEF AccountNext
<1>6. CASE Tick
  BY <1>6 DEF Tick, accountVars
<1>7. CASE UNCHANGED gateVars
  BY <1>7 DEF gateVars, accountVars
<1>. QED
  BY <1>1, <1>2, <1>3, <1>4, <1>5, <1>6, <1>7 DEF GateNext

\* The gate implements the account: it only ever says no.
THEOREM GateImplementsAccount == GateSpec => AccountSpec
<1>1. GateInit => AccountInit
  BY DEF GateInit
<1>. QED
  BY <1>1, GateStepIsAccountStep, PTL DEF GateSpec, AccountSpec

-----------------------------------------------------------------------------
\* A flat account has nothing to mark.
LEMMA FlatIsUnmarked ==
  ASSUME position \in [Positions -> Row], OpenPositions = {}, NEW s, NEW price
  PROVE  MarkAll(position, s, price) = position
<1>1. \A p \in Positions : position[p].status # "OPEN"
  BY DEF OpenPositions, IsOpen
<1>2. \A p \in Positions : Marked(position[p], s, price) = position[p]
  BY <1>1 DEF Marked
<1>. QED
  BY <1>2 DEF MarkAll

\* Whatever a flat account is recalculated at, the breaker is as it was.
LEMMA FlatRecalculation ==
  ASSUME position \in [Positions -> Row], OpenPositions = {},
         NEW s, NEW first, NEW second
  PROVE  MarkedTwice(s, first, second)
           = Recalculated(position, trades, portfolio.peak)
<1>. DEFINE e == Equity(position, trades)
<1>1. MarkAll(position, s, first) = position /\ MarkAll(position, s, second) = position
  BY FlatIsUnmarked
<1>2. Recalculated(position, trades, portfolio.peak).peak = AtLeast(portfolio.peak, e)
  BY PeakOfRecalculated
<1>3. AtLeast(AtLeast(portfolio.peak, e), e) = AtLeast(portfolio.peak, e)
  BY AtLeastTwice
<1>4. Recalculated(position, trades, AtLeast(portfolio.peak, e))
        = Recalculated(position, trades, portfolio.peak)
  BY <1>3 DEF Recalculated
<1>. QED
  BY <1>1, <1>2, <1>4 DEF MarkedTwice

\* A tripped breaker stays tripped through a recalculation of a flat account.
LEMMA FlatStaysTripped ==
  ASSUME position \in [Positions -> Row], Latched, UNCHANGED <<position, trades>>,
         portfolio' = Recalculated(position, trades, portfolio.peak)
  PROVE  Latched'
<1>. DEFINE e == Equity(position, trades)
            now == Recalculated(position, trades, portfolio.peak)
<1>1. now.peak = AtLeast(portfolio.peak, e)
  BY PeakOfRecalculated
<1>2. AtLeast(AtLeast(portfolio.peak, e), e) = AtLeast(portfolio.peak, e)
  BY AtLeastTwice
<1>3. Recalculated(position, trades, now.peak) = now
  BY <1>1, <1>2 DEF Recalculated
<1>. HIDE DEF now
<1>4. Recalculated(position', trades', portfolio'.peak) = now
  BY <1>3 DEF now
<1>5. BreakerTripped(now)
  BY DEF Latched, now
<1>6. OpenPositions' = {}
  BY DEF Latched, OpenPositions, IsOpen
<1>. QED
  BY <1>4, <1>5, <1>6 DEF Latched

\* No handler finds its way past a tripped breaker while the account is flat.
LEMMA LatchedStep ==
  ASSUME LedgerTypeOK, Latched, [GateNext]_gateVars
  PROVE  Latched'
<1>0. /\ position \in [Positions -> Row]
      /\ OpenPositions = {}
      /\ BreakerTripped(Recalculated(position, trades, portfolio.peak))
  BY DEF LedgerTypeOK, Latched
<1>1. ASSUME NEW k, NEW side, NEW ref, NEW check, NEW want, NEW quote
      PROVE  ~Passes(k, side, ref, check, want, quote)
  <2>1. MarkedTwice(SymbolOf[k], ref, check)
          = Recalculated(position, trades, portfolio.peak)
    BY <1>0, FlatRecalculation
  <2>2. BreakerTripped(MarkedTwice(SymbolOf[k], ref, check))
    BY <1>0, <2>1
  <2>. QED
    BY <2>2 DEF Passes, Approved, TooMuchLost
<1>2. ASSUME NEW s, NEW price, MarkToMarket(s, price)
      PROVE  UNCHANGED <<position, trades>>
  BY <1>0, <1>2, FlatIsUnmarked DEF MarkToMarket
<1>3. ASSUME NEW p \in Positions, GateEnter(p)
      PROVE  FALSE
  BY <1>1, <1>3 DEF GateEnter
<1>4. ASSUME NEW p \in Positions, GateExit(p)
      PROVE  FALSE
  BY <1>0, <1>4 DEF GateExit, AccountExit, Exit, ClosePosition, OpenPositions
<1>5. CASE GateRefuse
  <2>1. PICK k \in Keys, ref \in Prices, check \in Prices :
          /\ MarkToMarket(SymbolOf[k], check)
          /\ portfolio' = MarkedTwice(SymbolOf[k], ref, check)
    BY <1>5 DEF GateRefuse
  <2>2. portfolio' = Recalculated(position, trades, portfolio.peak)
    BY <1>0, <2>1, FlatRecalculation
  <2>. QED
    BY <1>0, <1>2, <2>1, <2>2, FlatStaysTripped
<1>6. CASE GateRest
  BY <1>1, <1>6 DEF GateRest
<1>7. CASE GateMark
  <2>1. PICK s \in Symbols, price \in Prices :
          /\ MarkToMarket(s, price)
          /\ portfolio' = Recalculated(position', trades, portfolio.peak)
    BY <1>7 DEF GateMark
  <2>2. UNCHANGED <<position, trades>>
    BY <1>2, <2>1
  <2>3. portfolio' = Recalculated(position, trades, portfolio.peak)
    BY <2>1, <2>2
  <2>. QED
    BY <1>0, <2>2, <2>3, FlatStaysTripped
<1>8. ASSUME UNCHANGED <<position, trades, portfolio>>
      PROVE  Latched'
  BY <1>8 DEF Latched, OpenPositions, IsOpen
<1>. QED
  BY <1>3, <1>4, <1>5, <1>6, <1>7, <1>8 DEF GateNext, Tick, gateVars

\* Once a flat account is down by the drawdown limit, it never trades again.
THEOREM BreakerLatchesTheorem == GateSpec => BreakerLatches
<1>1. GateSpec => []LedgerTypeOK
  BY GateImplementsAccount, AccountImplementsLedger, LedgerTypeCorrect, PTL
<1>2. LedgerTypeOK /\ [GateNext]_gateVars => (Latched => Latched')
  BY LatchedStep
<1>3. LedgerTypeOK /\ [GateNext]_gateVars => [Latched => Latched']_gateVars
  BY <1>2
<1>. QED
  BY <1>1, <1>3, PTL DEF GateSpec, BreakerLatches
-----------------------------------------------------------------------------
\* Marking changes neither the status nor the key of a row.
LEMMA MarkedStatus ==
  ASSUME NEW rows \in [Positions -> Row], NEW s, NEW price, NEW p \in Positions
  PROVE  /\ MarkAll(rows, s, price)[p].status = rows[p].status
         /\ MarkAll(rows, s, price)[p].key = rows[p].key
<1>1. rows[p] \in Row
  OBVIOUS
<1>2. /\ Marked(rows[p], s, price).status = rows[p].status
      /\ Marked(rows[p], s, price).key = rows[p].key
  BY <1>1 DEF Marked, Row
<1>. QED
  BY <1>2 DEF MarkAll

\* An entry opens its own primary key, of the symbol it was checked for, and
\* changes no other status.
LEMMA EntryStatus ==
  ASSUME position \in [Positions -> Row], NEW p \in Positions, NEW k \in Keys,
         NEW side \in Sides, NEW ref \in Prices, NEW want \in Quantities,
         NEW price \in Prices, NEW qty \in 1 .. want,
         RecordEntryFill(p, k, side, ref, want, price, qty)
  PROVE  /\ position[p].status = "NONE"
         /\ position'[p].status = "OPEN" /\ position'[p].key = k
         /\ \A q \in Positions \ {p} : position'[q].status = position[q].status
<1>. DEFINE opened == [position EXCEPT ![p] = OpenedRow(k, side, price, qty)]
<1>1. price \in Nat /\ qty \in Nat /\ qty > 0 /\ (InstrumentOf[k] = "SPOT" => side = "LONG")
  BY LedgerAssumption DEF LedgerAssumption, RecordEntryFill
<1>2. OpenedRow(k, side, price, qty) \in Row
  BY <1>1, OpenedConsistent
<1>3. opened \in [Positions -> Row]
  BY <1>2
<1>4. position' = MarkAll(opened, SymbolOf[k], price)
  BY DEF RecordEntryFill
<1>5. opened[p].status = "OPEN" /\ opened[p].key = k
  BY DEF OpenedRow
<1>6. \A q \in Positions \ {p} : opened[q] = position[q]
  OBVIOUS
<1>7. position[p].status = "NONE"
  BY DEF RecordEntryFill
<1>. HIDE DEF opened
<1>8. \A q \in Positions : /\ position'[q].status = opened[q].status
                          /\ position'[q].key = opened[q].key
  BY <1>3, <1>4, MarkedStatus
<1>. QED
  BY <1>5, <1>6, <1>7, <1>8

\* A recalculation changes no status.
LEMMA MarkStatus ==
  ASSUME position \in [Positions -> Row], NEW s, NEW price, MarkToMarket(s, price)
  PROVE  \A q \in Positions : position'[q].status = position[q].status
BY MarkedStatus DEF MarkToMarket

\* An exit sells of an open row and changes no other status.
LEMMA ExitStatus ==
  ASSUME LedgerInv, LedgerInv', NEW p \in Positions, AccountExit(p)
  PROVE  /\ position[p].status = "OPEN"
         /\ position'[p].status \in {"OPEN", "CLOSED"}
         /\ \A q \in Positions \ {p} : position'[q].status = position[q].status
<1>1. PICK ref \in Prices, price \in Prices, filled \in 1 .. position[p].quantity :
        ClosePosition(p, ref, price, filled)
  BY DEF AccountExit, Exit
<1>. DEFINE b == ExitBooking(position[p], trades[p], price, filled)
            reduced == [position EXCEPT ![p] = ReducedRow(@, b, price)]
<1>2. position' = MarkAll(reduced, SymbolOf[position[p].key], price)
  BY <1>1 DEF ClosePosition
<1>3. position[p].status = "OPEN"
  BY <1>1 DEF ClosePosition, IsOpen
<1>4. /\ position \in [Positions -> Row]
      /\ position' \in [Positions -> Row]
  BY DEF LedgerInv, LedgerTypeOK
<1>5. ReducedRow(position[p], b, price).status \in {"OPEN", "CLOSED"}
  BY DEF ReducedRow
<1>6. \A row, s, q : Marked(row, s, q).status = row.status
                    \/ row.status = "OPEN"
  BY DEF Marked
<1>7. ASSUME NEW q \in Positions \ {p}
      PROVE  position'[q].status = position[q].status
  <2>1. reduced[q] = position[q]
    BY <1>4
  <2>2. position'[q] = Marked(position[q], SymbolOf[position[p].key], price)
    BY <1>2, <2>1 DEF MarkAll
  <2>3. Marked(position[q], SymbolOf[position[p].key], price).status
          = position[q].status
    BY <1>4 DEF Marked, Row
  <2>. QED
    BY <2>2, <2>3
<1>8. position'[p].status \in {"OPEN", "CLOSED"}
  <2>1. position'[p] = Marked(ReducedRow(position[p], b, price),
                              SymbolOf[position[p].key], price)
    BY <1>2, <1>4 DEF MarkAll
  <2>2. CASE ReducedRow(position[p], b, price).status = "CLOSED"
    BY <2>1, <2>2 DEF Marked
  <2>3. CASE ReducedRow(position[p], b, price).status = "OPEN"
    BY <2>1, <2>3 DEF Marked, ReducedRow
  <2>. QED
    BY <1>5, <2>2, <2>3
<1>. QED
  BY <1>3, <1>7, <1>8

-----------------------------------------------------------------------------
\* The notes of the exits go with the statuses of the rows.
LEMMA GateTypeNext ==
  ASSUME LedgerInv, LedgerInv', GateTypeOK, [GateNext]_gateVars
  PROVE  GateTypeOK'
<1>. USE DEF GateTypeOK, ExitNotesAgree
<1>0. /\ position \in [Positions -> Row]
      /\ clock \in Nat /\ MaxTime \in Nat
  BY GateAssumption DEF LedgerInv, LedgerTypeOK, GateAssumption
<1>1. ASSUME UNCHANGED <<clock, exit>>,
             \A q \in Positions : position'[q].status = "NONE" => position[q].status = "NONE",
             \A q \in Positions : position'[q].status = "CLOSED" => position[q].status = "CLOSED"
      PROVE  GateTypeOK'
  BY <1>1
<1>2. ASSUME NEW p \in Positions, GateEnter(p)
      PROVE  GateTypeOK'
  <2>1. PICK k \in Keys, side \in Sides, check \in Prices, want \in Quantities,
             price \in Prices :
          \E qty \in 1 .. want : RecordEntryFill(p, k, side, check, want, price, qty)
    BY <1>2 DEF GateEnter
  <2>2. /\ position'[p].status = "OPEN"
        /\ \A q \in Positions \ {p} : position'[q].status = position[q].status
    BY <1>0, <2>1, EntryStatus
  <2>3. UNCHANGED <<clock, exit>>
    BY <1>2 DEF GateEnter
  <2>. QED
    BY <1>1, <2>2, <2>3
<1>3. ASSUME NEW p \in Positions, GateExit(p)
      PROVE  GateTypeOK'
  <2>1. /\ position[p].status = "OPEN"
        /\ position'[p].status \in {"OPEN", "CLOSED"}
        /\ \A q \in Positions \ {p} : position'[q].status = position[q].status
    BY <1>3, ExitStatus DEF GateExit
  <2>2. PICK reason \in ExitReasons :
          exit' = [exit EXCEPT ![p] = ExitNoted(@, position'[p].status = "CLOSED", reason)]
    BY <1>3 DEF GateExit
  <2>3. clock' = clock
    BY <1>3 DEF GateExit
  <2>4. exit'[p] = ExitNoted(exit[p], position'[p].status = "CLOSED", reason)
    BY <2>2
  <2>5. \A q \in Positions \ {p} : exit'[q] = exit[q]
    BY <2>2
  <2>6. exit'[p] \in [reason : ExitReasons, at : Int, stop : Int]
    BY <1>0, <2>4 DEF ExitNoted
  <2>7. exit' \in [Positions -> [reason : ExitReasons, at : Int, stop : Int]]
    BY <2>2, <2>4, <2>6
  <2>8. /\ exit'[p].stop <= clock
        /\ position'[p].status = "CLOSED" => exit'[p].at = clock
        /\ position'[p].status = "CLOSED" /\ exit'[p].reason = "stop_loss" =>
             exit'[p].stop = exit'[p].at
    BY <1>0, <2>1, <2>4 DEF ExitNoted
  <2>. QED
    BY <1>0, <2>1, <2>3, <2>5, <2>7, <2>8
<1>4. ASSUME NEW s, NEW price, MarkToMarket(s, price), UNCHANGED <<clock, exit>>
      PROVE  GateTypeOK'
  BY <1>0, <1>1, <1>4, MarkStatus
<1>5. CASE GateRefuse
  BY <1>4, <1>5 DEF GateRefuse
<1>6. CASE GateRest
  BY <1>4, <1>6 DEF GateRest
<1>7. CASE GateMark
  BY <1>4, <1>7 DEF GateMark
<1>8. CASE Tick
  <2>1. /\ clock' = clock + 1 /\ clock' \in 0 .. MaxTime
        /\ UNCHANGED <<position, exit>>
    BY <1>0, <1>8 DEF Tick
  <2>. QED
    BY <1>0, <2>1
<1>9. CASE UNCHANGED gateVars
  BY <1>9 DEF gateVars
<1>. QED
  BY <1>2, <1>3, <1>5, <1>6, <1>7, <1>8, <1>9 DEF GateNext

\* Rows, trades and exit notes agree in every behaviour of the gate.
THEOREM GateTypeCorrect == GateSpec => [](LedgerInv /\ GateTypeOK)
<1>1. GateSpec => []LedgerInv
  BY GateImplementsAccount, AccountImplementsLedger, LedgerInvariant, PTL
<1>2. GateInit => GateTypeOK
  BY GateAssumption
     DEF GateInit, AccountInit, LedgerInit, GateTypeOK, ExitNotesAgree, NoExit,
         NoRow, Never, ExitReasons, GateAssumption
<1>. QED
  BY <1>1, <1>2, GateTypeNext, PTL DEF GateSpec

\* Only an entry of its own opens a position.
LEMMA OpenedByEntry ==
  ASSUME LedgerInv, [GateNext]_gateVars, NEW p \in Positions, Opened(p)
  PROVE  GateEnter(p)
<1>0. position \in [Positions -> Row]
  BY DEF LedgerInv, LedgerTypeOK
<1>1. ASSUME NEW s, NEW price, MarkToMarket(s, price)
      PROVE  FALSE
  BY <1>0, <1>1, MarkStatus DEF Opened
<1>2. ASSUME NEW o \in Positions, GateExit(o)
      PROVE  FALSE
  <2>1. PICK ref \in Prices, price \in Prices, filled \in 1 .. position[o].quantity :
          ClosePosition(o, ref, price, filled)
    BY <1>2 DEF GateExit, AccountExit, Exit
  <2>2. o # p
    BY <2>1 DEF ClosePosition, IsOpen, Opened
  <2>3. position'[p] = Marked(position[p], SymbolOf[position[o].key], price)
    BY <1>0, <2>1, <2>2 DEF ClosePosition, MarkAll
  <2>. QED
    BY <2>3 DEF Marked, Opened
<1>3. PICK r \in Positions : GateEnter(r)
  BY <1>1, <1>2 DEF GateNext, GateRefuse, GateRest, GateMark, Tick, gateVars, Opened
<1>4. PICK k \in Keys, side \in Sides, check \in Prices, want \in Quantities,
           price \in Prices :
        \E qty \in 1 .. want : RecordEntryFill(r, k, side, check, want, price, qty)
  BY <1>3 DEF GateEnter
<1>5. r = p
  BY <1>0, <1>4, EntryStatus DEF Opened
<1>. QED
  BY <1>3, <1>5

\* An entry within the cooldown of a stop-loss fill meets a position still open,
\* or one whose rest was sold for another reason.
THEOREM StoppedSymbolTheorem == GateSpec => OnlyForgottenStopsPass
<1>1. ASSUME LedgerInv, GateTypeOK, [GateNext]_gateVars,
             NEW q \in Positions, EntersAfterStop(q)
      PROVE  position[q].status = "OPEN" \/ exit[q].reason # "stop_loss"
  <2>0. PICK p \in Positions :
          Opened(p) /\ SymbolOf[position[q].key] = SymbolOf[position'[p].key]
    BY <1>1 DEF EntersAfterStop
  <2>1. position \in [Positions -> Row] /\ position[q] \in Row
    BY <1>1 DEF LedgerInv, LedgerTypeOK
  <2>2. PICK k \in Keys, side \in Sides, ref \in Prices, check \in Prices,
             want \in Quantities, quote \in Quotes,
             price \in Prices :
          /\ Passes(k, side, ref, check, want, quote)
          /\ \E qty \in 1 .. want : RecordEntryFill(p, k, side, check, want, price, qty)
    BY <1>1, <2>0, OpenedByEntry DEF GateEnter
  <2>3. position'[p].key = k
    BY <2>1, <2>2, EntryStatus
  <2>4. ~InCooldown(SymbolOf[k])
    BY <2>2 DEF Passes, Approved, TooMuchLost
  <2>. QED
    BY <1>1, <2>0, <2>1, <2>3, <2>4
       DEF InCooldown, EntersAfterStop, GateTypeOK, ExitNotesAgree, NoExit, Row
<1>2. LedgerInv /\ GateTypeOK /\ [GateNext]_gateVars =>
        [\A q \in Positions :
           EntersAfterStop(q) =>
             position[q].status = "OPEN" \/ exit[q].reason # "stop_loss"]_gateVars
  BY <1>1
<1>. QED
  BY <1>2, GateTypeCorrect, PTL DEF GateSpec, OnlyForgottenStopsPass

-----------------------------------------------------------------------------
\* Filled at the checked price, an entry adds its own row to the rows as marked
\* there, and takes its fee from the equity they were checked with.
LEMMA FilledAtCheck ==
  ASSUME LedgerInv, ProfitInv, NEW p \in Positions, NEW k \in Keys,
         NEW side \in Sides, NEW check \in Prices, NEW want \in Quantities,
         NEW qty \in 1 .. want, RecordEntryFill(p, k, side, check, want, check, qty)
  PROVE  LET marked == MarkAll(position, SymbolOf[k], check)
         IN /\ position' \in [Positions -> Row]
            /\ position'[p].key = k /\ position'[p].side = side
            /\ position'[p].price = check /\ position'[p].quantity = qty
            /\ marked \in [Positions -> Row]
            /\ \A q \in Positions : q # p => position'[q] = marked[q]
            /\ p \notin OpenRows(marked)
            /\ OpenRows(position') = OpenRows(marked) \cup {p}
            /\ Equity(position', trades') + trades'[p].entryFee
                 = Equity(marked, trades)
<1>. DEFINE marked == MarkAll(position, SymbolOf[k], check)
            opened == OpenedRow(k, side, check, qty)
            row == Marked(opened, SymbolOf[k], check)
<1>1. /\ position \in [Positions -> Row] /\ trades \in [Positions -> Sums]
      /\ position[p].status = "NONE" /\ RowConsistent(position[p], trades[p])
  BY RowsAreTyped DEF RecordEntryFill
<1>0. \A q \in Positions : RowConsistent(position[q], trades[q])
  BY RowsAreTyped
<1>2. qty \in Nat /\ qty > 0 /\ (InstrumentOf[k] = "SPOT" => side = "LONG")
  BY LedgerAssumption DEF LedgerAssumption, RecordEntryFill
<1>3. /\ row \in Row /\ row.price = check /\ row.key = k /\ row.status = "OPEN"
      /\ OpenedSums(k, side, check, qty) \in Sums
      /\ OpenedSums(k, side, check, qty).entryFee = Fee(check, qty)
      /\ OpenedSums(k, side, check, qty).exitFee = 0
  BY <1>2, EntryCosts
<1>4. opened \in Row /\ opened.key = k /\ opened.side = side /\ opened.quantity = qty
  BY <1>2, OpenedConsistent DEF OpenedRow
<1>. HIDE DEF opened
<1>5. row.side = side /\ row.quantity = qty
  BY <1>4, MarkedAt
<1>6. /\ position' = MarkAll([position EXCEPT ![p] = opened], SymbolOf[k], check)
      /\ trades' = [trades EXCEPT ![p] = OpenedSums(k, side, check, qty)]
  BY DEF RecordEntryFill, opened
<1>. HIDE DEF row
<1>7. /\ position'[p] = row /\ trades'[p] = OpenedSums(k, side, check, qty)
      /\ \A q \in Positions : q # p => position'[q] = marked[q]
  BY <1>1, <1>6 DEF MarkAll, row
<1>8. marked \in [Positions -> Row] /\ marked[p] = position[p]
  <2>1. marked \in [Positions -> Row]
    BY <1>0, <1>1, MarkAllKeeps
  <2>2. marked[p] = Marked(position[p], SymbolOf[k], check)
    BY DEF MarkAll
  <2>. QED
    BY <1>1, <2>1, <2>2 DEF Marked
<1>. HIDE DEF marked
<1>9. position' \in [Positions -> Row]
  <2>1. DOMAIN position' = Positions /\ position' = [q \in Positions |-> position'[q]]
    BY <1>6 DEF MarkAll
  <2>2. \A q \in Positions : position'[q] \in Row
    BY <1>3, <1>7, <1>8
  <2>. QED
    BY <2>1, <2>2
<1>10. p \notin OpenRows(marked) /\ OpenRows(position') = OpenRows(marked) \cup {p}
  BY <1>1, <1>3, <1>7, <1>8 DEF OpenRows
<1>11. Equity(position', trades') = Equity(marked, trades) - Fee(check, qty)
  <2>1. [LedgerNext]_ledgerVars
    BY DEF LedgerNext, Enter
  <2>2. /\ trades[p] = NoSums /\ trades[p].entryQty = 0 /\ trades'[p].entryQty = qty
        /\ trades'[p].charges = 0 /\ trades[p].entryFee = 0 /\ trades[p].exitFee = 0
    BY <1>1, <1>7 DEF RowConsistent, NoSums, OpenedSums
  <2>3. trades'[p] # trades[p]
    BY <1>2, <2>2
  <2>4. Equity(position', trades')
          = Equity(MarkAll(position, SymbolOf[position'[p].key], position'[p].price),
                   trades)
            - (trades'[p].entryFee + trades'[p].exitFee
               - trades[p].entryFee - trades[p].exitFee)
    BY <2>1, <2>2, <2>3, StepCostsItsFee
  <2>5. Fee(check, qty) \in Int
    BY <1>2, MoneyInt, LedgerAssumption DEF LedgerAssumption
  <2>6. Equity(position', trades')
          = Equity(marked, trades) - (Fee(check, qty) + 0 - 0 - 0)
    BY <1>3, <1>7, <2>2, <2>4 DEF marked
  <2>. QED
    BY <2>5, <2>6
<1>12. Equity(marked, trades) \in Int
  <2>1. \A q \in Positions : WorthOf(marked, trades)[q] \in Int
    BY <1>1, <1>8, WorthInt DEF WorthOf
  <2>. QED
    BY <1>1, <1>8, <2>1, EquityIsWorth, SumType, AccountAssumption
       DEF AccountAssumption
<1>13. Equity(position', trades') + trades'[p].entryFee = Equity(marked, trades)
  <2>1. trades'[p].entryFee = Fee(check, qty) /\ Fee(check, qty) \in Int
    BY <1>2, <1>3, <1>7, MoneyInt, LedgerAssumption DEF LedgerAssumption
  <2>. QED
    BY <1>11, <1>12, <2>1
<1>. QED
  BY <1>3, <1>5, <1>7, <1>8, <1>9, <1>10, <1>13 DEF marked

\* The row an entry adds brings its amount into every sum over the open rows.
LEMMA ExposureAdds ==
  ASSUME NEW p \in Positions, NEW rows, NEW before \in SUBSET Positions,
         p \notin before, OpenRows(rows) = before \cup {p}, NEW f, NEW g,
         g[p] \in Int, \A q \in before : f[q] \in Int /\ g[q] = f[q]
  PROVE  SumOpen(rows, g) = SumFunctionOnSet(f, before) + g[p]
<1>1. IsFiniteSet(before)
  BY AccountAssumption, FS_Subset DEF AccountAssumption
<1>. QED
  BY <1>1, SumOneMore DEF SumOpen

\* What moves towards a projection ends within it or nearer to zero.
LEMMA TowardsProjection ==
  ASSUME NEW net \in Int, NEW d \in {-1, 1}, NEW part \in Nat, NEW whole \in Nat,
         0 < part, part <= whole
  PROVE  \/ AbsoluteValue(net + d * part) <= AbsoluteValue(net + d * whole)
         \/ AbsoluteValue(net + d * part) < AbsoluteValue(net)
BY DEF AbsoluteValue

\* A percentage that covers an amount covers a smaller one.
LEMMA ExceedsLess ==
  ASSUME NEW x \in Int, NEW y \in Int, x <= y, NEW pct \in Int, NEW z \in Int,
         ~Exceeds(y, pct, z)
  PROVE  ~Exceeds(x, pct, z)
<1>1. pct * z \in Int
  OBVIOUS
<1>. HIDE <1>1
<1>. DEFINE cap == pct * z
<1>2. cap \in Int /\ ~(100 * y > cap)
  BY <1>1 DEF Exceeds
<1>. HIDE DEF cap
<1>3. ~(100 * x > cap)
  BY <1>2
<1>. QED
  BY <1>3 DEF Exceeds, cap

\* CapsHoldAfterFill for one entry.
LEMMA EntryWithinCaps ==
  ASSUME LedgerInv, ProfitInv, NEW p \in Positions, GateEnter(p),
         position'[p].entryPrice = lastEntry'.check
  PROVE  LET equity == portfolio'.equity + trades'[p].entryFee
             side == position'[p].side
             marked == MarkedTwice(SymbolOf[position'[p].key], lastEntry'.ref,
                                   lastEntry'.check)
         IN /\ ~Exceeds(portfolio'.gross, Settings.max_gross_exposure_pct, equity)
            /\ ~Exceeds(SideExposure(position', side),
                        Settings.max_side_exposure_pct, equity)
            /\ \/ ~Exceeds(AbsoluteValue(portfolio'.net),
                           Settings.max_net_exposure_pct, equity)
               \/ AbsoluteValue(portfolio'.net) < AbsoluteValue(marked.net)
<1>1. PICK k \in Keys, side \in Sides, ref \in Prices, check \in Prices,
           want \in Quantities, quote \in Quotes :
        /\ Passes(k, side, ref, check, want, quote)
        /\ \E price \in Prices, qty \in 1 .. want :
             RecordEntryFill(p, k, side, check, want, price, qty)
        /\ portfolio' = Recalculated(position', trades',
                                     MarkedTwice(SymbolOf[k], ref, check).peak)
        /\ lastEntry' = [ref |-> ref, check |-> check]
  BY DEF GateEnter
<1>2. PICK price \in Prices, qty \in 1 .. want :
        RecordEntryFill(p, k, side, check, want, price, qty)
  BY <1>1
<1>3. /\ price \in Nat /\ check \in Nat /\ qty \in Nat /\ qty > 0 /\ want \in Nat
      /\ price > 0 /\ check > 0 /\ Lot \in Nat /\ Lot > 0
      /\ Leverage \in Nat /\ Leverage > 0
      /\ InstrumentOf[k] = "SPOT" => side = "LONG"
  <2>1. want \in Nat /\ price \in Nat \ {0} /\ check \in Nat \ {0}
    BY LedgerAssumption DEF LedgerAssumption
  <2>2. Lot \in Nat \ {0} /\ Leverage \in Nat \ {0}
    BY LedgerAssumption DEF LedgerAssumption
  <2>3. InstrumentOf[k] = "SPOT" => side = "LONG"
    BY <1>2 DEF RecordEntryFill
  <2>. QED
    BY <2>1, <2>2, <2>3
<1>4. RecordEntryFill(p, k, side, check, want, check, qty)
  <2>1. position'[p].entryPrice = price
    <3>1. /\ OpenedRow(k, side, price, qty) \in Row
          /\ OpenedRow(k, side, price, qty).entryPrice = price
          /\ OpenedRow(k, side, price, qty).key = k
      BY <1>2, <1>3, OpenedConsistent DEF OpenedRow, RecordEntryFill
    <3>2. position'[p] = Marked(OpenedRow(k, side, price, qty), SymbolOf[k], price)
      BY <1>2, RowsAreTyped DEF RecordEntryFill, MarkAll
    <3>. QED
      BY <3>1, <3>2, MarkedAt
  <2>. QED
    BY <1>1, <1>2, <2>1
<1>. DEFINE s == SymbolOf[k]
            marked == MarkAll(position, s, check)
            account == MarkedTwice(s, ref, check)
            before == OpenRows(marked)
            size == RoundToLot(want)
            part == Notional(check, qty)
            whole == Notional(check, size)
            d == Direction(side)
            e == Equity(marked, trades)
<1>5. /\ position' \in [Positions -> Row] /\ marked \in [Positions -> Row]
      /\ position'[p] \in Row /\ position'[p].key = k /\ position'[p].side = side
      /\ position'[p].price = check /\ position'[p].quantity = qty
      /\ \A q \in Positions : q # p => position'[q] = marked[q]
      /\ p \notin before /\ OpenRows(position') = before \cup {p}
      /\ Equity(position', trades') + trades'[p].entryFee = e
  <2>1. /\ position' \in [Positions -> Row]
        /\ position'[p].key = k /\ position'[p].side = side
        /\ position'[p].price = check /\ position'[p].quantity = qty
        /\ marked \in [Positions -> Row]
        /\ \A q \in Positions : q # p => position'[q] = marked[q]
        /\ p \notin OpenRows(marked)
        /\ OpenRows(position') = OpenRows(marked) \cup {p}
        /\ Equity(position', trades') + trades'[p].entryFee
             = Equity(marked, trades)
    BY <1>4, FilledAtCheck
  <2>2. position'[p] \in Row
    BY <2>1
  <2>. QED
    BY <2>1, <2>2
<1>6. /\ before \in SUBSET Positions /\ IsFiniteSet(before)
      /\ d \in {-1, 1}
      /\ size \in Nat /\ qty <= size
  <2>1. IsFiniteSet(Positions) /\ before \in SUBSET Positions
    BY AccountAssumption DEF AccountAssumption, OpenRows
  <2>2. size \in Nat
    <3>1. want \div Lot \in Nat
      BY <1>3
    <3>. QED
      BY <1>3, <3>1 DEF RoundToLot
  <2>3. qty <= size
    BY <1>2 DEF RecordEntryFill
  <2>. QED
    BY <2>1, <2>2, <2>3, FS_Subset DEF Direction
<1>7. part \in Nat /\ whole \in Nat /\ 0 < part /\ part <= whole
  <2>1. \A a \in Nat, b \in Nat : a * b \in Nat /\ (a > 0 /\ b > 0 => a * b > 0)
    OBVIOUS
  <2>2. \A a, b, c \in Nat : b <= c => a * b <= a * c
    OBVIOUS
  <2>3. Leverage * check \in Nat /\ Leverage * check > 0
    BY <1>3, <2>1
  <2>. HIDE DEF size
  <2>. QED
    BY <1>3, <1>6, <2>1, <2>2, <2>3 DEF Notional
<1>. DEFINE was == GrossOf(marked)
            is == GrossOf(position')
            wasNet == NetOf(marked)
            isNet == NetOf(position')
            wasSide == [q \in Positions |-> IF marked[q].side = side THEN was[q] ELSE 0]
            isSide == [q \in Positions |-> IF position'[q].side = side THEN is[q] ELSE 0]
<1>8. \A q \in Positions :
        /\ was[q] \in Int /\ is[q] \in Int
        /\ wasNet[q] \in Int /\ isNet[q] \in Int
        /\ wasSide[q] \in Int /\ isSide[q] \in Int
        /\ q # p => is[q] = was[q] /\ isNet[q] = wasNet[q] /\ isSide[q] = wasSide[q]
  <2>. TAKE q \in Positions
  <2>1. marked[q] \in Row /\ position'[q] \in Row
    BY <1>5
  <2>2. /\ was[q] = Notional(marked[q].price, marked[q].quantity)
        /\ is[q] = Notional(position'[q].price, position'[q].quantity)
        /\ wasNet[q] = Direction(marked[q].side) * was[q]
        /\ isNet[q] = Direction(position'[q].side) * is[q]
    BY DEF GrossOf, NetOf
  <2>3. /\ wasSide[q] = IF marked[q].side = side THEN was[q] ELSE 0
        /\ isSide[q] = IF position'[q].side = side THEN is[q] ELSE 0
    OBVIOUS
  <2>. HIDE DEF marked, was, is, wasNet, isNet, wasSide, isSide
  <2>4. was[q] \in Int /\ is[q] \in Int
    <3>1. /\ marked[q].price \in Nat /\ marked[q].quantity \in Nat
          /\ position'[q].price \in Nat /\ position'[q].quantity \in Nat
      BY <2>1 DEF Row
    <3>. QED
      BY <2>2, <3>1, MoneyInt
  <2>5. wasNet[q] \in Int /\ isNet[q] \in Int
    <3>1. \A x, y \in Int : x * y \in Int
      OBVIOUS
    <3>2. /\ Direction(marked[q].side) \in Int
          /\ Direction(position'[q].side) \in Int
      BY DEF Direction
    <3>. QED
      BY <2>2, <2>4, <3>1, <3>2
  <2>6. q # p => position'[q] = marked[q]
    BY <1>5
  <2>. QED
    BY <2>2, <2>3, <2>4, <2>5, <2>6
<1>9. is[p] = part /\ isNet[p] = d * part /\ isSide[p] = part
  BY <1>5 DEF GrossOf, NetOf
<1>10. /\ SumOpen(position', is) = SumFunctionOnSet(was, before) + part
       /\ SumOpen(position', isNet) = SumFunctionOnSet(wasNet, before) + d * part
       /\ SumOpen(position', isSide) = SumFunctionOnSet(wasSide, before) + part
  <2>. HIDE DEF was, is, wasNet, isNet, wasSide, isSide, before, part, d
  <2>1. /\ is[p] \in Int /\ \A q \in before : was[q] \in Int /\ is[q] = was[q]
        /\ isNet[p] \in Int
        /\ \A q \in before : wasNet[q] \in Int /\ isNet[q] = wasNet[q]
        /\ isSide[p] \in Int
        /\ \A q \in before : wasSide[q] \in Int /\ isSide[q] = wasSide[q]
    BY <1>5, <1>6, <1>8
  <2>. QED
    BY <1>5, <1>6, <1>9, <2>1, ExposureAdds
<1>11. /\ SumFunctionOnSet(was, before) \in Int
       /\ SumFunctionOnSet(wasNet, before) \in Int
       /\ SumFunctionOnSet(wasSide, before) \in Int
  <2>. HIDE DEF was, wasNet, wasSide, before
  <2>. QED
    BY <1>6, <1>8, SumType
<1>12. /\ portfolio'.gross = SumOpen(position', is)
       /\ portfolio'.net = SumOpen(position', isNet)
       /\ portfolio'.equity = Equity(position', trades')
       /\ SideExposure(position', side) = SumOpen(position', isSide)
       /\ account.gross = SumFunctionOnSet(was, before)
       /\ account.net = SumFunctionOnSet(wasNet, before)
       /\ account.equity = e
       /\ SideExposure(marked, side) = SumFunctionOnSet(wasSide, before)
  BY <1>1 DEF Recalculated, MarkedTwice, SideExposure, SumOpen
<1>13. /\ ~Exceeds(account.gross + whole, Settings.max_gross_exposure_pct, e)
       /\ ~Exceeds(AbsoluteValue(account.net + d * whole),
                   Settings.max_net_exposure_pct, e)
       /\ ~Exceeds(SideExposure(marked, side) + whole,
                   Settings.max_side_exposure_pct, e)
  <2>1. ~TooLarge(k, side, check, size, marked, account)
    BY <1>1 DEF Passes, Approved
  <2>. QED
    BY <1>12, <2>1 DEF TooLarge
<1>14. /\ Settings.max_gross_exposure_pct \in Int /\ Settings.max_net_exposure_pct \in Int
       /\ Settings.max_side_exposure_pct \in Int
  BY GateAssumption DEF GateAssumption
<1>15. e \in Int
  <2>1. trades \in [Positions -> Sums] /\ marked \in [Positions -> Row]
    BY <1>5, RowsAreTyped
  <2>. HIDE DEF marked
  <2>2. \A q \in Positions : WorthOf(marked, trades)[q] \in Int
    BY <2>1, WorthInt DEF WorthOf
  <2>. QED
    BY <2>1, <2>2, EquityIsWorth, SumType, AccountAssumption DEF AccountAssumption
<1>16. /\ portfolio'.equity + trades'[p].entryFee = e
       /\ SymbolOf[position'[p].key] = s /\ position'[p].side = side
       /\ lastEntry'.ref = ref /\ lastEntry'.check = check
  BY <1>1, <1>5, <1>12
<1>. HIDE DEF s, marked, account, before, size, part, whole, d, e,
              was, is, wasNet, isNet, wasSide, isSide
<1>17. ~Exceeds(portfolio'.gross, Settings.max_gross_exposure_pct, e)
  <2>1. portfolio'.gross \in Int /\ portfolio'.gross <= account.gross + whole
    BY <1>7, <1>10, <1>11, <1>12
  <2>2. account.gross + whole \in Int
    BY <1>7, <1>11, <1>12
  <2>. QED
    BY <1>13, <1>14, <1>15, <2>1, <2>2, ExceedsLess
<1>18. ~Exceeds(SideExposure(position', side), Settings.max_side_exposure_pct, e)
  <2>1. /\ SideExposure(position', side) \in Int
        /\ SideExposure(position', side) <= SideExposure(marked, side) + whole
        /\ SideExposure(marked, side) + whole \in Int
    BY <1>7, <1>10, <1>11, <1>12
  <2>. QED
    BY <1>13, <1>14, <1>15, <2>1, ExceedsLess
<1>19. \/ ~Exceeds(AbsoluteValue(portfolio'.net), Settings.max_net_exposure_pct, e)
       \/ AbsoluteValue(portfolio'.net) < AbsoluteValue(account.net)
  <2>1. portfolio'.net = account.net + d * part /\ account.net \in Int
    BY <1>10, <1>11, <1>12
  <2>2. \/ AbsoluteValue(portfolio'.net) <= AbsoluteValue(account.net + d * whole)
        \/ AbsoluteValue(portfolio'.net) < AbsoluteValue(account.net)
    BY <1>6, <1>7, <2>1, TowardsProjection
  <2>3. /\ AbsoluteValue(portfolio'.net) \in Int
        /\ AbsoluteValue(account.net + d * whole) \in Int
    BY <1>6, <1>7, <2>1 DEF AbsoluteValue
  <2>. QED
    BY <1>13, <1>14, <1>15, <2>2, <2>3, ExceedsLess
<1>. QED
  BY <1>16, <1>17, <1>18, <1>19 DEF account, s

\* CapsHoldAfterFill, for every setting, price, leverage and number of positions:
\* what the gate projected over the rows it marked is what the rows then show.
THEOREM CapsTheorem == GateSpec => CapsHoldAfterFill
<1>1. ASSUME LedgerInv, ProfitInv, [GateNext]_gateVars, NEW p \in Positions,
             Opened(p), position'[p].entryPrice = lastEntry'.check
      PROVE  LET equity == portfolio'.equity + trades'[p].entryFee
                 side == position'[p].side
                 marked == MarkedTwice(SymbolOf[position'[p].key], lastEntry'.ref,
                                       lastEntry'.check)
             IN /\ ~Exceeds(portfolio'.gross, Settings.max_gross_exposure_pct, equity)
                /\ ~Exceeds(SideExposure(position', side),
                            Settings.max_side_exposure_pct, equity)
                /\ \/ ~Exceeds(AbsoluteValue(portfolio'.net),
                               Settings.max_net_exposure_pct, equity)
                   \/ AbsoluteValue(portfolio'.net) < AbsoluteValue(marked.net)
  BY <1>1, OpenedByEntry, EntryWithinCaps
<1>2. LedgerInv /\ ProfitInv /\ [GateNext]_gateVars =>
        [\A p \in Positions :
           Opened(p) /\ position'[p].entryPrice = lastEntry'.check =>
             LET equity == portfolio'.equity + trades'[p].entryFee
                 side == position'[p].side
                 marked == MarkedTwice(SymbolOf[position'[p].key], lastEntry'.ref,
                                       lastEntry'.check)
             IN /\ ~Exceeds(portfolio'.gross, Settings.max_gross_exposure_pct, equity)
                /\ ~Exceeds(SideExposure(position', side),
                            Settings.max_side_exposure_pct, equity)
                /\ \/ ~Exceeds(AbsoluteValue(portfolio'.net),
                               Settings.max_net_exposure_pct, equity)
                   \/ AbsoluteValue(portfolio'.net) < AbsoluteValue(marked.net)]_gateVars
  BY <1>1
<1>. QED
  BY <1>2, ProfitInvariant, GateTypeCorrect, GateImplementsAccount, AccountImplementsLedger, PTL
     DEF GateSpec, CapsHoldAfterFill
=============================================================================
