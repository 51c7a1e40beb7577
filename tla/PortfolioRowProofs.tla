-------------------------- MODULE PortfolioRowProofs --------------------------
(***************************************************************************)
(* The peak of the portfolio row, for any number of sessions, trades and   *)
(* prices: it passes what the account was worth by no more than one        *)
(* reading was wrong, and it is only ever lowered by a session that never  *)
(* saw it.  The optimizer's runs leave the row alone.  What they allocate  *)
(* is whole and affordable for any number of symbols, any scores and       *)
(* limits: the rounding of each share is carried through the sums by the   *)
(* lemmas of SumLemmas.                                                    *)
(***************************************************************************)
EXTENDS Optimizer, SumLemmas

Session == [pc : {"idle", "creating", "loaded", "summed", "computed", "holding"},
            held : Rows, known : Nat, cash : Int, computed : Int]

\* A row the account may have: nothing in it passes the ceiling.
WithinCeiling(r) == r.peak <= Ceiling /\ r.equity <= Ceiling

\* A session past its load holds a row that exists, and what it has in hand does
\* not pass the ceiling.
SessionWithin(s) ==
  /\ session[s].pc \in {"loaded", "summed", "computed", "holding"} =>
       row.exists /\ session[s].held.exists /\ WithinCeiling(session[s].held)
  /\ session[s].pc = "computed" => session[s].computed <= Ceiling

RowInv ==
  /\ TypeOK /\ (row.exists => WithinCeiling(row))
  /\ StartingBalance <= Ceiling
  /\ \A s \in Sessions : SessionWithin(s)

LEMMA RowsAreNumbers ==
  ASSUME TypeOK
  PROVE  /\ best \in Int /\ gap \in Int /\ Ceiling \in Int
         /\ row \in Rows /\ row.peak \in Int /\ row.equity \in Int
         /\ \A s \in Sessions :
              /\ session[s] \in Session
              /\ session[s].held \in Rows /\ session[s].held.peak \in Int
              /\ session[s].held.equity \in Int /\ session[s].computed \in Int
<1>1. best \in Int /\ gap \in Int /\ Ceiling \in Int
  BY DEF TypeOK, Ceiling
<1>2. \A r \in Rows : r.peak \in Int /\ r.equity \in Int
  BY DEF Rows
<1>3. row \in Rows
  BY DEF TypeOK
<1>4. \A s \in Sessions : session[s] \in Session
  BY DEF TypeOK, Session
<1>5. \A x \in Session : x.held \in Rows /\ x.computed \in Int
  BY DEF Session
<1>. QED
  BY <1>1, <1>2, <1>3, <1>4, <1>5, Zenon

LEMMA RowInvInit == Init => RowInv
<1>. SUFFICES ASSUME Init PROVE RowInv
  OBVIOUS
<1>1. StartingBalance \in Int /\ MaxTrades \in Nat
  BY PortfolioRowAssumption DEF PortfolioRowAssumption
<1>2. Ceiling = StartingBalance /\ StartingBalance <= StartingBalance
  BY <1>1 DEF Init, Ceiling
<1>3. TypeOK
  BY <1>1 DEF Init, TypeOK, NoRow, Rows, Idle
<1>. QED
  BY <1>2, <1>3 DEF Init, RowInv, SessionWithin, NoRow, Idle

\* A step that leaves the row as it is and lowers no ceiling keeps the invariant
\* if it leaves a session within the ceiling.
LEMMA OwnStepKeeps ==
  ASSUME RowInv, NEW s \in Sessions, TypeOK', UNCHANGED row, Ceiling <= Ceiling',
         \A t \in Sessions \ {s} : session'[t] = session[t],
         SessionWithin(s)'
  PROVE  RowInv'
<1>1. /\ Ceiling \in Int /\ Ceiling' \in Int /\ StartingBalance \in Int
      /\ row.peak \in Int /\ row.equity \in Int
      /\ \A t \in Sessions :
           /\ session[t].held.peak \in Int /\ session[t].held.equity \in Int
           /\ session[t].computed \in Int
  <2>1. Ceiling' \in Int
    BY DEF TypeOK, Ceiling
  <2>. QED
    BY <2>1, RowsAreNumbers, PortfolioRowAssumption DEF RowInv, PortfolioRowAssumption
<1>. HIDE DEF Ceiling
<1>2. \A x \in Int : x <= Ceiling => x <= Ceiling'
  BY <1>1
<1>3. \A t \in Sessions \ {s} : SessionWithin(t)'
  <2>. SUFFICES ASSUME NEW t \in Sessions \ {s} PROVE SessionWithin(t)'
    OBVIOUS
  <2>1. SessionWithin(t) /\ session'[t] = session[t]
    BY DEF RowInv
  <2>. QED
    BY <1>1, <1>2, <2>1 DEF SessionWithin, WithinCeiling
<1>4. (row.exists => WithinCeiling(row))' /\ (StartingBalance <= Ceiling)'
  BY <1>1, <1>2 DEF RowInv, WithinCeiling
<1>. QED
  BY <1>3, <1>4 DEF RowInv

\* Reading the positions raises the ceiling over what the session now believes:
\* the error of the reading is in the gap.
LEMMA ReadingIsWithin ==
  ASSUME NEW had \in Int, NEW has \in Int, NEW held \in Int, NEW seen \in Int,
         NEW price \in Int, NEW most \in Int, NEW worst \in Int
  PROVE  LET top == AtLeast(most, has + held * price)
             error == AtLeast(worst, (had - has) + (seen - held) * price)
         IN /\ had + seen * price <= top + error
            /\ most <= top /\ worst <= error
            /\ top \in Int /\ error \in Int
<1>1. (seen - held) * price = seen * price - held * price
  OBVIOUS
<1>2. seen * price \in Int /\ held * price \in Int
  OBVIOUS
<1>. DEFINE a == seen * price
            b == held * price
<1>3. (had - has) + (seen - held) * price = (had - has) + (a - b)
  BY <1>1
<1>4. a \in Int /\ b \in Int
  BY <1>2
<1>. HIDE DEF a, b
<1>5. LET top == AtLeast(most, has + b)
          error == AtLeast(worst, (had - has) + (a - b))
      IN /\ had + a <= top + error
         /\ most <= top /\ worst <= error
         /\ top \in Int /\ error \in Int
  BY <1>4 DEF AtLeast
<1>. QED
  BY <1>3, <1>5 DEF a, b

LEMMA RowInvStep == RowInv /\ [Next]_vars => RowInv'
<1>. SUFFICES ASSUME RowInv, [Next]_vars PROVE RowInv'
  OBVIOUS
<1>0. /\ TypeOK /\ StartingBalance \in Int /\ Ceiling \in Int /\ Ceiling <= Ceiling
      /\ best \in Int /\ gap \in Nat /\ cash \in Int /\ units \in Nat
      /\ Prices \subseteq Nat
  <2>1. TypeOK /\ Ceiling \in Int
    BY RowsAreNumbers DEF RowInv
  <2>. QED
    BY <2>1, PortfolioRowAssumption DEF PortfolioRowAssumption, TypeOK
<1>1. ASSUME NEW s \in Sessions, Recalculate(s)
      PROVE  RowInv'
  <2>0. /\ SessionWithin(s) /\ (row.exists => WithinCeiling(row))
        /\ session \in [Sessions -> Session] /\ session[s] \in Session
        /\ session[s].held \in Rows /\ row \in Rows
    BY <1>0, RowsAreNumbers DEF RowInv, TypeOK, Session
  <2>1. CASE Load(s)
    <3>. DEFINE held == IF session[s].pc = "idle" THEN row ELSE session[s].held
    <3>1. /\ session' = [session EXCEPT ![s].pc = "loaded", ![s].held = held]
          /\ UNCHANGED <<cash, units, traded, row, best, gap>>
      BY <2>1 DEF Load
    <3>2. held \in Rows /\ row.exists /\ held.exists /\ WithinCeiling(held)
      BY <2>0, <2>1 DEF Load, SessionWithin
    <3>. HIDE DEF held
    <3>3. TypeOK' /\ Ceiling' = Ceiling
      BY <1>0, <3>1, <3>2 DEF TypeOK, Ceiling
    <3>4. SessionWithin(s)'
      BY <1>0, <3>1, <3>2, <3>3 DEF SessionWithin, WithinCeiling, TypeOK
    <3>. QED
      BY <1>0, <3>1, <3>3, <3>4, OwnStepKeeps DEF TypeOK
  <2>2. CASE Miss(s)
    <3>1. /\ session' = [session EXCEPT ![s].pc = "creating"]
          /\ UNCHANGED <<cash, units, traded, row, best, gap>>
      BY <2>2 DEF Miss
    <3>2. TypeOK' /\ Ceiling' = Ceiling
      BY <1>0, <3>1 DEF TypeOK, Ceiling
    <3>3. SessionWithin(s)'
      BY <1>0, <3>1 DEF SessionWithin, TypeOK
    <3>. QED
      BY <1>0, <3>1, <3>2, <3>3, OwnStepKeeps DEF TypeOK
  <2>3. CASE Create(s)
    <3>1. CASE row.exists
      <4>1. session' = [session EXCEPT ![s] = Idle]
            /\ UNCHANGED <<cash, units, traded, row, best, gap>>
        BY <2>3, <3>1 DEF Create
      <4>2. TypeOK' /\ Ceiling' = Ceiling
        BY <1>0, <4>1 DEF TypeOK, Ceiling, Idle, Rows, NoRow
      <4>3. SessionWithin(s)'
        BY <1>0, <4>1 DEF SessionWithin, TypeOK, Idle
      <4>. QED
        BY <1>0, <4>1, <4>2, <4>3, OwnStepKeeps DEF TypeOK
    <3>2. CASE ~ row.exists
      <4>1. /\ row' = FirstRow
            /\ session' = [session EXCEPT ![s].pc = "loaded", ![s].held = FirstRow]
            /\ UNCHANGED <<cash, units, traded, best, gap>>
        BY <2>3, <3>2 DEF Create
      <4>2. /\ FirstRow \in Rows /\ FirstRow.exists
            /\ FirstRow.peak = StartingBalance /\ FirstRow.equity = StartingBalance
        BY <1>0 DEF FirstRow, Rows
      <4>3. TypeOK' /\ Ceiling' = Ceiling
        BY <1>0, <4>1, <4>2 DEF TypeOK, Ceiling
      <4>4. \A t \in Sessions : SessionWithin(t)'
        BY <1>0, <3>2, <4>1, <4>2, <4>3 DEF SessionWithin, WithinCeiling, RowInv, TypeOK
      <4>. QED
        BY <4>1, <4>2, <4>3, <4>4 DEF RowInv, WithinCeiling
    <3>. QED
      BY <3>1, <3>2
  <2>4. CASE ReadCash(s)
    <3>1. /\ session' = [session EXCEPT ![s].pc = "summed", ![s].cash = cash]
          /\ UNCHANGED <<cash, units, traded, row, best, gap>>
          /\ session[s].pc = "loaded"
      BY <2>4 DEF ReadCash
    <3>2. TypeOK' /\ Ceiling' = Ceiling
      BY <1>0, <3>1 DEF TypeOK, Ceiling
    <3>3. SessionWithin(s)'
      BY <1>0, <2>0, <3>1, <3>2 DEF SessionWithin, WithinCeiling, TypeOK
    <3>. QED
      BY <1>0, <3>1, <3>2, <3>3, OwnStepKeeps DEF TypeOK
  <2>5. CASE ReadPositions(s)
    <3>1. PICK price \in Prices, seen \in Seen(s) :
            /\ session' = [session EXCEPT ![s].pc = "computed", ![s].known = seen,
                             ![s].computed = session[s].cash + seen * price]
            /\ best' = AtLeast(best, cash + units * price)
            /\ gap' = AtLeast(gap, (session[s].cash - cash) + (seen - units) * price)
      BY <2>5 DEF ReadPositions
    <3>2. /\ session[s].pc = "summed"
          /\ UNCHANGED <<cash, units, traded, row>>
      BY <2>5 DEF ReadPositions
    <3>3. seen \in Nat /\ price \in Nat /\ session[s].cash \in Int
      BY <1>0, <2>0 DEF Seen, Session
    <3>4. /\ session[s].cash + seen * price <= best' + gap'
          /\ best <= best' /\ gap <= gap' /\ best' \in Int /\ gap' \in Int
      <4>1. seen \in Int /\ price \in Int /\ units \in Int /\ gap \in Int
        BY <1>0, <3>3
      <4>. QED
        BY <1>0, <3>1, <3>3, <4>1, ReadingIsWithin
    <3>5. session[s].cash + seen * price \in Int
      BY <3>3
    <3>6. session'[s] = [session[s] EXCEPT !.pc = "computed", !.known = seen,
                           !.computed = session[s].cash + seen * price]
      BY <2>0, <3>1
    <3>7. TypeOK'
      <4>1. gap' \in Nat
        BY <1>0, <3>4
      <4>2. session'[s] \in Session
        BY <2>0, <3>3, <3>5, <3>6 DEF Session
      <4>3. session' \in [Sessions -> Session]
        BY <2>0, <3>1, <4>2
      <4>4. /\ cash' \in Int /\ units' \in Nat /\ traded' \in 0 .. MaxTrades
            /\ row' \in Rows
        BY <1>0, <2>0, <3>2 DEF TypeOK
      <4>5. best' \in Int
        BY <3>4
      <4>. QED
        BY <4>1, <4>3, <4>4, <4>5, Zenon DEF TypeOK, Session
    <3>8. Ceiling <= Ceiling'
      <4>1. best \in Int /\ gap \in Int
        BY <1>0
      <4>2. best <= best' /\ gap <= gap' /\ best' \in Int /\ gap' \in Int
        BY <3>4
      <4>3. \A a, b, c, d \in Int : a <= c /\ b <= d => a + b <= c + d
        OBVIOUS
      <4>4. best + gap <= best' + gap'
        BY <4>1, <4>2, <4>3
      <4>. QED
        BY <4>4 DEF Ceiling
    <3>9. /\ session'[s].computed = session[s].cash + seen * price
          /\ session'[s].held = session[s].held /\ session'[s].pc = "computed"
      BY <2>0, <3>6 DEF Session
    <3>10. SessionWithin(s)'
      <4>1. row'.exists /\ session'[s].held.exists /\ WithinCeiling(session[s].held)
        BY <2>0, <3>2, <3>9 DEF SessionWithin
      <4>2. session'[s].computed <= Ceiling'
        BY <3>4, <3>9 DEF Ceiling
      <4>3. /\ session[s].held.peak \in Int /\ session[s].held.equity \in Int
            /\ Ceiling' \in Int
        BY <2>0, <3>4 DEF Rows, Ceiling
      <4>4. WithinCeiling(session[s].held)'
        BY <1>0, <3>8, <3>9, <4>1, <4>3 DEF WithinCeiling
      <4>. QED
        BY <3>9, <4>1, <4>2, <4>4 DEF SessionWithin
    <3>. QED
      BY <1>0, <3>1, <3>2, <3>7, <3>8, <3>10, OwnStepKeeps DEF TypeOK
  <2>6. CASE Commit(s)
    <3>. DEFINE held == session[s].held
                computed == session[s].computed
                peak == NewPeak(held, computed)
    <3>1. /\ session[s].pc = "computed"
          /\ row' = [row EXCEPT
                       !.equity = IF computed = held.equity THEN @ ELSE computed,
                       !.peak = IF peak = held.peak THEN @ ELSE peak]
          /\ session' = [session EXCEPT ![s] =
               [pc |-> "holding", held |-> row', known |-> session[s].known,
                cash |-> 0, computed |-> 0]]
          /\ UNCHANGED <<cash, units, traded, best, gap>>
      BY <2>6 DEF Commit
    <3>2. /\ row.exists /\ held.exists
          /\ held.peak <= Ceiling /\ held.equity <= Ceiling
          /\ computed \in Int /\ computed <= Ceiling
      BY <2>0, <3>1 DEF SessionWithin, WithinCeiling, Session
    <3>3. peak \in {held.peak, computed} /\ peak <= Ceiling
      BY <3>2 DEF NewPeak, AtLeast
    <3>4. row.peak <= Ceiling /\ row.equity <= Ceiling
      BY <2>0, <3>2 DEF WithinCeiling
    <3>5. held.peak \in Int
      BY <2>0 DEF Rows
    <3>. HIDE DEF peak, held, computed
    <3>6. row' \in Rows /\ row'.exists /\ row'.peak <= Ceiling /\ row'.equity <= Ceiling
      BY <2>0, <3>1, <3>2, <3>3, <3>4, <3>5 DEF Rows
    <3>7. TypeOK' /\ Ceiling' = Ceiling
      <4>1. session[s].known \in Nat
        BY <2>0 DEF Session
      <4>2. session'[s] \in Session
        BY <2>0, <3>1, <3>6, <4>1 DEF Session
      <4>3. session' \in [Sessions -> Session]
        BY <2>0, <3>1, <4>2
      <4>4. /\ cash' \in Int /\ units' \in Nat /\ traded' \in 0 .. MaxTrades
            /\ best' \in Int /\ gap' \in Nat
        BY <1>0, <3>1 DEF TypeOK
      <4>5. TypeOK'
        BY <3>6, <4>3, <4>4, Zenon DEF TypeOK, Session
      <4>. QED
        BY <3>1, <4>5 DEF Ceiling
    <3>8. \A t \in Sessions : SessionWithin(t)'
      BY <1>0, <3>1, <3>2, <3>6, <3>7 DEF SessionWithin, WithinCeiling, RowInv, TypeOK
    <3>. QED
      BY <1>0, <3>1, <3>6, <3>7, <3>8 DEF RowInv, WithinCeiling
  <2>7. CASE Release(s)
    <3>1. session' = [session EXCEPT ![s] = Idle]
          /\ UNCHANGED <<cash, units, traded, row, best, gap>>
      BY <2>7 DEF Release
    <3>2. TypeOK' /\ Ceiling' = Ceiling
      BY <1>0, <3>1 DEF TypeOK, Ceiling, Idle, Rows, NoRow
    <3>3. SessionWithin(s)'
      BY <1>0, <3>1 DEF SessionWithin, TypeOK, Idle
    <3>. QED
      BY <1>0, <3>1, <3>2, <3>3, OwnStepKeeps DEF TypeOK
  <2>. QED
    BY <1>1, <2>1, <2>2, <2>3, <2>4, <2>5, <2>6, <2>7 DEF Recalculate
<1>2. ASSUME NEW s \in Sessions, Trade(s)
      PROVE  RowInv'
  <2>1. PICK price \in Prices, bought \in {-1, 1} :
          /\ units + bought >= 0
          /\ cash' = cash - bought * price
          /\ units' = units + bought
          /\ session' = [session EXCEPT ![s].known = units + bought]
    BY <1>2 DEF Trade
  <2>2. /\ session[s].pc \in {"idle", "holding"} /\ traded' = traded + 1
        /\ traded < MaxTrades /\ UNCHANGED <<row, best, gap>>
    BY <1>2 DEF Trade
  <2>3. cash' \in Int /\ units' \in Nat /\ traded' \in 0 .. MaxTrades
    <3>1. price \in Int /\ bought \in Int /\ bought * price \in Int
      BY <1>0
    <3>. QED
      BY <1>0, <2>1, <2>2, <3>1, PortfolioRowAssumption
         DEF TypeOK, PortfolioRowAssumption
  <2>4. TypeOK' /\ Ceiling' = Ceiling
    BY <1>0, <2>1, <2>2, <2>3 DEF TypeOK, Ceiling
  <2>5. SessionWithin(s)'
    <3>1. SessionWithin(s)
      BY DEF RowInv
    <3>. QED
      BY <1>0, <2>1, <2>2, <2>4, <3>1 DEF SessionWithin, WithinCeiling, TypeOK
  <2>. QED
    BY <1>0, <2>1, <2>2, <2>4, <2>5, OwnStepKeeps DEF TypeOK
<1>3. CASE UNCHANGED vars
  BY <1>3 DEF vars, RowInv, TypeOK, WithinCeiling, Ceiling, SessionWithin
<1>. QED
  BY <1>1, <1>2, <1>3 DEF Next

-----------------------------------------------------------------------------
\* A run of the optimizer only reads the row, and ends its session.
LEMMA RunReleases ==
  ASSUME NEW s \in Sessions, RunOptimizer(s)
  PROVE  Release(s) /\ UNCHANGED <<best, gap>>
BY DEF RunOptimizer, Release

LEMMA OptimizerStepIsRowStep == [OptimizerNext]_optimizerVars => [Next]_vars
BY RunReleases DEF OptimizerNext, optimizerVars, vars, Next, Recalculate

LEMMA OptimizerLeavesTheRow == OptimizerSpec => Spec
<1>1. OptimizerInit => Init
  BY DEF OptimizerInit
<1>. QED
  BY <1>1, OptimizerStepIsRowStep, PTL DEF OptimizerSpec, Spec

\* The recorded peak passes what the account was worth by no more than the error
\* of one reading, however many sessions read, trade and overwrite each other.
THEOREM PeakTheorem == OptimizerSpec => [](TypeOK /\ PeakErrsByOneReading)
<1>1. RowInv => TypeOK /\ PeakErrsByOneReading
  BY DEF RowInv, WithinCeiling, PeakErrsByOneReading
<1>. QED
  BY <1>1, RowInvInit, RowInvStep, OptimizerLeavesTheRow, PTL DEF Spec

\* The peak falls only where a session writes over a peak it never saw.
THEOREM PeakFallTheorem == OptimizerSpec => PeakFallsOnlyUnseen
<1>. DEFINE Falls == row.exists /\ row'.peak < row.peak
            Unseen == \E s \in Sessions :
              session[s].pc = "computed" /\ session[s].held.peak < row.peak
<1>1. RowInv /\ [Next]_vars => [Falls => Unseen]_vars
  <2>. SUFFICES ASSUME RowInv, Next, Falls PROVE Unseen
    BY DEF vars
  <2>0. /\ row \in Rows /\ row.peak \in Int
        /\ \A s \in Sessions : session[s].held.peak \in Int /\ session[s].computed \in Int
    BY RowsAreNumbers DEF RowInv
  <2>1. PICK s \in Sessions : Commit(s)
    <3>1. row' # row
      BY <2>0
    <3>. QED
      BY <3>1 DEF Next, Recalculate, Load, Miss, Create, ReadCash, ReadPositions,
            Release, Trade
  <2>. DEFINE held == session[s].held
              peak == NewPeak(held, session[s].computed)
  <2>2. /\ session[s].pc = "computed"
        /\ row'.peak = IF peak = held.peak THEN row.peak ELSE peak
    BY <2>0, <2>1 DEF Commit, Rows
  <2>3. session[s].computed \in Int
    BY <2>0
  <2>4. held.peak <= peak /\ peak \in Int
    BY <2>0, <2>3 DEF NewPeak, AtLeast
  <2>5. row'.peak = peak /\ peak < row.peak
    BY <2>0, <2>2
  <2>. QED
    BY <2>0, <2>2, <2>4, <2>5
<1>. QED
  BY <1>1, RowInvInit, RowInvStep, OptimizerLeavesTheRow, PTL
     DEF Spec, PeakFallsOnlyUnseen

-----------------------------------------------------------------------------
\* Division by a positive number.
LEMMA Quotient ==
  ASSUME NEW x \in Int, NEW d \in Nat, d > 0
  PROVE  /\ x \div d \in Int /\ d * (x \div d) <= x /\ x < d * (x \div d) + d
OBVIOUS

LEMMA CancelFactor ==
  ASSUME NEW c \in Nat, c > 0, NEW x \in Int, NEW y \in Int, c * x <= c * y
  PROVE  x <= y
OBVIOUS

LEMMA TimesFactor ==
  ASSUME NEW c \in Nat, NEW x \in Int, NEW y \in Int, x <= y
  PROVE  c * x <= c * y
OBVIOUS

LEMMA FactorTimes ==
  ASSUME NEW c \in Nat, NEW x \in Int, NEW y \in Int, x <= y
  PROVE  x * c <= y * c
OBVIOUS

LEMMA QuotientIsLargest ==
  ASSUME NEW x \in Int, NEW d \in Nat, d > 0, NEW q \in Int, d * q <= x
  PROVE  q <= x \div d
<1>1. d * q < d * (x \div d + 1)
  BY Quotient
<1>2. \A u, v \in Int : d * u < d * v => u < v
  OBVIOUS
<1>. QED
  BY <1>1, <1>2, Quotient

\* What is rounded is within half of what it was.
LEMMA NearestIsNear ==
  ASSUME NEW a \in Int, NEW b \in Nat, b > 0
  PROVE  /\ Nearest(a, b) \in Int
         /\ (2 * b) * Nearest(a, b) <= 2 * a + b
         /\ 2 * a - b <= (2 * b) * Nearest(a, b)
         /\ a >= 0 => Nearest(a, b) >= 0
<1>. DEFINE x == 2 * a + b
            d == 2 * b
<1>1. x \in Int /\ d \in Nat /\ d > 0 /\ Nearest(a, b) = x \div d
  BY DEF Nearest
<1>. HIDE DEF x, d
<1>2. x \div d \in Int /\ d * (x \div d) <= x /\ x < d * (x \div d) + d
  BY <1>1, Quotient
<1>3. d * (x \div d) \in Int
  BY <1>1, <1>2
<1>4. x - d < d * (x \div d)
  BY <1>1, <1>2, <1>3
<1>5. ASSUME a >= 0 PROVE x \div d >= 0
  <2>1. d * 0 <= x
    BY <1>1, <1>5 DEF x
  <2>. QED
    BY <1>1, <2>1, QuotientIsLargest
<1>6. x - d = 2 * a - b
  BY DEF x, d
<1>. QED
  BY <1>1, <1>2, <1>3, <1>4, <1>5, <1>6 DEF x, d

\* Rounding keeps the order of fractions, of one denominator or of two.
LEMMA NearestKeepsOrder ==
  ASSUME NEW a \in Int, NEW b \in Nat, b > 0, NEW c \in Int, NEW d \in Nat, d > 0,
         d * a <= b * c
  PROVE  Nearest(a, b) <= Nearest(c, d)
<1>. DEFINE n == Nearest(a, b)
            x == 2 * c + d
<1>1. n \in Int /\ (2 * b) * n <= 2 * a + b
  BY NearestIsNear
<1>. HIDE DEF n
<1>2. d * ((2 * b) * n) <= d * (2 * a + b)
  <2>1. (2 * b) * n \in Int /\ 2 * a + b \in Int
    BY <1>1
  <2>. QED
    BY <1>1, <2>1, TimesFactor
<1>3. /\ d * ((2 * b) * n) = b * ((2 * d) * n)
      /\ d * (2 * a + b) = 2 * (d * a) + d * b
      /\ b * (2 * c + d) = 2 * (b * c) + b * d
  <2>1. \A i, j, k \in Int : i * ((2 * j) * k) = j * ((2 * i) * k)
    OBVIOUS
  <2>2. \A i, j, k \in Int : i * (2 * j + k) = 2 * (i * j) + i * k
    OBVIOUS
  <2>. QED
    BY <1>1, <2>1, <2>2
<1>4. b * ((2 * d) * n) <= b * (2 * c + d)
  <2>1. d * a \in Int /\ b * c \in Int /\ d * b = b * d /\ d * b \in Int
    OBVIOUS
  <2>2. \A u, v, w \in Int : u <= v => 2 * u + w <= 2 * v + w
    OBVIOUS
  <2>3. 2 * (d * a) + d * b <= 2 * (b * c) + d * b
    BY <2>1, <2>2
  <2>4. b * ((2 * d) * n) <= 2 * (d * a) + d * b
    BY <1>2, <1>3
  <2>5. /\ b * ((2 * d) * n) \in Int /\ 2 * (d * a) + d * b \in Int
        /\ b * (2 * c + d) = 2 * (b * c) + d * b /\ 2 * (b * c) + d * b \in Int
    BY <1>1, <1>3, <2>1
  <2>6. \A i, j, k \in Int : i <= j /\ j <= k => i <= k
    OBVIOUS
  <2>. QED
    BY <2>3, <2>4, <2>5, <2>6
<1>5. (2 * d) * n <= 2 * c + d
  <2>1. (2 * d) * n \in Int /\ 2 * c + d \in Int
    BY <1>1
  <2>. QED
    BY <1>4, <2>1, CancelFactor
<1>6. 2 * d \in Nat /\ 2 * d > 0 /\ x \in Int /\ (2 * d) * n <= x
  BY <1>5
<1>. HIDE DEF x
<1>7. n <= x \div (2 * d)
  BY <1>1, <1>6, QuotientIsLargest
<1>. QED
  BY <1>7 DEF n, x, Nearest

-----------------------------------------------------------------------------
\* w is the share of c in the total, rounded to a 10000th.
RoundedShare(w, c, total) ==
  /\ w \in Nat
  /\ (2 * total) * w <= 20000 * c + total
  /\ 20000 * c - total <= (2 * total) * w

LEMMA ShareIsRounded ==
  ASSUME NEW c \in Nat, NEW total \in Nat, total > 0
  PROVE  RoundedShare(Nearest(10000 * c, total), c, total)
<1>. DEFINE a == 10000 * c
<1>1. a \in Int /\ a >= 0 /\ 2 * a = 20000 * c
  OBVIOUS
<1>. HIDE DEF a
<1>2. /\ Nearest(a, total) \in Int
      /\ (2 * total) * Nearest(a, total) <= 2 * a + total
      /\ 2 * a - total <= (2 * total) * Nearest(a, total)
      /\ a >= 0 => Nearest(a, total) >= 0
  BY <1>1, NearestIsNear
<1>. QED
  BY <1>1, <1>2 DEF RoundedShare, a

\* Shares of a whole, each rounded to a 10000th, add up to one but for half a
\* 10000th each.
LEMMA SharesAreWhole ==
  ASSUME NEW S, IsFiniteSet(S), NEW c, NEW w, NEW total \in Nat, total > 0,
         total = SumFunctionOnSet(c, S),
         \A x \in S : c[x] \in Nat /\ RoundedShare(w[x], c[x], total)
  PROVE  2 * (SumFunctionOnSet(w, S) - 10000) \in -Cardinality(S) .. Cardinality(S)
<1>. DEFINE n == Cardinality(S)
            sum == SumFunctionOnSet(w, S)
            scaled == [x \in S |-> (2 * total) * w[x]]
            parts == [x \in S |-> 20000 * c[x]]
            errors == [x \in S |-> total]
            less == [x \in S |-> -total]
            above == [x \in S |-> parts[x] + errors[x]]
            below == [x \in S |-> parts[x] + less[x]]
<1>1. ASSUME NEW x \in S
      PROVE  /\ w[x] \in Nat /\ scaled[x] \in Int /\ scaled[x] = (2 * total) * w[x]
             /\ parts[x] \in Int /\ parts[x] = 20000 * c[x] /\ c[x] \in Int
             /\ errors[x] = total /\ less[x] = -total
             /\ above[x] = parts[x] + errors[x] /\ below[x] = parts[x] + less[x]
             /\ above[x] \in Int /\ below[x] \in Int
             /\ scaled[x] <= above[x] /\ below[x] <= scaled[x]
  <2>. HIDE DEF scaled, above, below
  <2>1. 10000 * c[x] \in Int /\ c[x] \in Int /\ (2 * total) * w[x] \in Int
    BY DEF RoundedShare
  <2>. QED
    BY <2>1 DEF scaled, above, below, RoundedShare
<1>2. n \in Nat /\ sum \in Int
  BY <1>1, SumType, FS_CardinalityType
<1>. HIDE DEF scaled, parts, errors, less, above, below
<1>3. /\ SumFunctionOnSet(scaled, S) = (2 * total) * sum
      /\ SumFunctionOnSet(parts, S) = 20000 * total
  <2>. DEFINE d == 2 * total
  <2>1. d \in Int /\ \A x \in S : w[x] \in Int /\ scaled[x] = d * w[x]
    BY <1>1
  <2>. HIDE DEF d
  <2>2. SumFunctionOnSet(scaled, S) = d * SumFunctionOnSet(w, S)
    BY <2>1, SumScaled
  <2>3. 20000 \in Int /\ \A x \in S : c[x] \in Int /\ parts[x] = 20000 * c[x]
    BY <1>1
  <2>4. SumFunctionOnSet(parts, S) = 20000 * SumFunctionOnSet(c, S)
    BY <2>3, SumScaled
  <2>. QED
    BY <2>2, <2>4 DEF d
<1>4. /\ SumFunctionOnSet(errors, S) = total * n
      /\ SumFunctionOnSet(less, S) = (-total) * n
  BY <1>1, SumConstant
<1>5. /\ SumFunctionOnSet(above, S) = 20000 * total + total * n
      /\ SumFunctionOnSet(below, S) = 20000 * total + (-total) * n
  BY <1>1, <1>3, <1>4, SumPlus
<1>6. /\ SumFunctionOnSet(scaled, S) <= SumFunctionOnSet(above, S)
      /\ SumFunctionOnSet(below, S) <= SumFunctionOnSet(scaled, S)
  BY <1>1, SumMonotone
<1>. HIDE DEF n, sum
<1>7. /\ 20000 * total + total * n = total * (20000 + n)
      /\ 20000 * total + (-total) * n = total * (20000 - n)
      /\ (2 * total) * sum = total * (2 * sum)
  BY <1>2
<1>8. total * (2 * sum) <= total * (20000 + n) /\ total * (20000 - n) <= total * (2 * sum)
  BY <1>3, <1>5, <1>6, <1>7
<1>9. 2 * sum <= 20000 + n /\ 20000 - n <= 2 * sum
  <2>1. 2 * sum \in Int /\ 20000 + n \in Int /\ 20000 - n \in Int
    BY <1>2
  <2>. QED
    BY <1>8, <2>1, CancelFactor
<1>. QED
  BY <1>1, <1>2, <1>9 DEF n, sum

LEMMA SumPositive ==
  ASSUME NEW S, IsFiniteSet(S), S # {}, NEW f, \A x \in S : f[x] \in Nat /\ f[x] > 0
  PROVE  SumFunctionOnSet(f, S) \in Nat /\ SumFunctionOnSet(f, S) > 0
<1>. DEFINE ones == [x \in S |-> 1]
<1>1. \A x \in S : ones[x] \in Int /\ ones[x] = 1 /\ f[x] \in Int /\ ones[x] <= f[x]
  OBVIOUS
<1>. HIDE DEF ones
<1>2. /\ SumFunctionOnSet(ones, S) = 1 * Cardinality(S)
      /\ SumFunctionOnSet(ones, S) <= SumFunctionOnSet(f, S)
      /\ SumFunctionOnSet(f, S) \in Int
  BY <1>1, SumConstant, SumMonotone, SumType
<1>3. Cardinality(S) \in Nat /\ Cardinality(S) # 0
  BY FS_CardinalityType, FS_EmptySet
<1>. QED
  BY <1>2, <1>3

\* Cutting the shares of a total, then dividing by their sum, keeps their order
\* and gives none of them more than the largest had uncut.
LEMMA CutSharesBounded ==
  ASSUME NEW S, IsFiniteSet(S), S # {}, NEW p, \A x \in S : p[x] \in Nat /\ p[x] > 0,
         NEW total \in Nat, total = SumFunctionOnSet(p, S), NEW most \in Nat, most > 0,
         NEW cut, \A x \in S : cut[x] = IF 100 * p[x] < most THEN 100 * p[x] ELSE most,
         NEW sum, sum = SumFunctionOnSet(cut, S)
  PROVE  /\ total > 0 /\ sum \in Nat /\ sum > 0
         /\ \A x \in S : cut[x] \in Nat /\ cut[x] > 0
         /\ \A x, y \in S : p[x] <= p[y] =>
              Nearest(10000 * cut[x], sum) <= Nearest(10000 * cut[y], sum)
         /\ \A x \in S : \E y \in S :
              Nearest(10000 * cut[x], sum) <= Nearest(10000 * p[y], total)
<1>1. total > 0 /\ \A x \in S : cut[x] \in Nat /\ cut[x] > 0
  BY SumPositive
<1>2. sum \in Nat /\ sum > 0
  BY <1>1, SumPositive
<1>3. \A x, y \in S : p[x] <= p[y] => cut[x] <= cut[y]
  OBVIOUS
<1>4. ASSUME NEW x \in S, NEW y \in S, p[x] <= p[y]
      PROVE  Nearest(10000 * cut[x], sum) <= Nearest(10000 * cut[y], sum)
  <2>1. cut[x] \in Nat /\ cut[y] \in Nat /\ 10000 * cut[x] <= 10000 * cut[y]
    BY <1>1, <1>3, <1>4
  <2>2. 10000 * cut[x] \in Int /\ 10000 * cut[y] \in Int
    BY <2>1
  <2>3. sum * (10000 * cut[x]) <= sum * (10000 * cut[y])
    BY <1>2, <2>1, <2>2, TimesFactor
  <2>. QED
    BY <1>2, <2>2, <2>3, NearestKeepsOrder
<1>5. PICK m \in S : \A x \in S : p[x] <= p[m]
  <2>1. \A x \in S : p[x] \in Int
    OBVIOUS
  <2>. QED
    BY <2>1, LargestExists
<1>6. ASSUME NEW x \in S
      PROVE  p[x] * cut[m] <= p[m] * cut[x]
  <2>1. /\ p[x] \in Nat /\ p[m] \in Nat /\ p[x] <= p[m]
        /\ cut[x] \in Nat /\ cut[m] \in Nat
        /\ cut[m] <= 100 * p[m] /\ cut[m] <= most
        /\ cut[x] = 100 * p[x] \/ cut[x] = most
    BY <1>1, <1>5
  <2>2. \A a, b, c \in Nat : a <= b => a * c <= b * c /\ c * a <= c * b
    OBVIOUS
  <2>3. CASE cut[x] = 100 * p[x]
    <3>1. p[x] * cut[m] <= p[x] * (100 * p[m])
      BY <2>1, <2>2
    <3>2. p[x] * (100 * p[m]) = p[m] * (100 * p[x])
      <4>1. \A a, b \in Int : a * (100 * b) = b * (100 * a)
        OBVIOUS
      <4>. QED
        BY <2>1, <4>1
    <3>. QED
      BY <2>3, <3>1, <3>2
  <2>4. CASE cut[x] = most
    <3>1. p[x] * cut[m] <= p[m] * cut[m] /\ p[m] * cut[m] <= p[m] * most
      BY <2>1, <2>2
    <3>2. p[x] * cut[m] \in Int /\ p[m] * cut[m] \in Int /\ p[m] * most \in Int
      BY <2>1
    <3>. QED
      BY <2>4, <3>1, <3>2
  <2>. QED
    BY <2>1, <2>3, <2>4
<1>7. cut[m] * total <= p[m] * sum
  <2>. DEFINE f == [x \in S |-> cut[m] * p[x]]
              g == [x \in S |-> p[m] * cut[x]]
  <2>1. p[m] \in Int /\ cut[m] \in Int /\ \A x \in S : p[x] \in Int /\ cut[x] \in Int
    BY <1>1
  <2>2. ASSUME NEW x \in S
        PROVE  /\ f[x] = cut[m] * p[x] /\ g[x] = p[m] * cut[x]
               /\ f[x] \in Int /\ g[x] \in Int /\ f[x] <= g[x]
    <3>1. cut[m] * p[x] = p[x] * cut[m] /\ p[x] * cut[m] \in Int /\ p[m] * cut[x] \in Int
      BY <2>1
    <3>. QED
      BY <1>6, <3>1
  <2>. HIDE DEF f, g
  <2>3. SumFunctionOnSet(f, S) <= SumFunctionOnSet(g, S)
    BY <2>2, SumMonotone
  <2>4. /\ SumFunctionOnSet(f, S) = cut[m] * total
        /\ SumFunctionOnSet(g, S) = p[m] * sum
    BY <2>1, <2>2, SumScaled
  <2>. QED
    BY <2>3, <2>4
<1>8. ASSUME NEW x \in S
      PROVE  Nearest(10000 * cut[x], sum) <= Nearest(10000 * p[m], total)
  <2>1. /\ 10000 * cut[x] \in Int /\ 10000 * cut[m] \in Int /\ 10000 * p[m] \in Int
        /\ total * cut[m] <= sum * p[m]
    BY <1>1, <1>2, <1>7
  <2>2. total * (10000 * cut[m]) <= sum * (10000 * p[m])
    <3>1. \A a, b \in Int : a * (10000 * b) = 10000 * (a * b)
      OBVIOUS
    <3>2. total * cut[m] \in Int /\ sum * p[m] \in Int /\ cut[m] \in Int /\ p[m] \in Int
      BY <1>1, <1>2
    <3>. QED
      BY <1>2, <2>1, <3>1, <3>2
  <2>. DEFINE a == 10000 * cut[m]
              c == 10000 * p[m]
  <2>. HIDE DEF a, c
  <2>3. Nearest(a, sum) <= Nearest(c, total)
    <3>1. a \in Int /\ c \in Int /\ total * a <= sum * c
      BY <2>1, <2>2 DEF a, c
    <3>2. sum \in Nat /\ sum > 0 /\ total \in Nat /\ total > 0
      BY <1>1, <1>2
    <3>. QED
      BY <3>1, <3>2, NearestKeepsOrder
  <2>4. Nearest(10000 * cut[x], sum) <= Nearest(10000 * cut[m], sum)
    BY <1>4, <1>5
  <2>5. \A k, n \in Int : n > 0 => Nearest(k, n) \in Int
    BY NearestIsNear
  <2>. DEFINE b == 10000 * cut[x]
  <2>6. a \in Int /\ b \in Int /\ c \in Int
    BY <2>1 DEF a, c
  <2>. HIDE DEF b
  <2>7. Nearest(b, sum) \in Int /\ Nearest(a, sum) \in Int /\ Nearest(c, total) \in Int
    BY <1>1, <1>2, <2>5, <2>6
  <2>8. Nearest(b, sum) <= Nearest(a, sum)
    BY <2>4 DEF a, b
  <2>9. Nearest(b, sum) <= Nearest(c, total)
    BY <2>3, <2>7, <2>8
  <2>. QED
    BY <2>9 DEF b, c
<1>. QED
  BY <1>1, <1>2, <1>4, <1>8

\* The positive scores of a request, and what RiskWeights makes of them.
LEMMA PositiveScores ==
  ASSUME NEW known \in Histories, NEW scores \in [known -> Scores]
  PROVE  LET p == Positive(scores)
         IN /\ DOMAIN p \subseteq known /\ IsFiniteSet(DOMAIN p)
            /\ \A s \in DOMAIN p : p[s] \in Nat /\ p[s] > 0
<1>1. /\ known \subseteq Symbols /\ IsFiniteSet(Symbols) /\ Scores \subseteq Int
  BY OptimizerAssumption DEF OptimizerAssumption
<1>2. /\ DOMAIN Positive(scores) = {s \in known : scores[s] > 0}
      /\ \A s \in DOMAIN Positive(scores) : Positive(scores)[s] = scores[s]
  BY DEF Positive
<1>3. \A s \in known : scores[s] \in Int
  BY <1>1
<1>. QED
  BY <1>1, <1>2, <1>3, FS_Subset

\* Weights of positive scores: whole, ordered, and none above the best uncut.
LEMMA RiskWeightsWhole ==
  ASSUME NEW p, p = [s \in DOMAIN p |-> p[s]], IsFiniteSet(DOMAIN p), DOMAIN p # {},
         \A s \in DOMAIN p : p[s] \in Nat /\ p[s] > 0
  PROVE  LET w == RiskWeights(p)
         IN /\ DOMAIN w = DOMAIN p
            /\ \A s \in DOMAIN p : w[s] \in Nat
            /\ 2 * (SumFunction(w) - 10000)
                 \in -Cardinality(DOMAIN p) .. Cardinality(DOMAIN p)
            /\ \A s, t \in DOMAIN p : p[s] <= p[t] => w[s] <= w[t]
            /\ \A s \in DOMAIN p : \E t \in DOMAIN p :
                 w[s] <= Nearest(10000 * p[t], SumFunction(p))
<1>. DEFINE S == DOMAIN p
            total == SumFunctionOnSet(p, S)
            most == MaxWeight * total
            cut == [s \in S |-> IF 100 * p[s] < most THEN 100 * p[s] ELSE most]
            sum == SumFunctionOnSet(cut, S)
            w == [s \in S |-> Nearest(10000 * cut[s], sum)]
<1>1. RiskWeights(p) = w /\ SumFunction(p) = total /\ DOMAIN cut = S
  BY DEF RiskWeights, SumFunction
<1>2. total \in Nat /\ total > 0
  BY SumPositive
<1>3. most \in Nat /\ most > 0
  <2>1. MaxWeight \in Nat /\ MaxWeight > 0
    BY OptimizerAssumption DEF OptimizerAssumption
  <2>2. \A a, b \in Nat : a > 0 /\ b > 0 => a * b \in Nat /\ a * b > 0
    OBVIOUS
  <2>. HIDE DEF total
  <2>. QED
    BY <1>2, <2>1, <2>2
<1>4. \A s \in S : cut[s] = IF 100 * p[s] < most THEN 100 * p[s] ELSE most
  OBVIOUS
<1>5. /\ \A s \in S : w[s] = Nearest(10000 * cut[s], sum)
      /\ DOMAIN w = S /\ SumFunction(w) = SumFunctionOnSet(w, S)
  BY DEF SumFunction
<1>6. total = SumFunctionOnSet(p, S) /\ sum = SumFunctionOnSet(cut, S)
  OBVIOUS
<1>. HIDE DEF total, most, cut, sum, w
<1>7. /\ sum \in Nat /\ sum > 0 /\ \A s \in S : cut[s] \in Nat /\ cut[s] > 0
      /\ \A x, y \in S : p[x] <= p[y] =>
           Nearest(10000 * cut[x], sum) <= Nearest(10000 * cut[y], sum)
      /\ \A x \in S : \E y \in S :
           Nearest(10000 * cut[x], sum) <= Nearest(10000 * p[y], total)
  <2>. HIDE DEF S
  <2>1. IsFiniteSet(S) /\ S # {} /\ \A x \in S : p[x] \in Nat /\ p[x] > 0
    BY DEF S
  <2>. QED
    BY <1>2, <1>3, <1>4, <1>6, <2>1, CutSharesBounded
<1>8. \A s \in S : RoundedShare(w[s], cut[s], sum)
  <2>. SUFFICES ASSUME NEW s \in S
                PROVE  RoundedShare(w[s], cut[s], sum)
    OBVIOUS
  <2>1. RoundedShare(Nearest(10000 * cut[s], sum), cut[s], sum)
    BY <1>7, ShareIsRounded
  <2>. QED
    BY <1>5, <2>1
<1>9. 2 * (SumFunctionOnSet(w, S) - 10000) \in -Cardinality(S) .. Cardinality(S)
  BY <1>6, <1>7, <1>8, SharesAreWhole
<1>. QED
  BY <1>1, <1>5, <1>7, <1>8, <1>9 DEF RoundedShare

LEMMA EqualWeightsWhole ==
  /\ DOMAIN EqualWeights = Symbols
  /\ Symbols # {} => \A s \in Symbols : EqualWeights[s] \in Nat
  /\ Symbols # {} => 2 * (SumFunction(EqualWeights) - 10000)
                        \in -Cardinality(Symbols) .. Cardinality(Symbols)
<1>. DEFINE n == Cardinality(Symbols)
            ones == [s \in Symbols |-> 1]
<1>1. /\ IsFiniteSet(Symbols) /\ DOMAIN EqualWeights = Symbols
      /\ SumFunction(EqualWeights) = SumFunctionOnSet(EqualWeights, Symbols)
      /\ \A s \in Symbols : EqualWeights[s] = Nearest(10000, n)
  BY OptimizerAssumption DEF OptimizerAssumption, EqualWeights, SumFunction
<1>2. ASSUME Symbols # {}
      PROVE  /\ \A s \in Symbols : EqualWeights[s] \in Nat
             /\ 2 * (SumFunctionOnSet(EqualWeights, Symbols) - 10000) \in -n .. n
  <2>1. n \in Nat /\ n > 0
    BY <1>1, <1>2, FS_CardinalityType, FS_EmptySet
  <2>2. \A s \in Symbols : ones[s] = 1
    OBVIOUS
  <2>. HIDE DEF n, ones
  <2>3. n = SumFunctionOnSet(ones, Symbols)
    <3>1. SumFunctionOnSet(ones, Symbols) = 1 * Cardinality(Symbols)
      BY <1>1, <2>2, SumConstant
    <3>. QED
      BY <2>1, <3>1 DEF n
  <2>4. RoundedShare(Nearest(10000, n), 1, n)
    <3>1. RoundedShare(Nearest(10000 * 1, n), 1, n)
      BY <2>1, ShareIsRounded
    <3>2. 10000 * 1 = 10000
      OBVIOUS
    <3>. QED
      BY <3>1, <3>2
  <2>5. \A s \in Symbols :
          ones[s] \in Nat /\ RoundedShare(EqualWeights[s], ones[s], n)
    BY <1>1, <2>2, <2>4
  <2>6. 2 * (SumFunctionOnSet(EqualWeights, Symbols) - 10000) \in -n .. n
    BY <1>1, <2>1, <2>3, <2>5, SharesAreWhole DEF n
  <2>. QED
    BY <2>5, <2>6 DEF RoundedShare
<1>. QED
  BY <1>1, <1>2

\* What the weights of any request are.
WholeWeights(w) ==
  /\ IsFiniteSet(DOMAIN w)
  /\ \A s \in DOMAIN w : w[s] \in Nat
  /\ DOMAIN w # {} => 2 * (SumFunction(w) - 10000)
                        \in -Cardinality(DOMAIN w) .. Cardinality(DOMAIN w)

LEMMA WeightsWhole ==
  ASSUME NEW known \in Histories, NEW scores \in [known -> Scores]
  PROVE  WholeWeights(Weights(scores))
<1>. DEFINE p == Positive(scores)
<1>1. /\ IsFiniteSet(DOMAIN p) /\ \A s \in DOMAIN p : p[s] \in Nat /\ p[s] > 0
      /\ p = [s \in DOMAIN p |-> p[s]]
      /\ IsFiniteSet(Symbols)
  BY PositiveScores, OptimizerAssumption DEF Positive, OptimizerAssumption
<1>2. CASE DOMAIN scores = {}
  <2>1. Weights(scores) = EqualWeights
    BY <1>2 DEF Weights
  <2>2. WholeWeights(EqualWeights)
    BY <1>1, EqualWeightsWhole DEF WholeWeights
  <2>. QED
    BY <2>1, <2>2
<1>3. CASE DOMAIN scores # {}
  <2>1. Weights(scores) = RiskWeights(p) /\ DOMAIN RiskWeights(p) = DOMAIN p
    BY <1>3 DEF Weights, RiskWeights
  <2>. HIDE DEF p
  <2>2. CASE DOMAIN p = {}
    BY <1>1, <2>1, <2>2 DEF WholeWeights
  <2>3. CASE DOMAIN p # {}
    BY <1>1, <2>1, <2>3, RiskWeightsWhole DEF WholeWeights
  <2>. QED
    BY <2>2, <2>3
<1>. QED
  BY <1>2, <1>3

\* AllocationIsWhole of what one run stores.
LEMMA RunIsWhole ==
  ASSUME NEW known \in Histories, NEW scores \in [known -> Scores], NEW worth,
         run' = Allocation(scores, worth)
  PROVE  AllocationIsWhole'
<1>. DEFINE p == Positive(scores)
            w == Weights(scores)
            n == Cardinality(DOMAIN w)
<1>1. run'.scores = scores /\ run'.weights = w
  BY DEF Allocation
<1>2. DOMAIN w # {} => 2 * (SumFunction(w) - 10000) \in -n .. n
  BY WeightsWhole DEF WholeWeights
<1>3. /\ IsFiniteSet(DOMAIN p) /\ \A s \in DOMAIN p : p[s] \in Nat /\ p[s] > 0
      /\ p = [s \in DOMAIN p |-> p[s]] /\ DOMAIN p \subseteq DOMAIN scores
      /\ DOMAIN scores # {} => w = RiskWeights(p)
  BY PositiveScores DEF Positive, Weights
<1>. HIDE DEF p, w
<1>4. /\ \A s, t \in DOMAIN p : p[s] <= p[t] => w[s] <= w[t]
      /\ \A s \in DOMAIN p : \E t \in DOMAIN p :
           w[s] <= Nearest(10000 * p[t], SumFunction(p))
  <2>1. CASE DOMAIN p = {}
    BY <2>1
  <2>2. CASE DOMAIN p # {}
    <3>1. w = RiskWeights(p)
      BY <1>3, <2>2
    <3>. QED
      BY <1>3, <2>2, <3>1, RiskWeightsWhole
  <2>. QED
    BY <2>1, <2>2
<1>. QED
  BY <1>1, <1>2, <1>4 DEF AllocationIsWhole, p

-----------------------------------------------------------------------------
\* t is the part of the amount with this weight, rounded.
RoundedTarget(t, weight, amount) ==
  t \in Int /\ 20000 * t <= (2 * amount) * weight + 10000

LEMMA TargetIsRounded ==
  ASSUME NEW weight \in Nat, NEW amount \in Nat
  PROVE  RoundedTarget(Nearest(weight * amount, 10000), weight, amount)
<1>. DEFINE a == weight * amount
            b == 10000
<1>1. a \in Int /\ 2 * a = (2 * amount) * weight /\ b \in Nat /\ b > 0
  OBVIOUS
<1>. HIDE DEF a, b
<1>2. Nearest(a, b) \in Int /\ (2 * b) * Nearest(a, b) <= 2 * a + b
  BY <1>1, NearestIsNear
<1>. QED
  BY <1>1, <1>2 DEF RoundedTarget, a, b

TargetsRounded(t, w, S, amount) ==
  \A x \in S : w[x] \in Nat /\ RoundedTarget(t[x], w[x], amount)

WholeOver(w, S) ==
  S # {} => 2 * (SumFunctionOnSet(w, S) - 10000) \in -Cardinality(S) .. Cardinality(S)

AddsUpWithin(t, S, amount) ==
  /\ \A x \in S : t[x] \in Int
  /\ SumFunctionOnSet(t, S) \in Int /\ Cardinality(S) \in Nat
  /\ 20000 * SumFunctionOnSet(t, S)
       <= (20000 + Cardinality(S)) * amount + 10000 * Cardinality(S)

LEMMA TargetsAreRounded ==
  ASSUME NEW S, NEW w, \A x \in S : w[x] \in Nat, NEW amount \in Nat,
         NEW t, \A x \in S : t[x] = Nearest(w[x] * amount, 10000)
  PROVE  TargetsRounded(t, w, S, amount)
<1>1. ASSUME NEW x \in S
      PROVE  w[x] \in Nat /\ RoundedTarget(t[x], w[x], amount)
  <2>1. PICK weight \in Nat : weight = w[x]
    OBVIOUS
  <2>2. RoundedTarget(Nearest(weight * amount, 10000), weight, amount)
    BY TargetIsRounded
  <2>. QED
    BY <2>1, <2>2
<1>. QED
  BY <1>1 DEF TargetsRounded

\* Targets of whole weights add up to the budget but for their rounding.
LEMMA TargetsAddUp ==
  ASSUME NEW S, IsFiniteSet(S), NEW w, NEW t, NEW amount \in Nat,
         TargetsRounded(t, w, S, amount), WholeOver(w, S)
  PROVE  AddsUpWithin(t, S, amount)
<1>. DEFINE n == Cardinality(S)
            scaled == [x \in S |-> 20000 * t[x]]
            parts == [x \in S |-> (2 * amount) * w[x]]
            errors == [x \in S |-> 10000]
            above == [x \in S |-> parts[x] + errors[x]]
<1>1. ASSUME NEW x \in S
      PROVE  t[x] \in Int /\ 20000 * t[x] <= (2 * amount) * w[x] + 10000
  BY DEF RoundedTarget, TargetsRounded
<1>2. n \in Nat
  BY FS_CardinalityType
<1>3. ASSUME NEW x \in S
      PROVE  /\ scaled[x] = 20000 * t[x] /\ scaled[x] \in Int
             /\ parts[x] = (2 * amount) * w[x] /\ parts[x] \in Int /\ w[x] \in Int
             /\ errors[x] = 10000
             /\ above[x] = parts[x] + errors[x] /\ above[x] \in Int
             /\ scaled[x] <= above[x]
  <2>1. w[x] \in Int /\ (2 * amount) * w[x] \in Int
    BY DEF TargetsRounded
  <2>. QED
    BY <1>1, <2>1
<1>. HIDE DEF scaled, parts, errors, above
<1>4. SumFunctionOnSet(scaled, S) = 20000 * SumFunctionOnSet(t, S)
  BY <1>1, <1>3, SumScaled
<1>5. SumFunctionOnSet(parts, S) = (2 * amount) * SumFunctionOnSet(w, S)
  <2>. DEFINE d == 2 * amount
  <2>1. d \in Int /\ \A x \in S : w[x] \in Int /\ parts[x] = d * w[x]
    BY <1>3
  <2>. HIDE DEF d
  <2>2. SumFunctionOnSet(parts, S) = d * SumFunctionOnSet(w, S)
    BY <2>1, SumScaled
  <2>. QED
    BY <2>2 DEF d
<1>6. SumFunctionOnSet(errors, S) = 10000 * n
  BY <1>3, SumConstant
<1>7. /\ SumFunctionOnSet(above, S)
           = SumFunctionOnSet(parts, S) + SumFunctionOnSet(errors, S)
      /\ SumFunctionOnSet(scaled, S) <= SumFunctionOnSet(above, S)
  BY <1>3, SumPlus, SumMonotone
<1>8. /\ SumFunctionOnSet(t, S) \in Int /\ SumFunctionOnSet(w, S) \in Int
      /\ S = {} => SumFunctionOnSet(w, S) = 0
  <2>1. \A x \in S : t[x] \in Int /\ w[x] \in Int
    BY <1>1, <1>3
  <2>2. SumFunctionOnSet(w, {}) = 0
    BY SumEmpty
  <2>. QED
    BY <2>1, <2>2, SumType
<1>9. 2 * SumFunctionOnSet(w, S) <= 20000 + n
  BY <1>2, <1>8 DEF WholeOver
<1>10. (2 * amount) * SumFunctionOnSet(w, S) <= (20000 + n) * amount
  <2>. DEFINE k == SumFunctionOnSet(w, S)
  <2>1. k \in Int /\ 2 * k \in Int /\ 20000 + n \in Int /\ 2 * k <= 20000 + n
    BY <1>2, <1>8, <1>9
  <2>. HIDE DEF k, n
  <2>2. amount * (2 * k) <= amount * (20000 + n)
    BY <2>1, TimesFactor
  <2>3. amount * (2 * k) = (2 * amount) * k /\ amount * (20000 + n) = (20000 + n) * amount
    BY <2>1
  <2>. QED
    BY <2>2, <2>3 DEF k
<1>11. /\ (20000 + n) * amount \in Int
       /\ (2 * amount) * SumFunctionOnSet(w, S) \in Int
  BY <1>2, <1>8
<1>12. 20000 * SumFunctionOnSet(t, S)
         <= (2 * amount) * SumFunctionOnSet(w, S) + 10000 * n
  BY <1>4, <1>5, <1>6, <1>7
<1>. QED
  BY <1>1, <1>2, <1>8, <1>10, <1>11, <1>12 DEF AddsUpWithin

\* The targets of a stored run are integers over a finite set of symbols.
RunTyped ==
  /\ IsFiniteSet(DOMAIN run.targets)
  /\ \A s \in DOMAIN run.targets : run.targets[s] \in Int

\* What an account was worth deploys no more than the most it was ever worth.
LEMMA DeployableWithin ==
  ASSUME NEW worth \in Int, NEW most \in Int, worth <= most
  PROVE  /\ Deployable(worth) \in Nat
         /\ Deployable(worth) <= AtLeast(0, most * DeployedPct)
<1>1. DeployedPct \in Nat
  BY OptimizerAssumption DEF OptimizerAssumption
<1>2. worth * DeployedPct \in Int /\ most * DeployedPct \in Int
  BY <1>1
<1>3. worth * DeployedPct <= most * DeployedPct
  <2>1. DeployedPct * worth <= DeployedPct * most
    BY <1>1, TimesFactor
  <2>. QED
    BY <1>1, <2>1
<1>. QED
  BY <1>2, <1>3 DEF Deployable, AtLeast

\* TargetsWithinBudget of what a session that holds the row stores.
LEMMA RunIsWithinBudget ==
  ASSUME RowInv, NEW s \in Sessions, RunOptimizer(s)
  PROVE  AllocationIsWhole' /\ TargetsWithinBudget' /\ RunTyped'
<1>1. PICK known \in Histories : \E scores \in [known -> Scores] :
        run' = Allocation(scores, session[s].held.equity)
  BY DEF RunOptimizer
<1>2. PICK scores \in [known -> Scores] :
        run' = Allocation(scores, session[s].held.equity)
  BY <1>1
<1>. DEFINE worth == session[s].held.equity
            w == Weights(scores)
            amount == Deployable(worth)
            t == Targets(w, worth)
            S == DOMAIN w
            n == Cardinality(S)
            budget == AtLeast(0, Ceiling * DeployedPct)
<1>3. worth \in Int /\ Ceiling \in Int /\ worth <= Ceiling
  <2>1. TypeOK /\ SessionWithin(s) /\ session[s].pc = "holding"
    BY DEF RowInv, RunOptimizer
  <2>2. worth <= Ceiling
    BY <2>1 DEF SessionWithin, WithinCeiling
  <2>. QED
    BY <2>1, <2>2, RowsAreNumbers
<1>4. amount \in Nat /\ amount <= budget
  BY <1>3, DeployableWithin
<1>5. /\ IsFiniteSet(S) /\ \A x \in S : w[x] \in Nat
      /\ S # {} => 2 * (SumFunction(w) - 10000) \in -n .. n
  BY WeightsWhole DEF WholeWeights
<1>6. /\ run'.targets = t /\ DOMAIN t = S
      /\ \A x \in S : t[x] = Nearest(w[x] * amount, 10000)
      /\ SumFunction(t) = SumFunctionOnSet(t, S)
      /\ SumFunction(w) = SumFunctionOnSet(w, S)
  BY <1>2 DEF Allocation, Targets, SumFunction
<1>7. Ceiling' = Ceiling
  BY DEF RunOptimizer, Ceiling
<1>8. budget \in Int
  BY <1>3, OptimizerAssumption DEF OptimizerAssumption, AtLeast
<1>9. AllocationIsWhole'
  BY <1>2, RunIsWhole
<1>. HIDE DEF w, amount, t, S
<1>10. TargetsRounded(t, w, S, amount)
  BY <1>4, <1>5, <1>6, TargetsAreRounded
<1>11. AddsUpWithin(t, S, amount)
  <2>1. WholeOver(w, S)
    BY <1>5, <1>6 DEF WholeOver
  <2>2. amount \in Nat /\ IsFiniteSet(S)
    BY <1>4, <1>5
  <2>. QED
    BY <1>10, <2>1, <2>2, TargetsAddUp
<1>. HIDE DEF n, budget
<1>12. 20000 * SumFunctionOnSet(t, S) <= (20000 + n) * budget + 10000 * n
  <2>1. 20000 + n \in Nat /\ amount \in Int /\ n \in Nat
    BY <1>4, <1>11 DEF AddsUpWithin, n
  <2>2. (20000 + n) * amount <= (20000 + n) * budget
    BY <1>4, <1>8, <2>1, TimesFactor
  <2>3. (20000 + n) * amount \in Int /\ (20000 + n) * budget \in Int
    BY <1>8, <2>1
  <2>4. /\ SumFunctionOnSet(t, S) \in Int
        /\ 20000 * SumFunctionOnSet(t, S) <= (20000 + n) * amount + 10000 * n
    BY <1>11 DEF AddsUpWithin, n
  <2>. QED
    BY <2>1, <2>2, <2>3, <2>4
<1>13. TargetsWithinBudget'
  BY <1>6, <1>7, <1>12 DEF TargetsWithinBudget, n, budget
<1>14. RunTyped'
  BY <1>5, <1>6, <1>11 DEF RunTyped, AddsUpWithin
<1>. QED
  BY <1>9, <1>13, <1>14

RunInv == RowInv /\ RunTyped /\ AllocationIsWhole /\ TargetsWithinBudget

\* Where no run was just stored there is nothing to show.
LEMMA NoRunIsWhole ==
  run = NoRun /\ Ceiling \in Int
    => RunTyped /\ AllocationIsWhole /\ TargetsWithinBudget
<1>. SUFFICES ASSUME run = NoRun, Ceiling \in Int
               PROVE  RunTyped /\ AllocationIsWhole /\ TargetsWithinBudget
  OBVIOUS
<1>2. /\ DOMAIN run.scores = {} /\ DOMAIN run.weights = {} /\ DOMAIN run.targets = {}
  BY DEF NoRun
<1>3. RunTyped
  BY <1>2, FS_EmptySet DEF RunTyped
<1>4. AllocationIsWhole
  <2>1. DOMAIN Positive(run.scores) = {}
    BY <1>2 DEF Positive
  <2>. QED
    BY <1>2, <2>1 DEF AllocationIsWhole
<1>5. TargetsWithinBudget
  <2>1. SumFunction(run.targets) = 0 /\ Cardinality(DOMAIN run.targets) = 0
    BY <1>2, SumEmpty, FS_EmptySet DEF SumFunction
  <2>2. Ceiling * DeployedPct \in Int
    BY OptimizerAssumption DEF OptimizerAssumption
  <2>3. /\ AtLeast(0, Ceiling * DeployedPct) \in Int
        /\ AtLeast(0, Ceiling * DeployedPct) >= 0
    BY <2>2 DEF AtLeast
  <2>. QED
    BY <2>1, <2>3 DEF TargetsWithinBudget
<1>. QED
  BY <1>3, <1>4, <1>5

\* The same of the next state.
LEMMA NoRunIsWholeNext ==
  (run = NoRun /\ Ceiling \in Int
     => RunTyped /\ AllocationIsWhole /\ TargetsWithinBudget)'
BY NoRunIsWhole, PTL

LEMMA RunInvInit == OptimizerInit => RunInv
BY RowInvInit, NoRunIsWhole, RowsAreNumbers DEF OptimizerInit, RunInv, RowInv

LEMMA RunInvHolds == OptimizerSpec => []RunInv
<1>1. ASSUME RunInv, [OptimizerNext]_optimizerVars
      PROVE  RunInv'
  <2>1. RowInv'
    BY <1>1, RowInvStep, OptimizerStepIsRowStep DEF RunInv
  <2>2. CASE run' = NoRun
    <3>1. Ceiling' \in Int
      BY <2>1 DEF RowInv, TypeOK, Ceiling
    <3>. QED
      BY <2>1, <2>2, <3>1, NoRunIsWholeNext DEF RunInv, NoRun
  <2>3. ASSUME NEW s \in Sessions, RunOptimizer(s)
        PROVE  RunInv'
    BY <1>1, <2>1, <2>3, RunIsWithinBudget DEF RunInv
  <2>4. CASE UNCHANGED optimizerVars
    BY <1>1, <2>1, <2>4
       DEF optimizerVars, vars, RunInv, RunTyped, AllocationIsWhole,
           TargetsWithinBudget, Ceiling
  <2>. QED
    BY <1>1, <2>2, <2>3, <2>4 DEF OptimizerNext
<1>. QED
  BY <1>1, RunInvInit, PTL DEF OptimizerSpec

\* For any symbols, scores and limits, the cut and divided weights of a run are a
\* whole allocation, and none passes the best share that was not cut.
THEOREM AllocationTheorem == OptimizerSpec => []AllocationIsWhole
<1>1. RunInv => AllocationIsWhole
  BY DEF RunInv
<1>. QED
  BY <1>1, RunInvHolds, PTL

\* However stale the equity a run is worked out from, its targets together are
\* within the deployable part of what the account was ever worth and of the
\* error of one reading, up to the rounding of each share and each target.
THEOREM BudgetTheorem == OptimizerSpec => []TargetsWithinBudget
<1>1. RunInv => TargetsWithinBudget
  BY DEF RunInv
<1>. QED
  BY <1>1, RunInvHolds, PTL
=============================================================================
