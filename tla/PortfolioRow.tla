----------------------------- MODULE PortfolioRow -----------------------------
(***************************************************************************)
(* The one portfolio_state row when several sessions recalculate it        *)
(* (PortfolioService.recalculate_state) while they trade: each loads the   *)
(* row, sums the cash over the trades in one query, reads the open         *)
(* positions in another, values them at the price it was given, and        *)
(* commits the columns it changed.  Trades of other sessions may commit    *)
(* between any two of these steps.  The handlers of ExecutionService hold  *)
(* on to the row and the position objects between their recalculations,    *)
(* and a session returns a held object as it last loaded it, not as it is. *)
(*                                                                         *)
(* One spot holding of some units stands for the open positions; what a    *)
(* position adds to the equity is PortfolioAccount's subject.              *)
(***************************************************************************)
EXTENDS Integers

CONSTANTS
  Sessions,
  Prices,           \* prices of fills, and those a recalculation is given
  MaxTrades,        \* bound: trades of one unit in all
  StartingBalance

ASSUME PortfolioRowAssumption ==
  /\ Prices \subseteq Nat
  /\ MaxTrades \in Nat
  /\ StartingBalance \in Int

VARIABLES
  cash,             \* the sum over the committed trades
  units,            \* what the committed open positions hold
  traded,           \* how many trades are committed
  row,              \* the portfolio_state row, or none yet
  session,          \* per session, the objects it holds and its progress
  best,             \* history: the most the account was worth when marked
  gap               \* history: the most one reading overstated it by

vars == <<cash, units, traded, row, session, best, gap>>

-----------------------------------------------------------------------------
AtLeast(x, y) == IF x < y THEN y ELSE x

FirstRow == [exists |-> TRUE, equity |-> StartingBalance, peak |-> StartingBalance]

NoRow == [exists |-> FALSE, equity |-> 0, peak |-> 0]

Rows == [exists : BOOLEAN, equity : Int, peak : Int]

Idle == [pc |-> "idle", held |-> NoRow, known |-> 0, cash |-> 0, computed |-> 0]

\* get_or_create_state finds the row: the committed one, or the object the
\* session already holds.
Load(s) ==
  /\ session[s].pc \in {"idle", "holding"}
  /\ row.exists
  /\ session' = [session EXCEPT
       ![s].pc = "loaded",
       ![s].held = IF session[s].pc = "idle" THEN row ELSE @]
  /\ UNCHANGED <<cash, units, traded, row, best, gap>>

\* get_or_create_state finds none: it will insert the first row.
Miss(s) ==
  /\ session[s].pc = "idle"
  /\ ~row.exists
  /\ session' = [session EXCEPT ![s].pc = "creating"]
  /\ UNCHANGED <<cash, units, traded, row, best, gap>>

\* The insert commits, or meets the unique mode of a row inserted since, which
\* raises and ends the session.
Create(s) ==
  /\ session[s].pc = "creating"
  /\ IF row.exists
     THEN UNCHANGED row /\ session' = [session EXCEPT ![s] = Idle]
     ELSE /\ row' = FirstRow
          /\ session' = [session EXCEPT ![s].pc = "loaded", ![s].held = FirstRow]
  /\ UNCHANGED <<cash, units, traded, best, gap>>

\* _trade_cash_balance: the sum over the trades committed so far.
ReadCash(s) ==
  /\ session[s].pc = "loaded"
  /\ session' = [session EXCEPT ![s].pc = "summed", ![s].cash = cash]
  /\ UNCHANGED <<cash, units, traded, row, best, gap>>

\* get_open_positions: the open positions as they are now, or those of them the
\* session already holds as it loaded them (expire_on_commit is off).
Seen(s) == IF units = 0 \/ session[s].known = 0 THEN {units}
           ELSE {units, session[s].known}

\* The positions are read and valued, and added to the cash read before.
ReadPositions(s) ==
  /\ session[s].pc = "summed"
  /\ \E price \in Prices : \E seen \in Seen(s) :
       /\ session' = [session EXCEPT ![s].pc = "computed", ![s].known = seen,
                        ![s].computed = session[s].cash + seen * price]
       /\ best' = AtLeast(best, cash + units * price)
       /\ gap' = AtLeast(gap, (session[s].cash - cash) + (seen - units) * price)
  /\ UNCHANGED <<cash, units, traded, row>>

\* Mutant: every gain is added to the peak.
NewPeakAddsGains(held, computed) == held.peak + AtLeast(0, computed - held.equity)

\* Mutant: the peak follows the equity.
NewPeakFollows(held, computed) == computed

NewPeak(held, computed) == AtLeast(held.peak, computed)

\* The changed columns are written, then the row object is refreshed.
Commit(s) ==
  LET held == session[s].held
      computed == session[s].computed
      peak == NewPeak(held, computed)
  IN /\ session[s].pc = "computed"
     /\ row' = [row EXCEPT
                  !.equity = IF computed = held.equity THEN @ ELSE computed,
                  !.peak = IF peak = held.peak THEN @ ELSE peak]
     /\ session' = [session EXCEPT ![s] =
          [pc |-> "holding", held |-> row', known |-> session[s].known,
           cash |-> 0, computed |-> 0]]
     /\ UNCHANGED <<cash, units, traded, best, gap>>

\* The handler returns and its session closes.
Release(s) ==
  /\ session[s].pc = "holding"
  /\ session' = [session EXCEPT ![s] = Idle]
  /\ UNCHANGED <<cash, units, traded, row, best, gap>>

\* A handler's fill of one unit commits, between its recalculations.  What one
\* books from a position it holds out of date is TradingSessions' subject.
Trade(s) ==
  /\ session[s].pc \in {"idle", "holding"}
  /\ session[s].known \in {0, units}
  /\ traded < MaxTrades
  /\ traded' = traded + 1
  /\ \E price \in Prices, bought \in {-1, 1} :
       /\ units + bought >= 0
       /\ cash' = cash - bought * price
       /\ units' = units + bought
       /\ session' = [session EXCEPT ![s].known = units + bought]
  /\ UNCHANGED <<row, best, gap>>

Init ==
  /\ cash = StartingBalance
  /\ units = 0
  /\ traded = 0
  /\ row = NoRow
  /\ session = [s \in Sessions |-> Idle]
  /\ best = StartingBalance
  /\ gap = 0

Recalculate(s) ==
  \/ Load(s) \/ Miss(s) \/ Create(s) \/ ReadCash(s) \/ ReadPositions(s)
  \/ Commit(s) \/ Release(s)

Next == \E s \in Sessions : Recalculate(s) \/ Trade(s)

Spec == Init /\ [][Next]_vars

-----------------------------------------------------------------------------
TypeOK ==
  /\ cash \in Int /\ units \in Nat /\ traded \in 0 .. MaxTrades
  /\ row \in Rows
  /\ session \in [Sessions ->
       [pc : {"idle", "creating", "loaded", "summed", "computed", "holding"},
        held : Rows, known : Nat, cash : Int, computed : Int]]
  /\ best \in Int /\ gap \in Nat

\* The most the account can have been taken for: its best worth and the worst
\* error of one reading.
Ceiling == best + gap

\* The recorded peak is reached but for the error of one reading of cash and
\* positions at different moments: updates are lost, peaks are latched and
\* sessions go on from each other's rows, and the errors never add up.  (That
\* the peak was reached, without the error, does not hold: an entry committed
\* between the two queries leaves its cost in the cash and its units in the
\* positions, portfolio_service.py:142-143.)
PeakErrsByOneReading == row.exists => row.peak <= Ceiling

\* The peak the drawdown breaker measures from falls only where a session writes
\* over a peak it never saw: two recalculations one after the other never lower
\* it, two that overlap may.
PeakFallsOnlyUnseen ==
  [][row.exists /\ row'.peak < row.peak =>
       \E s \in Sessions :
         session[s].pc = "computed" /\ session[s].held.peak < row.peak]_vars

\* The recorded peak was reached (checked by hand only: torn readings break it).
PeakWasReached == row.exists => row.peak <= best
=============================================================================
