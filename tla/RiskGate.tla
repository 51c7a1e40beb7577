------------------------------- MODULE RiskGate -------------------------------
(***************************************************************************)
(* The risk gate in front of every entry: RiskService.evaluate_entry       *)
(* (app/services/risk_service.py) as submit_entry_order calls it           *)
(* (execution_service.py), over the account of PortfolioAccount and a      *)
(* clock.  What an order is refused for is a disjunction: the order of the *)
(* checks only picks the wording of the reason.                            *)
(*                                                                         *)
(* Percentages are integers in hundredths.  Sizing is left open: an entry  *)
(* asks for any of Quantities.                                             *)
(***************************************************************************)
EXTENDS PortfolioAccount

CONSTANTS
  Settings,         \* the risk settings of core/config.py, by their names
  Quotes,           \* spread, slippage and funding an entry may come with
  StopLossPct,      \* stop_loss_pct of the entries
  MaintenancePct,   \* maintenance margin rate
  DayLength,        \* ticks of the clock a day
  MaxTime           \* bound: last tick of the clock

ASSUME GateAssumption ==
  /\ Settings \in [kill_switch : BOOLEAN, symbol_allowlist : SUBSET Symbols,
                   session_start : Nat, session_end : Nat,
                   max_spread_bps : Nat, max_slippage_bps : Nat,
                   max_concurrent_positions : Nat,
                   max_daily_loss_pct : Nat, max_drawdown_pct : Nat,
                   stop_loss_cooldown : Nat, max_risk_per_trade : Nat,
                   max_position_notional_pct : Nat, max_abs_funding_rate : Nat,
                   min_liquidation_buffer_pct : Nat, max_gross_exposure_pct : Nat,
                   max_net_exposure_pct : Nat, max_side_exposure_pct : Nat]
  /\ Quotes \subseteq [spread : Nat, slippage : Nat, funding : Nat]
  /\ StopLossPct \in Nat /\ MaintenancePct \in Nat
  /\ DayLength \in Nat \ {0} /\ MaxTime \in Nat

VARIABLES
  clock,            \* datetime.now(timezone.utc)
  dayStart,         \* SUM(realized_pnl) of the trades of earlier days
  exit,             \* per position, how and when it was closed
  lastEntry         \* history: the prices the step's entry was asked and checked at

gateVars == <<position, trades, portfolio, clock, dayStart, exit, lastEntry>>

-----------------------------------------------------------------------------
Never == -1

ExitReasons == {"signal", "stop_loss"}

\* exit_reason and closed_at of the row; history: when a stop last sold of it.
NoExit == [reason |-> "signal", at |-> Never, stop |-> Never]

\* The last step filled no entry.
Unasked == [ref |-> 0, check |-> 0]

NoEntry == lastEntry' = Unasked

TimeOfDay == clock % DayLength

InSession ==
  IF Settings.session_start <= Settings.session_end
  THEN Settings.session_start <= TimeOfDay /\ TimeOfDay <= Settings.session_end
  ELSE Settings.session_start <= TimeOfDay \/ TimeOfDay <= Settings.session_end

DailyRealized == RealizedPnl(trades) - dayStart

\* blocked_symbols
InCooldown(s) ==
  \E p \in Positions :
    /\ position[p].status = "CLOSED" /\ SymbolOf[position[p].key] = s
    /\ exit[p].reason = "stop_loss"
    /\ exit[p].at >= clock - Settings.stop_loss_cooldown

\* x is over this percentage of y.
Exceeds(x, pct, y) == 100 * x > pct * y

SideExposure(rows, side) ==
  SumOpen(rows, [p \in Positions |->
                   IF rows[p].side = side THEN GrossOf(rows)[p] ELSE 0])

\* The drawdown of the row reaches the limit (a peak of 0 counts as 1).
BreakerTripped(account) ==
  LET peak == IF account.peak > 0 THEN account.peak ELSE 1
      fall == AtLeast0(account.peak - account.equity)
  IN 100 * fall >= Settings.max_drawdown_pct * peak

-----------------------------------------------------------------------------
\* The operator and the calendar stop all trading, the quote this entry.
Halted(s) ==
  \/ Settings.kill_switch
  \/ s \notin Settings.symbol_allowlist
  \/ ~InSession

BadQuote(k, quote) ==
  \/ quote.spread > Settings.max_spread_bps
  \/ quote.slippage > Settings.max_slippage_bps
  \/ InstrumentOf[k] = "PERPETUAL" /\ quote.funding > Settings.max_abs_funding_rate

\* What was lost stops it: today, since the peak, or on this symbol.
TooMuchLost(s, account) ==
  \/ 100 * DailyRealized <= -(StartingBalance * Settings.max_daily_loss_pct)
  \/ BreakerTripped(account)
  \/ InCooldown(s)
  \/ account.equity <= 0

AbsoluteValue(x) == IF x < 0 THEN -x ELSE x

\* Mutant: the caps are held against the order alone.
TooLargeAlone(k, side, price, qty, rows, account) ==
  LET notional == Notional(price, qty)
  IN \/ InstrumentOf[k] = "SPOT" /\ side = "SHORT"
     \/ notional * StopLossPct > Settings.max_risk_per_trade * account.equity
     \/ notional > account.cash
     \/ Exceeds(notional, Settings.max_gross_exposure_pct, account.equity)

\* What it would risk, lock and expose.
TooLarge(k, side, price, qty, rows, account) ==
  LET notional == Notional(price, qty)
      net == account.net + Direction(side) * notional
  IN \/ InstrumentOf[k] = "SPOT" /\ side = "SHORT"
     \/ notional * StopLossPct > Settings.max_risk_per_trade * account.equity
     \/ /\ InstrumentOf[k] = "SPOT"
        /\ \/ Exceeds(notional, Settings.max_position_notional_pct, account.cash)
           \/ notional > account.cash
     \/ /\ InstrumentOf[k] = "PERPETUAL"
        /\ \/ Collateral(k, price, qty) > account.cash
           \/ AbsoluteValue(100 - Leverage * MaintenancePct)
                < Leverage * Settings.min_liquidation_buffer_pct
     \/ Exceeds(account.gross + notional, Settings.max_gross_exposure_pct,
                account.equity)
     \/ Exceeds(AbsoluteValue(net), Settings.max_net_exposure_pct, account.equity)
     \/ Exceeds(SideExposure(rows, side) + notional,
                Settings.max_side_exposure_pct, account.equity)

\* evaluate_entry approves the order, with the rows and the account as its own
\* recalculation at the checked price leaves them.
Approved(k, side, price, qty, quote, rows, account) ==
  /\ ~Halted(SymbolOf[k])
  /\ ~BadQuote(k, quote)
  /\ Cardinality(OpenRows(rows)) < Settings.max_concurrent_positions
  /\ ~TooMuchLost(SymbolOf[k], account)
  /\ ~TooLarge(k, side, price, qty, rows, account)

-----------------------------------------------------------------------------
\* submit_entry_order up to the answer of the gate, for an order that passed
\* get_position and normalize_order: `check' is the limit price of a limit order.
Passes(k, side, ref, check, want, quote) ==
  Approved(k, side, check, RoundToLot(want), quote,
           MarkAll(position, SymbolOf[k], check), MarkedTwice(SymbolOf[k], ref, check))

Normalized(k, want, check) ==
  /\ \A o \in OpenPositions : position[o].key # k
  /\ Tradable(RoundToLot(want), check)

\* The order is approved and filled, a limit order at its price or better.
GateEnter(p) ==
  \E k \in Keys, side \in Sides, ref \in Prices, check \in Prices,
     want \in Quantities, quote \in Quotes :
    /\ Normalized(k, want, check)
    /\ Passes(k, side, ref, check, want, quote)
    /\ \E price \in Prices, qty \in 1 .. want :
         /\ check # ref => Direction(side) * (check - price) >= 0
         /\ RecordEntryFill(p, k, side, check, want, price, qty)
    /\ portfolio' = Recalculated(position', trades',
                                 MarkedTwice(SymbolOf[k], ref, check).peak)
    /\ lastEntry' = [ref |-> ref, check |-> check]
    /\ UNCHANGED <<clock, dayStart, exit>>

\* It is refused: _reject_order, after which nothing recalculates.
GateRefuse ==
  \E k \in Keys, side \in Sides, ref \in Prices, check \in Prices,
     want \in Quantities, quote \in Quotes :
    /\ Normalized(k, want, check)
    /\ ~Passes(k, side, ref, check, want, quote)
    /\ MarkToMarket(SymbolOf[k], check)
    /\ portfolio' = MarkedTwice(SymbolOf[k], ref, check)
    /\ NoEntry /\ UNCHANGED <<clock, dayStart, exit>>

\* It is approved and rests: the last recalculation is at the reference price.
GateRest ==
  \E k \in Keys, side \in Sides, ref \in Prices, check \in Prices,
     want \in Quantities, quote \in Quotes :
    /\ Normalized(k, want, check)
    /\ Passes(k, side, ref, check, want, quote)
    /\ MarkToMarket(SymbolOf[k], ref)
    /\ portfolio' = MarkedTwice(SymbolOf[k], check, ref)
    /\ NoEntry /\ UNCHANGED <<clock, dayStart, exit>>

\* close_position writes reason and time when nothing remains.
ExitNoted(note, closed, reason) ==
  [reason |-> IF closed THEN reason ELSE note.reason,
   at |-> IF closed THEN clock ELSE note.at,
   stop |-> IF reason = "stop_loss" THEN clock ELSE note.stop]

\* Bound: exits are followed while an entry can still come after them.
EntryLeft == \E p \in Positions : position[p].status = "NONE"

GateExit(p) ==
  EntryLeft /\ \E reason \in ExitReasons :
    /\ AccountExit(p)
    /\ exit' = [exit EXCEPT ![p] = ExitNoted(@, position'[p].status = "CLOSED", reason)]
    /\ NoEntry /\ UNCHANGED <<clock, dayStart>>

\* Any other recalculation: a summary, a hold.  (Nothing in app/ calls
\* record_funding_charge, so nothing is charged here.)
GateMark ==
  /\ \E s \in Symbols, price \in Prices :
       /\ MarkToMarket(s, price)
       /\ portfolio' = Recalculated(position', trades, portfolio.peak)
  /\ NoEntry /\ UNCHANGED <<clock, dayStart, exit>>

\* Mutant: at midnight the peak starts over too.
TickNewPeak ==
  /\ clock < MaxTime
  /\ clock' = clock + 1
  /\ portfolio' = IF (clock + 1) % DayLength = 0
                  THEN [portfolio EXCEPT !.peak = portfolio.equity] ELSE portfolio
  /\ NoEntry /\ UNCHANGED <<position, trades, dayStart, exit>>

\* Time passes; at midnight the realized PnL of the day starts over.
Tick ==
  /\ clock < MaxTime
  /\ clock' = clock + 1
  /\ dayStart' = IF (clock + 1) % DayLength = 0 THEN RealizedPnl(trades) ELSE dayStart
  /\ NoEntry /\ UNCHANGED <<position, trades, portfolio, exit>>

GateInit ==
  /\ AccountInit
  /\ clock = 0
  /\ dayStart = 0
  /\ exit = [p \in Positions |-> NoExit]
  /\ lastEntry = Unasked

GateNext ==
  \/ \E p \in Positions : GateEnter(p)
  \/ \E p \in Positions : GateExit(p)
  \/ GateRefuse
  \/ GateRest
  \/ GateMark
  \/ Tick

GateSpec == GateInit /\ [][GateNext]_gateVars

-----------------------------------------------------------------------------
\* The notes of the exits: an untouched key has none, a closed row was closed at
\* a time that has come, and if by a stop then its last stop was that one.
ExitNotesAgree ==
  \A p \in Positions :
    /\ position[p].status = "NONE" => exit[p] = NoExit
    /\ exit[p].stop <= clock
    /\ position[p].status = "CLOSED" => exit[p].at \in 0 .. clock
    /\ position[p].status = "CLOSED" /\ exit[p].reason = "stop_loss" =>
         exit[p].stop = exit[p].at

GateTypeOK ==
  /\ clock \in 0 .. MaxTime
  /\ exit \in [Positions -> [reason : ExitReasons, at : Int, stop : Int]]
  /\ ExitNotesAgree

Opened(p) == position[p].status = "NONE" /\ position'[p].status = "OPEN"

\* Flat, with the account down to the drawdown limit.
Latched ==
  /\ OpenPositions = {}
  /\ BreakerTripped(Recalculated(position, trades, portfolio.peak))

\* The breaker has no way back: once the account is flat and down by the limit,
\* no handler, tick or midnight ever lets it trade again (nothing in app/ lowers
\* peak_equity).
BreakerLatches == [][Latched => Latched']_gateVars

\* An entry is filled on the symbol of q within the cooldown of a stop of q.
EntersAfterStop(q) ==
  /\ \E p \in Positions :
       Opened(p) /\ SymbolOf[position[q].key] = SymbolOf[position'[p].key]
  /\ exit[q].stop # Never
  /\ exit[q].stop >= clock - Settings.stop_loss_cooldown

\* architecture.md, line 57: "cooldown after stop loss".  No entry on a symbol
\* within the cooldown of a stop-loss fill, once that position is closed.  (Checked
\* by hand only: a stop that fills in part leaves its reason to the exit that
\* sells the rest, execution_service.py:869.)
StopCoolsSymbol ==
  [][\A q \in Positions : EntersAfterStop(q) => position[q].status = "OPEN"]_gateVars

\* The only ways past the cooldown: the stopped position is still open, or the
\* rest of it was sold for another reason, which replaced the stop's.
OnlyForgottenStopsPass ==
  [][\A q \in Positions :
       EntersAfterStop(q) =>
         position[q].status = "OPEN" \/ exit[q].reason # "stop_loss"]_gateVars

\* What the gate projected is what the account then shows: after an entry filled
\* at the checked price, whole or in part, the recorded exposures are within the
\* caps of the equity before its fee, or the net one is nearer to zero than it was.
CapsHoldAfterFill ==
  [][\A p \in Positions :
       Opened(p) /\ position'[p].entryPrice = lastEntry'.check =>
         LET equity == portfolio'.equity + trades'[p].entryFee
             side == position'[p].side
             marked == MarkedTwice(SymbolOf[position'[p].key], lastEntry'.ref,
                                   lastEntry'.check)
         IN /\ ~Exceeds(portfolio'.gross, Settings.max_gross_exposure_pct, equity)
            /\ ~Exceeds(SideExposure(position', side),
                        Settings.max_side_exposure_pct, equity)
            /\ \/ ~Exceeds(AbsoluteValue(portfolio'.net),
                           Settings.max_net_exposure_pct, equity)
               \/ AbsoluteValue(portfolio'.net) < AbsoluteValue(marked.net)]_gateVars

\* README.md, line 24: "apply deterministic risk controls for drawdown".  No entry
\* that can execute at the price it refers to while the account, at that price, is
\* down by the limit.  A limit order is checked at its own limit price instead, at
\* which evaluate_entry marks what is already open.
DrawdownBlocksEntries ==
  [][\A p \in Positions :
       /\ Opened(p)
       /\ Direction(position'[p].side) * (lastEntry'.check - lastEntry'.ref) >= 0
       => ~BreakerTripped(
            Recalculated(MarkAll(position, SymbolOf[position'[p].key], lastEntry'.ref),
                         trades, portfolio.peak))]_gateVars
=============================================================================
