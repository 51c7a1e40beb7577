------------------------------ MODULE MarketStream ------------------------------
(***************************************************************************)
(* The stream worker (app/services/bybit_stream_service.py, started by     *)
(* app/workers/stream_runner.py), the rows it writes through               *)
(* MarketDepthService (app/services/market_depth_service.py) and the       *)
(* health that /ws/market, /ws/system and /market/stream-status report     *)
(* from those rows.                                                        *)
(*                                                                         *)
(* The worker is one coroutine with a database session per message.  A     *)
(* fault is a connection the venue refuses or drops, a subscription it     *)
(* rejects, or a database that refuses a commit: every commit may fail by  *)
(* itself, and the status row of each symbol is a commit of its own.       *)
(* Instants are kept as ages, up to the first age that counts as stale.    *)
(***************************************************************************)
EXTENDS Naturals, Sequences

CONSTANTS
  SymbolList,       \* settings.symbol_allowlist_list, in its order
  StaleAfter,       \* settings.stream_stale_after_seconds, in ticks
  MessageTimeout,   \* settings.stream_message_timeout_seconds, in ticks
  FirstDelay,       \* retry_delay of a first failure, in ticks
  MaxDelay,         \* retry_delay of a lasting failure
  BidPrices,        \* bids a message may carry; 0 is a side it does not carry
  AskPrices,        \* asks a message may carry
  MaxFaults         \* bound: faults

Symbols == {SymbolList[i] : i \in 1 .. Len(SymbolList)}

ASSUME StreamAssumption ==
  /\ SymbolList \in Seq(Symbols)
  /\ StaleAfter \in Nat \ {0} /\ MessageTimeout \in Nat \ {0}
  /\ FirstDelay \in Nat \ {0} /\ MaxDelay \in Nat
  /\ FirstDelay <= MaxDelay
  /\ BidPrices \subseteq Nat /\ AskPrices \subseteq Nat
  /\ \A bid \in BidPrices \ {0}, ask \in AskPrices \ {0} : bid <= ask
  /\ MaxFaults \in Nat

VARIABLES
  worker,           \* where the coroutine of run() is, and its timers
  row,              \* the stream_status row of each symbol
  quote,            \* the spread of the newest quote_snapshots row of a symbol
  faults            \* faults so far

streamVars == <<worker, row, quote, faults>>

-----------------------------------------------------------------------------
Never == StaleAfter + 2     \* the age of what has not happened

Ages == 0 .. StaleAfter + 1

Older(age) == IF age \in 0 .. StaleAfter THEN age + 1 ELSE age

NoRow == [status |-> "NONE", heartbeat |-> Never, message |-> Never]

StatusRow == [status : {"NONE", "CONNECTING", "HEALTHY", "DEGRADED"},
              heartbeat : Ages \cup {Never}, message : Ages \cup {Never}]

\* Mutant: a control message leaves a healthy symbol healthy.
UpdatedKeepsHealthy(r, status, touch) ==
  [status |-> IF r.status = "HEALTHY" THEN r.status ELSE status,
   heartbeat |-> 0, message |-> IF touch THEN 0 ELSE r.message]

\* update_stream_status on one row: the heartbeat is set by every status, the
\* message only by market data.
Updated(r, status, touch) ==
  [status |-> status, heartbeat |-> 0, message |-> IF touch THEN 0 ELSE r.message]

\* _mark_symbols, when the first n of its commits succeed.
Marked(n, status) ==
  LET done == {SymbolList[i] : i \in 1 .. n}
  IN [s \in Symbols |-> IF s \in done THEN Updated(row[s], status, FALSE)
                        ELSE row[s]]

MarkedAll(status) == Marked(Len(SymbolList), status)

\* persist_quote, in basis points; a quote that lacks a side has no middle.
SpreadBps(bid, ask) ==
  IF bid = 0 \/ ask = 0 THEN 0 ELSE (20000 * (ask - bid)) \div (bid + ask)

NoQuote == 20001            \* more than any spread

Goto(pc) == worker' = [worker EXCEPT !.pc = pc, !.timer = 0]

CanFault == faults < MaxFaults

Fault(pc) == CanFault /\ faults' = faults + 1 /\ Goto(pc)

-----------------------------------------------------------------------------
\* What stream_status_payloads answers for the symbol.

\* Mutant: only the age of the last message is looked at.
ReportedByMessage(s) ==
  IF row[s].heartbeat = Never THEN "DISCONNECTED"
  ELSE IF row[s].message # Never /\ row[s].message > StaleAfter THEN "DEGRADED"
  ELSE row[s].status

Reported(s) ==
  IF row[s].heartbeat = Never THEN "DISCONNECTED"
  ELSE IF row[s].heartbeat > StaleAfter
       THEN IF row[s].message = Never THEN "DISCONNECTED" ELSE "DEGRADED"
  ELSE IF row[s].message # Never /\ row[s].message > StaleAfter THEN "DEGRADED"
  ELSE row[s].status

-----------------------------------------------------------------------------
\* The top of run()'s loop, outside its try: a failed commit ends the process.
Attempt ==
  /\ worker.pc = "connecting"
  /\ \/ Goto("opening") /\ row' = MarkedAll("CONNECTING") /\ UNCHANGED faults
     \/ \E n \in 0 .. Len(SymbolList) - 1 :
          Fault("down") /\ row' = Marked(n, "CONNECTING")
  /\ UNCHANGED quote

\* websockets.connect.
Open ==
  /\ worker.pc = "opening"
  /\ (Goto("subscribing") /\ UNCHANGED faults) \/ Fault("failed")
  /\ UNCHANGED <<row, quote>>

\* Instruments are synchronised, the topics are sent, the symbols marked.
Subscribe ==
  /\ worker.pc = "subscribing"
  /\ \/ Goto("backfill") /\ row' = MarkedAll("CONNECTING") /\ UNCHANGED faults
     \/ \E n \in 0 .. Len(SymbolList) - 1 :
          Fault("failed") /\ row' = Marked(n, "CONNECTING")
  /\ UNCHANGED quote

\* History of every symbol and timeframe, then the receive loop.
Backfill ==
  /\ worker.pc = "backfill"
  /\ \/ /\ worker' = [pc |-> "receiving", delay |-> FirstDelay, timer |-> 0]
        /\ UNCHANGED faults
     \/ Fault("failed")
  /\ UNCHANGED <<row, quote>>

\* _handle_control_message: a subscription acknowledged or a pong marks every
\* symbol CONNECTING, a rejected one raises.
Control ==
  /\ worker.pc = "receiving"
  /\ \/ /\ worker' = [worker EXCEPT !.timer = 0]
        /\ row' = MarkedAll("CONNECTING")
        /\ UNCHANGED faults
     \/ \E n \in 0 .. Len(SymbolList) - 1 :
          Fault("failed") /\ row' = Marked(n, "CONNECTING")
  /\ UNCHANGED quote

\* A ping, or a payload without a topic: it only shows that the venue is there.
Ignored ==
  /\ worker.pc = "receiving"
  /\ worker' = [worker EXCEPT !.timer = 0]
  /\ UNCHANGED <<row, quote, faults>>

\* What a message of a topic leaves as the newest quote of its symbol: a book
\* without one of its sides leaves none, a ticker without one leaves a quote.
QuoteAfter(s, topic, bid, ask) ==
  IF topic = "publicTrade" \/ (topic = "orderbook" /\ (bid = 0 \/ ask = 0))
  THEN quote[s] ELSE SpreadBps(bid, ask)

\* _handle_message: the snapshot, quote, tick or funding rows of the topic are
\* committed before the status of the symbol; a commit that fails leaves the
\* first without the second.
Data(s) ==
  /\ worker.pc = "receiving"
  /\ \E topic \in {"orderbook", "publicTrade", "tickers"},
        bid \in BidPrices, ask \in AskPrices :
       quote' = [quote EXCEPT ![s] = QuoteAfter(s, topic, bid, ask)]
  /\ \/ /\ worker' = [worker EXCEPT !.timer = 0]
        /\ row' = [row EXCEPT ![s] = Updated(@, "HEALTHY", TRUE)]
        /\ UNCHANGED faults
     \/ Fault("failed") /\ UNCHANGED row

\* The connection is dropped, or nothing came for MessageTimeout.
Drop ==
  /\ worker.pc = "receiving"
  /\ Fault("failed")
  /\ UNCHANGED <<row, quote>>

Silence ==
  /\ worker.pc = "receiving"
  /\ worker.timer = MessageTimeout
  /\ Goto("failed")
  /\ UNCHANGED <<row, quote, faults>>

\* Mutant: a worker that cannot connect says that it is connecting.
HandleFailureQuietly ==
  /\ worker.pc = "failed"
  /\ \/ /\ Goto("sleeping")
        /\ row' = MarkedAll("CONNECTING")
        /\ UNCHANGED faults
     \/ \E n \in 0 .. Len(SymbolList) - 1 :
          Fault("down") /\ row' = Marked(n, "CONNECTING")
  /\ UNCHANGED quote

\* The except clause: it writes to the database outside any try.
HandleFailure ==
  /\ worker.pc = "failed"
  /\ \/ /\ Goto("sleeping")
        /\ row' = MarkedAll("DEGRADED")
        /\ UNCHANGED faults
     \/ \E n \in 0 .. Len(SymbolList) - 1 :
          Fault("down") /\ row' = Marked(n, "DEGRADED")
  /\ UNCHANGED quote

NextDelay(delay) == IF 2 * delay < MaxDelay THEN 2 * delay ELSE MaxDelay

Retry ==
  /\ worker.pc = "sleeping"
  /\ worker.timer = worker.delay
  /\ worker' = [worker EXCEPT !.pc = "connecting", !.delay = NextDelay(@), !.timer = 0]
  /\ UNCHANGED <<row, quote, faults>>

Fresh == [pc |-> "connecting", delay |-> FirstDelay, timer |-> 0]

\* Mutant: nobody starts the worker again.
StaysDown == FALSE /\ UNCHANGED streamVars

\* External: `restart: unless-stopped' of docker-compose.yml.
Restart ==
  /\ worker.pc = "down"
  /\ worker' = Fresh
  /\ UNCHANGED <<row, quote, faults>>

\* Time passes: rows age, a wait for a message or for the next attempt runs on.
Tick ==
  LET limit == CASE worker.pc = "receiving" -> MessageTimeout
                 [] worker.pc = "sleeping" -> worker.delay
                 [] worker.pc = "down" -> StaleAfter + 1
                 [] OTHER -> 0
  IN /\ worker' = [worker EXCEPT !.timer = IF @ < limit THEN @ + 1 ELSE @]
     /\ row' = [s \in Symbols |->
                  [row[s] EXCEPT !.heartbeat = Older(@), !.message = Older(@)]]
     /\ UNCHANGED <<quote, faults>>

-----------------------------------------------------------------------------
Init ==
  /\ worker = Fresh
  /\ row = [s \in Symbols |-> NoRow]
  /\ quote = [s \in Symbols |-> NoQuote]
  /\ faults = 0

WorkerStep ==
  \/ Attempt \/ Open \/ Subscribe \/ Backfill \/ HandleFailure \/ Retry \/ Silence

VenueStep == Control \/ Ignored \/ Drop \/ \E s \in Symbols : Data(s)

Next == WorkerStep \/ VenueStep \/ Restart \/ Tick

Spec == Init /\ [][Next]_streamVars

\* The coroutine runs on, time passes, and docker restarts the process; the
\* venue owes nothing.
FairSpec ==
  Spec /\ WF_streamVars(WorkerStep) /\ WF_streamVars(Restart) /\ WF_streamVars(Tick)

-----------------------------------------------------------------------------
Phases == {"connecting", "opening", "subscribing", "backfill", "receiving",
           "failed", "sleeping", "down"}

\* A symbol is reported healthy only on the strength of its own data: a message
\* of it came within StaleAfter, and no reconnect, failure or control message
\* has been written since (stream_status_payloads, update_stream_status).
HealthyMeansData ==
  \A s \in Symbols :
    Reported(s) = "HEALTHY" =>
      row[s].message <= StaleAfter /\ row[s].heartbeat = row[s].message

\* A worker that died - the reconnect path writes to the database outside any
\* try (bybit_stream_service.py:233) - is not reported as connecting or healthy
\* for longer than StaleAfter.
DeathIsReported ==
  worker.pc = "down" /\ worker.timer > StaleAfter =>
    \A s \in Symbols : Reported(s) \in {"DEGRADED", "DISCONNECTED"}

\* Whatever failed, and wherever, the worker comes back to receiving: no fault
\* leaves it stuck in an attempt, in its back-off or dead.
AlwaysReconnects == []<>(worker.pc = "receiving")

\* Only acknowledgements and pongs without end keep a symbol reported as
\* connecting for ever: the worker's attempts, its back-off, a silent venue, one
\* that sends other symbols only or nothing but pings, and a dead worker do not,
\* once faults end (bybit_stream_service.py:79-87, 190-236).
ConnectingIsTemporary ==
  \/ []<><<Control>>_streamVars
  \/ \A s \in Symbols : []<>(Reported(s) # "CONNECTING")

\* No symbol is reported as connecting for ever.  (Checked by hand only: each
\* control message marks every symbol CONNECTING with a new heartbeat.)
ConnectingEnds == \A s \in Symbols : []<>(Reported(s) # "CONNECTING")
=============================================================================
