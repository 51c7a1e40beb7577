--------------------------- MODULE MarketDataProofs ----------------------------
(***************************************************************************)
(* What the market data a process keeps is worth.                          *)
(*                                                                         *)
(* The stream status rows, for every list of symbols, every staleness      *)
(* limit and every number of faults: a healthy row was last written by     *)
(* market data, and the rows of a dead worker are at least as old as its   *)
(* death.                                                                  *)
(*                                                                         *)
(* The candle store, for any number of processes: what a fetch holds, what *)
(* is cached and the newest rows of the table are whole blocks of candles, *)
(* the rows of the table as many as each fetch has brought.                *)
(***************************************************************************)
EXTENDS MarketStream, OhlcvStore, FiniteSetTheorems, WellFoundedInduction, TLAPS

Worker == [pc : Phases, delay : Nat, timer : Nat]

HealthyRows ==
  \A s \in Symbols :
    row[s].status = "HEALTHY" => row[s].heartbeat = row[s].message

DeadRows ==
  worker.pc = "down" =>
    /\ worker.timer \in Ages
    /\ \A s \in Symbols : worker.timer <= row[s].heartbeat

StreamInv ==
  /\ worker \in Worker
  /\ row \in [Symbols -> StatusRow]
  /\ HealthyRows
  /\ DeadRows

\* What any commit of update_stream_status leaves of the row of a symbol.
WrittenOrKept(s) ==
  \/ row'[s] = row[s]
  \/ \E status \in {"CONNECTING", "DEGRADED"} : row'[s] = Updated(row[s], status, FALSE)
  \/ row'[s] = Updated(row[s], "HEALTHY", TRUE)

-----------------------------------------------------------------------------
\* A row marked without data is a status row that is not healthy.
LEMMA UpdatedQuietly ==
  ASSUME NEW r \in StatusRow, NEW status \in {"CONNECTING", "DEGRADED"}
  PROVE  /\ Updated(r, status, FALSE) \in StatusRow
         /\ Updated(r, status, FALSE).status # "HEALTHY"
BY StreamAssumption DEF StreamAssumption, Ages, Updated, StatusRow

\* A row written by data has one instant for its heartbeat and its message.
LEMMA UpdatedByData ==
  ASSUME NEW r \in StatusRow
  PROVE  LET written == Updated(r, "HEALTHY", TRUE)
         IN  written \in StatusRow /\ written.heartbeat = written.message
BY StreamAssumption DEF StreamAssumption, Ages, Updated, StatusRow

\* Marking symbols writes some of the rows.
LEMMA MarkedRows ==
  ASSUME NEW n, NEW status \in {"CONNECTING", "DEGRADED"}, row' = Marked(n, status)
  PROVE  /\ row' \in [Symbols -> {row'[s] : s \in Symbols}]
         /\ \A s \in Symbols : WrittenOrKept(s)
BY DEF Marked, WrittenOrKept

\* A step of the worker that writes rows, in a phase where it is alive or just
\* died, keeps the invariant.
LEMMA WritesKeepInv ==
  ASSUME StreamInv, worker' \in Worker,
         row' \in [Symbols -> {row'[s] : s \in Symbols}],
         \A s \in Symbols : WrittenOrKept(s),
         worker'.pc = "down" => worker'.timer = 0
  PROVE  StreamInv'
<1>1. \A s \in Symbols :
        row'[s] \in StatusRow
          /\ (row'[s].status = "HEALTHY" => row'[s].heartbeat = row'[s].message)
  <2>. TAKE s \in Symbols
  <2>1. row[s] \in StatusRow
    BY DEF StreamInv
  <2>2. CASE row'[s] = row[s]
    BY <2>1, <2>2 DEF StreamInv, HealthyRows
  <2>3. ASSUME NEW status \in {"CONNECTING", "DEGRADED"},
               row'[s] = Updated(row[s], status, FALSE)
        PROVE  /\ row'[s] \in StatusRow
               /\ row'[s].status = "HEALTHY" => row'[s].heartbeat = row'[s].message
    BY <2>1, <2>3, UpdatedQuietly
  <2>4. CASE row'[s] = Updated(row[s], "HEALTHY", TRUE)
    BY <2>1, <2>4, UpdatedByData
  <2>. QED
    BY <2>2, <2>3, <2>4 DEF WrittenOrKept
<1>2. row' \in [Symbols -> StatusRow]
  BY <1>1
<1>3. HealthyRows'
  BY <1>1 DEF HealthyRows
<1>4. \A s \in Symbols : row'[s].heartbeat \in Nat /\ row'[s].heartbeat >= 0
  BY <1>1, StreamAssumption DEF StreamAssumption, StatusRow, Ages, Never
<1>5. 0 \in Ages
  BY StreamAssumption DEF StreamAssumption, Ages
<1>6. DeadRows'
  BY <1>4, <1>5 DEF DeadRows
<1>. QED
  BY <1>2, <1>3, <1>6 DEF StreamInv

\* A phase change starts the timer of the phase.
LEMMA GotoWorker ==
  ASSUME worker \in Worker, NEW pc \in Phases, Goto(pc)
  PROVE  /\ worker' \in Worker
         /\ worker'.timer = 0
         /\ worker'.pc = pc
BY DEF Goto, Worker

\* Rows that nobody writes are kept rows.
LEMMA KeptRows ==
  ASSUME row \in [Symbols -> StatusRow], row' = row
  PROVE  /\ row' \in [Symbols -> {row'[s] : s \in Symbols}]
         /\ \A s \in Symbols : WrittenOrKept(s)
BY DEF WrittenOrKept

-----------------------------------------------------------------------------
LEMMA InitInv == Init => StreamInv
<1>. SUFFICES ASSUME Init
              PROVE  StreamInv
  OBVIOUS
<1>1. worker \in Worker /\ worker.pc # "down"
  BY StreamAssumption DEF Init, StreamAssumption, Fresh, Worker, Phases
<1>2. NoRow \in StatusRow /\ NoRow.status # "HEALTHY"
  BY DEF NoRow, StatusRow
<1>3. row \in [Symbols -> StatusRow] /\ \A s \in Symbols : row[s].status # "HEALTHY"
  BY <1>2 DEF Init
<1>. QED
  BY <1>1, <1>3 DEF StreamInv, HealthyRows, DeadRows

\* Time keeps a heartbeat and a message of one age, and no row overtakes the
\* timer of a dead worker.
LEMMA TickInv ==
  ASSUME StreamInv, Tick
  PROVE  StreamInv'
<1>. USE StreamAssumption DEF StreamAssumption
<1>1. PICK limit \in Nat :
        /\ worker.pc = "down" => limit = StaleAfter + 1
        /\ worker' = [worker EXCEPT !.timer = IF @ < limit THEN @ + 1 ELSE @]
  <2>. DEFINE limit == CASE worker.pc = "receiving" -> MessageTimeout
                         [] worker.pc = "sleeping" -> worker.delay
                         [] worker.pc = "down" -> StaleAfter + 1
                         [] OTHER -> 0
  <2>1. worker.delay \in Nat
    BY DEF StreamInv, Worker
  <2>2. limit \in Nat /\ (worker.pc = "down" => limit = StaleAfter + 1)
    BY <2>1
  <2>3. worker' = [worker EXCEPT !.timer = IF @ < limit THEN @ + 1 ELSE @]
    BY DEF Tick
  <2>. QED
    BY <2>2, <2>3
<1>2. worker' \in Worker /\ worker'.pc = worker.pc
         /\ worker'.timer = IF worker.timer < limit THEN worker.timer + 1 ELSE worker.timer
  BY <1>1 DEF StreamInv, Worker
<1>3. \A age \in Ages \cup {Never} : Older(age) \in Ages \cup {Never}
  BY DEF Older, Ages, Never
<1>4. row' = [s \in Symbols |->
                [row[s] EXCEPT !.heartbeat = Older(@), !.message = Older(@)]]
  BY DEF Tick
<1>5. ASSUME NEW s \in Symbols
      PROVE  /\ row'[s] \in StatusRow
             /\ row'[s].status = row[s].status
             /\ row'[s].heartbeat = Older(row[s].heartbeat)
             /\ row'[s].message = Older(row[s].message)
  <2>1. row[s] \in StatusRow
    BY DEF StreamInv
  <2>2. row'[s] = [row[s] EXCEPT !.heartbeat = Older(@), !.message = Older(@)]
    BY <1>4
  <2>3. /\ Older(row[s].heartbeat) \in Ages \cup {Never}
        /\ Older(row[s].message) \in Ages \cup {Never}
    BY <1>3, <2>1 DEF StatusRow
  <2>. QED
    BY <2>1, <2>2, <2>3 DEF StatusRow
<1>6. row' \in [Symbols -> StatusRow]
  BY <1>4, <1>5
<1>7. HealthyRows'
  BY <1>5 DEF StreamInv, HealthyRows
<1>8. DeadRows'
  <2>. SUFFICES ASSUME worker.pc = "down"
                PROVE  /\ worker'.timer \in Ages
                       /\ \A s \in Symbols : worker'.timer <= Older(row[s].heartbeat)
    BY <1>2, <1>5 DEF DeadRows
  <2>1. worker.timer \in 0 .. StaleAfter + 1
    BY DEF StreamInv, DeadRows, Ages
  <2>2. worker'.timer = IF worker.timer < StaleAfter + 1 THEN worker.timer + 1
                        ELSE worker.timer
    BY <1>1, <1>2
  <2>3. ASSUME NEW s \in Symbols
        PROVE  worker'.timer <= Older(row[s].heartbeat)
    <3>1. row[s].heartbeat \in Ages \cup {Never}
      BY DEF StreamInv, StatusRow
    <3>2. worker.timer <= row[s].heartbeat
      BY DEF StreamInv, DeadRows
    <3>. QED
      BY <2>1, <2>2, <3>1, <3>2 DEF Older, Ages, Never
  <2>. QED
    BY <2>1, <2>2, <2>3 DEF Ages
<1>. QED
  BY <1>2, <1>6, <1>7, <1>8 DEF StreamInv

-----------------------------------------------------------------------------
LEMMA StepInv == StreamInv /\ [Next]_streamVars => StreamInv'
<1>. SUFFICES ASSUME StreamInv, [Next]_streamVars
              PROVE  StreamInv'
  OBVIOUS
<1>. USE DEF Phases
<1>0. worker \in Worker /\ row \in [Symbols -> StatusRow]
  BY DEF StreamInv
<1>1. CASE Attempt
  <2>1. \E pc \in {"opening", "down"} : Goto(pc)
    BY <1>1 DEF Attempt, Fault
  <2>2. \E n \in Nat \cup {Len(SymbolList)} : row' = Marked(n, "CONNECTING")
    BY <1>1 DEF Attempt, MarkedAll
  <2>. QED
    BY <1>0, <2>1, <2>2, GotoWorker, MarkedRows, WritesKeepInv
<1>2. CASE Open
  <2>1. \E pc \in {"subscribing", "failed"} : Goto(pc)
    BY <1>2 DEF Open, Fault
  <2>2. row' = row
    BY <1>2 DEF Open
  <2>. QED
    BY <1>0, <2>1, <2>2, GotoWorker, KeptRows, WritesKeepInv
<1>3. CASE Subscribe
  <2>1. \E pc \in {"backfill", "failed"} : Goto(pc)
    BY <1>3 DEF Subscribe, Fault
  <2>2. \E n \in Nat \cup {Len(SymbolList)} : row' = Marked(n, "CONNECTING")
    BY <1>3 DEF Subscribe, MarkedAll
  <2>. QED
    BY <1>0, <2>1, <2>2, GotoWorker, MarkedRows, WritesKeepInv
<1>4. CASE Backfill
  <2>1. worker' \in Worker /\ worker'.pc # "down"
    <3>1. CASE Fault("failed")
      BY <1>0, <3>1, GotoWorker DEF Fault
    <3>2. CASE worker' = [pc |-> "receiving", delay |-> FirstDelay, timer |-> 0]
      BY <3>2, StreamAssumption DEF StreamAssumption, Worker
    <3>. QED
      BY <1>4, <3>1, <3>2 DEF Backfill
  <2>2. row' = row
    BY <1>4 DEF Backfill
  <2>. QED
    BY <1>0, <2>1, <2>2, KeptRows, WritesKeepInv
<1>5. CASE HandleFailure
  <2>1. \E pc \in {"sleeping", "down"} : Goto(pc)
    BY <1>5 DEF HandleFailure, Fault
  <2>2. \E n \in Nat \cup {Len(SymbolList)} : row' = Marked(n, "DEGRADED")
    BY <1>5 DEF HandleFailure, MarkedAll
  <2>. QED
    BY <1>0, <2>1, <2>2, GotoWorker, MarkedRows, WritesKeepInv
<1>6. CASE Retry
  <2>1. worker.delay \in Nat /\ NextDelay(worker.delay) \in Nat
    BY <1>0, StreamAssumption DEF StreamAssumption, Worker, NextDelay
  <2>2. worker' \in Worker /\ worker'.pc # "down"
    BY <1>0, <1>6, <2>1 DEF Retry, Worker
  <2>3. row' = row
    BY <1>6 DEF Retry
  <2>. QED
    BY <1>0, <2>2, <2>3, KeptRows, WritesKeepInv
<1>7. CASE Silence
  <2>1. Goto("failed") /\ row' = row
    BY <1>7 DEF Silence
  <2>. QED
    BY <1>0, <2>1, GotoWorker, KeptRows, WritesKeepInv
<1>8. CASE Control
  <2>1. worker' \in Worker /\ worker'.pc # "down"
    <3>1. CASE Fault("failed")
      BY <1>0, <3>1, GotoWorker DEF Fault
    <3>2. CASE worker' = [worker EXCEPT !.timer = 0]
      <4>1. worker.pc = "receiving"
        BY <1>8 DEF Control
      <4>. QED
        BY <1>0, <3>2, <4>1 DEF Worker
    <3>. QED
      BY <1>8, <3>1, <3>2 DEF Control
  <2>2. \E n \in Nat \cup {Len(SymbolList)} : row' = Marked(n, "CONNECTING")
    BY <1>8 DEF Control, MarkedAll
  <2>. QED
    BY <1>0, <2>1, <2>2, MarkedRows, WritesKeepInv
<1>9. CASE Ignored
  <2>1. worker' \in Worker /\ worker'.pc # "down" /\ row' = row
    BY <1>0, <1>9 DEF Ignored, Worker
  <2>. QED
    BY <1>0, <2>1, KeptRows, WritesKeepInv
<1>10. CASE Drop
  <2>1. Goto("failed") /\ row' = row
    BY <1>10 DEF Drop, Fault
  <2>. QED
    BY <1>0, <2>1, GotoWorker, KeptRows, WritesKeepInv
<1>11. ASSUME NEW s \in Symbols, Data(s)
       PROVE  StreamInv'
  <2>1. CASE Fault("failed") /\ row' = row
    BY <1>0, <2>1, GotoWorker, KeptRows, WritesKeepInv DEF Fault
  <2>2. CASE /\ worker' = [worker EXCEPT !.timer = 0]
             /\ row' = [row EXCEPT ![s] = Updated(@, "HEALTHY", TRUE)]
    <3>1. worker' \in Worker /\ worker'.pc # "down"
      BY <1>0, <1>11, <2>2 DEF Data, Worker
    <3>2. /\ row' \in [Symbols -> {row'[t] : t \in Symbols}]
          /\ \A t \in Symbols : WrittenOrKept(t)
      BY <1>0, <2>2 DEF WrittenOrKept
    <3>. QED
      BY <3>1, <3>2, WritesKeepInv
  <2>. QED
    BY <1>11, <2>1, <2>2 DEF Data
<1>12. CASE Restart
  <2>1. worker' \in Worker /\ worker'.pc # "down" /\ row' = row
    BY <1>12, StreamAssumption DEF Restart, Fresh, Worker, StreamAssumption
  <2>. QED
    BY <1>0, <2>1, KeptRows, WritesKeepInv
<1>13. CASE Tick
  BY <1>13, TickInv
<1>14. CASE UNCHANGED streamVars
  BY <1>14 DEF streamVars, StreamInv, HealthyRows, DeadRows
<1>. QED
  BY <1>1, <1>2, <1>3, <1>4, <1>5, <1>6, <1>7, <1>8, <1>9, <1>10, <1>11, <1>12,
     <1>13, <1>14 DEF Next, WorkerStep, VenueStep

LEMMA StreamInvHolds == Spec => []StreamInv
BY InitInv, StepInv, PTL DEF Spec

-----------------------------------------------------------------------------
\* A symbol is reported healthy (stream_status_payloads) only on the strength of
\* its own market data, whatever control messages, reconnects and failed commits
\* came between.
THEOREM HealthyTheorem == Spec => []HealthyMeansData
<1>1. StreamInv => HealthyMeansData
  <2>. SUFFICES ASSUME StreamInv, NEW s \in Symbols, Reported(s) = "HEALTHY"
                PROVE  row[s].message <= StaleAfter /\ row[s].heartbeat = row[s].message
    BY DEF HealthyMeansData
  <2>1. row[s].status = "HEALTHY" /\ ~(row[s].heartbeat > StaleAfter)
    BY DEF Reported
  <2>2. row[s].heartbeat = row[s].message
    BY <2>1 DEF StreamInv, HealthyRows
  <2>3. row[s].heartbeat \in Ages \cup {Never}
    BY DEF StreamInv, StatusRow
  <2>. QED
    BY <2>1, <2>2, <2>3, StreamAssumption DEF StreamAssumption, Ages, Never
<1>. QED
  BY <1>1, StreamInvHolds, PTL

\* A worker dead for longer than StaleAfter - its reconnect path writes to the
\* database outside any try - leaves no symbol reported connecting or healthy,
\* however many status rows it managed to write before it died.
THEOREM DeathTheorem == Spec => []DeathIsReported
<1>1. StreamInv => DeathIsReported
  <2>. SUFFICES ASSUME StreamInv, worker.pc = "down", worker.timer > StaleAfter,
                       NEW s \in Symbols
                PROVE  Reported(s) \in {"DEGRADED", "DISCONNECTED"}
    BY DEF DeathIsReported
  <2>1. worker.timer \in Ages /\ worker.timer <= row[s].heartbeat
    BY DEF StreamInv, DeadRows
  <2>2. row[s].heartbeat \in Ages \cup {Never}
    BY DEF StreamInv, StatusRow
  <2>3. row[s].heartbeat > StaleAfter
    BY <2>1, <2>2, StreamAssumption DEF StreamAssumption, Ages, Never
  <2>. QED
    BY <2>3 DEF Reported
<1>. QED
  BY <1>1, StreamInvHolds, PTL

-----------------------------------------------------------------------------
\* The candles.  The n candles up to the newest of a set are in it.
FullUpTo(bars, n) ==
  \A newest \in bars : (\A o \in bars : o <= newest) =>
    \A c \in Bars : newest - n < c /\ c <= newest => c \in bars

Frames == UNION {[bars -> Nat] : bars \in SUBSET Bars}

Fetches == [active : BOOLEAN, limit : Limits \cup {0}, frame : Frames,
            existing : SUBSET Bars]

Answers == {"none", "cache", "database", "exchange"}

StoreTypeOK ==
  /\ now \in Nat
  /\ stored \in [Bars -> Nat \cup {Missing}]
  /\ cache \in [Limits -> [frame : Frames, until : Int]]
  /\ fetching \in [Processes -> Fetches]
  /\ answer \in [kind : Answers, limit : Limits \cup {0}, frame : Frames]
  /\ fetched \in SUBSET Nat

\* A fetch under way, or a cached one, is a whole block of candles, and what it
\* found in the table is still there.
FramesAreWhole ==
  /\ \A l \in Limits : Convex(DOMAIN cache[l].frame)
  /\ \A p \in Processes :
       /\ Convex(DOMAIN fetching[p].frame)
       /\ \A n \in Nat : n <= fetching[p].limit => FullUpTo(DOMAIN fetching[p].frame, n)
       /\ fetching[p].existing \subseteq StoredBars

\* The table has its newest candles, as many as every fetch has brought.
TableIsFull ==
  \A n \in Nat : (\A limit \in fetched : n <= limit) => FullUpTo(StoredBars, n)

StoreInv ==
  /\ StoreTypeOK
  /\ TableIsFull
  /\ FramesAreWhole
  /\ HolesOnlyPastShortFetches

\* The candles are an interval of the naturals.
LEMMA BarsAreFinite ==
  /\ MaxTime \div BarTicks \in Nat
  /\ Bars \subseteq Nat /\ IsFiniteSet(Bars)
  /\ \A b \in Bars : \A c \in Nat : c <= b => c \in Bars
<1>1. MaxTime \div BarTicks \in Nat
  BY StoreAssumption DEF StoreAssumption
<1>. QED
  BY <1>1, FS_Interval DEF Bars

\* A set of candles has a newest one.
LEMMA HasNewest ==
  ASSUME NEW S \in SUBSET Bars, S # {}
  PROVE  \E m \in S : \A o \in S : o <= m
<1>. DEFINE N == MaxTime \div BarTicks
            R == {ss \in Nat \X Nat : ss[1] < ss[2]}
            T == {N - b : b \in S}
<1>1. N \in Nat /\ \A b \in S : b \in Nat /\ b <= N
  BY BarsAreFinite DEF Bars
<1>. HIDE DEF N
<1>2. T \subseteq Nat /\ T # {}
  BY <1>1
<1>3. IsWellFoundedOn(R, Nat)
  BY NatLessThanWellFounded DEF OpToRel
<1>4. PICK x \in T : \A y \in T : ~ (<<y, x>> \in R)
  <2>. HIDE DEF R, T
  <2>. QED
    BY <1>2, <1>3, WFMin
<1>5. PICK m \in S : x = N - m
  BY DEF T
<1>6. \A o \in S : o <= m
  <2>. TAKE o \in S
  <2>1. N - o \in T /\ N - o \in Nat /\ N - m \in Nat
    BY <1>1, <1>2
  <2>2. ~ (N - o < N - m)
    BY <1>4, <1>5, <2>1
  <2>. QED
    BY <1>1, <2>2
<1>. QED
  BY <1>6

\* The candles of a set newer than one of them, and how many they are.
NewerIn(S, b) == {o \in S : o > b}

LEMMA InNewest ==
  ASSUME NEW S, NEW l, NEW b
  PROVE  b \in NewestOf(S, l) <=> b \in S /\ Cardinality(NewerIn(S, b)) < l
BY DEF NewestOf, NewerIn

LEMMA NewerThan ==
  ASSUME NEW S \in SUBSET Bars, NEW b \in Bars
  PROVE  /\ IsFiniteSet(NewerIn(S, b))
         /\ Cardinality(NewerIn(S, b)) \in Nat
         /\ \A c \in Bars : b <= c =>
              Cardinality(NewerIn(S, c)) <= Cardinality(NewerIn(S, b))
<1>1. \A c \in Bars : NewerIn(S, c) \in SUBSET Bars
  BY DEF NewerIn
<1>2. \A c \in Bars : /\ IsFiniteSet(NewerIn(S, c))
                      /\ Cardinality(NewerIn(S, c)) \in Nat
  BY <1>1, BarsAreFinite, FS_Subset, FS_CardinalityType
<1>3. ASSUME NEW c \in Bars, b <= c
      PROVE  Cardinality(NewerIn(S, c)) <= Cardinality(NewerIn(S, b))
  <2>1. \A o \in S : o \in Nat
    BY BarsAreFinite
  <2>2. b \in Nat /\ c \in Nat
    BY BarsAreFinite
  <2>3. NewerIn(S, c) \in SUBSET NewerIn(S, b)
    <3>. SUFFICES ASSUME NEW o \in S, o > c PROVE o > b
      BY DEF NewerIn
    <3>. QED
      BY <1>3, <2>1, <2>2
  <2>. QED
    BY <1>2, <2>3, FS_Subset
<1>. QED
  BY <1>2, <1>3

\* The newest l of a set that is full up to n >= l have no holes.
LEMMA NewestAreConvex ==
  ASSUME NEW S \in SUBSET Bars, NEW n \in Nat, NEW l \in Nat, l <= n,
         FullUpTo(S, n)
  PROVE  Convex(NewestOf(S, l))
<1>. SUFFICES ASSUME NEW b \in NewestOf(S, l), NEW c \in NewestOf(S, l),
                     NEW x \in b .. c
              PROVE  x \in NewestOf(S, l)
  BY DEF Convex
<1>0. b \in S /\ c \in S /\ Cardinality(NewerIn(S, b)) < l
  BY InNewest
<1>1. /\ b \in Nat /\ c \in Nat /\ x \in Nat
      /\ b <= x /\ x <= c /\ x \in Bars /\ b \in Bars
  BY <1>0, BarsAreFinite
<1>2. PICK m \in S : \A o \in S : o <= m
  BY <1>0, HasNewest
<1>3. m \in Nat /\ m \in Bars /\ x <= m
  BY <1>0, <1>1, <1>2, BarsAreFinite
<1>4. m - n < b
  <2>. SUFFICES ASSUME b <= m - n PROVE FALSE
    BY <1>1, <1>3
  <2>1. (m - n + 1) .. m \in SUBSET NewerIn(S, b)
    <3>. SUFFICES ASSUME NEW o \in (m - n + 1) .. m
                  PROVE  o \in S /\ o > b
      BY DEF NewerIn
    <3>1. o \in Nat /\ o <= m /\ m - n < o /\ o > b
      BY <1>1, <1>3
    <3>. QED
      BY <1>2, <1>3, <3>1, BarsAreFinite DEF FullUpTo
  <2>2. Cardinality((m - n + 1) .. m) = n
    <3>1. m - n + 1 \in Int /\ m \in Int
      BY <1>3
    <3>. QED
      BY <1>3, <3>1, FS_Interval
  <2>3. IsFiniteSet(NewerIn(S, b)) /\ Cardinality(NewerIn(S, b)) \in Nat
    BY <1>1, NewerThan
  <2>4. n <= Cardinality(NewerIn(S, b))
    <3>. DEFINE block == (m - n + 1) .. m
    <3>. HIDE DEF block
    <3>1. block \in SUBSET NewerIn(S, b) /\ Cardinality(block) = n
      BY <2>1, <2>2 DEF block
    <3>. QED
      BY <2>3, <3>1, FS_Subset
  <2>. QED
    BY <1>0, <2>3, <2>4
<1>5. x \in S
  BY <1>1, <1>2, <1>3, <1>4 DEF FullUpTo
<1>6. /\ Cardinality(NewerIn(S, x)) \in Nat /\ Cardinality(NewerIn(S, b)) \in Nat
      /\ Cardinality(NewerIn(S, x)) <= Cardinality(NewerIn(S, b))
  BY <1>1, NewerThan
<1>7. Cardinality(NewerIn(S, x)) < l
  BY <1>0, <1>6
<1>. QED
  BY <1>5, <1>7, InNewest

\* What the exchange has: every candle that has opened.
LEMMA OpenedAreAll ==
  ASSUME now \in Nat
  PROVE  LET opened == {b \in Bars : OpensAt(b) <= now}
         IN  \A n \in Nat : FullUpTo(opened, n)
<1>1. ASSUME NEW b \in Bars, NEW c \in Bars, c <= b
      PROVE  OpensAt(c) <= OpensAt(b)
  <2>1. b \in Nat /\ c \in Nat /\ BarTicks \in Nat
    BY BarsAreFinite, StoreAssumption DEF StoreAssumption
  <2>2. (b - c) * BarTicks \in Nat
    <3>1. b - c \in Nat
      BY <1>1, <2>1
    <3>. HIDE DEF Bars
    <3>. QED
      BY <2>1, <3>1
  <2>3. (b - c) * BarTicks = b * BarTicks - c * BarTicks
    BY <2>1
  <2>4. b * BarTicks \in Nat /\ c * BarTicks \in Nat
    BY <2>1
  <2>. QED
    BY <2>2, <2>3, <2>4 DEF OpensAt
<1>2. \A b \in Bars : OpensAt(b) \in Int
  BY BarsAreFinite, StoreAssumption DEF StoreAssumption, OpensAt
<1>. QED
  BY <1>1, <1>2 DEF FullUpTo

\* The newest l of a set that is full are full up to any n <= l.
LEMMA NewestAreFull ==
  ASSUME NEW S \in SUBSET Bars, NEW n \in Nat, NEW l \in Nat, n <= l,
         FullUpTo(S, l)
  PROVE  FullUpTo(NewestOf(S, l), n)
<1>. DEFINE T == NewestOf(S, l)
<1>. SUFFICES ASSUME NEW m \in T, \A o \in T : o <= m,
                     NEW c \in Bars, m - n < c, c <= m
              PROVE  c \in T
  BY DEF FullUpTo
<1>0. m \in S /\ Cardinality(NewerIn(S, m)) < l
  BY InNewest
<1>1. m \in Bars /\ m \in Nat /\ c \in Nat /\ \A o \in S : o \in Nat /\ o \in Bars
  BY <1>0, BarsAreFinite
<1>2. \A o \in S : o <= m
  <2>. SUFFICES ASSUME NEW o \in S, o > m PROVE FALSE
    BY <1>1
  <2>1. /\ Cardinality(NewerIn(S, o)) \in Nat /\ Cardinality(NewerIn(S, m)) \in Nat
        /\ Cardinality(NewerIn(S, o)) <= Cardinality(NewerIn(S, m))
    BY <1>1, NewerThan
  <2>2. o \in T
    BY <1>0, <2>1, InNewest
  <2>. QED
    BY <1>1, <2>2
<1>3. m - l < c
  BY <1>1
<1>4. c \in S
  BY <1>0, <1>2, <1>3 DEF FullUpTo
<1>5. Cardinality(NewerIn(S, c)) < l
  <2>1. NewerIn(S, c) \in SUBSET ((c + 1) .. m)
    <3>. SUFFICES ASSUME NEW o \in S, o > c PROVE o \in (c + 1) .. m
      BY DEF NewerIn
    <3>. QED
      BY <1>1, <1>2
  <2>2. c + 1 \in Int /\ m \in Int
    BY <1>1
  <2>3. /\ IsFiniteSet((c + 1) .. m)
        /\ Cardinality((c + 1) .. m) = IF c + 1 > m THEN 0 ELSE m - (c + 1) + 1
    BY <2>2, FS_Interval
  <2>4. Cardinality(NewerIn(S, c)) <= Cardinality((c + 1) .. m)
    BY <2>1, <2>3, FS_Subset
  <2>5. l > 0 /\ m - c < l
    BY <1>1
  <2>6. Cardinality(NewerIn(S, c)) \in Nat
    BY NewerThan
  <2>. QED
    BY <1>1, <2>3, <2>4, <2>5, <2>6
<1>. QED
  BY <1>4, <1>5, InNewest

\* A table that takes up a block of candles stays full.
LEMMA UnionIsFull ==
  ASSUME NEW S \in SUBSET Bars, NEW T \in SUBSET Bars, NEW n \in Nat,
         FullUpTo(S, n), FullUpTo(T, n)
  PROVE  FullUpTo(S \cup T, n)
BY DEF FullUpTo

\* What the exchange answers is a whole block, for whatever number of candles.
LEMMA FetchedIsWhole ==
  ASSUME now \in Nat, NEW n \in Nat, NEW limit \in Limits, n <= limit
  PROVE  /\ FetchOhlcv(limit) \in Frames
         /\ Convex(DOMAIN FetchOhlcv(limit))
         /\ FullUpTo(DOMAIN FetchOhlcv(limit), n)
<1>. DEFINE opened == {b \in Bars : OpensAt(b) <= now}
            bars == NewestOf(opened, limit)
<1>1. limit \in Nat /\ opened \in SUBSET Bars /\ FullUpTo(opened, limit)
  BY OpenedAreAll, StoreAssumption DEF StoreAssumption
<1>2. Convex(bars) /\ FullUpTo(bars, n)
  <2>. HIDE DEF opened
  <2>. QED
    BY <1>1, NewestAreConvex, NewestAreFull
<1>3. \A b \in bars : b \in opened
  BY DEF NewestOf
<1>4. \A b \in bars : Least(now - OpensAt(b), BarTicks) \in Nat
  <2>. TAKE b \in bars
  <2>1. b \in Nat /\ BarTicks \in Nat /\ OpensAt(b) <= now
    BY <1>3, BarsAreFinite, StoreAssumption DEF StoreAssumption
  <2>2. OpensAt(b) \in Int
    BY <2>1 DEF OpensAt
  <2>. QED
    BY <2>1, <2>2 DEF Least
<1>5. FetchOhlcv(limit) \in [bars -> Nat] /\ DOMAIN FetchOhlcv(limit) = bars
  BY <1>4 DEF FetchOhlcv
<1>6. bars \in SUBSET Bars
  BY <1>1, <1>3
<1>. QED
  BY <1>2, <1>5, <1>6 DEF Frames

\* What the table answers is a frame, with holes only past a shorter fetch.
LEMMA LoadedIsWhole ==
  ASSUME StoreTypeOK, TableIsFull, NEW limit \in Limits
  PROVE  /\ LoadFromDb(limit) \in Frames
         /\ \/ Convex(DOMAIN LoadFromDb(limit))
            \/ \E shorter \in fetched : shorter < limit
<1>. DEFINE bars == NewestOf(StoredBars, limit)
<1>1. limit \in Nat /\ StoredBars \in SUBSET Bars /\ fetched \in SUBSET Nat
  BY StoreAssumption DEF StoreAssumption, StoredBars, StoreTypeOK
<1>2. Convex(bars) \/ \E shorter \in fetched : shorter < limit
  <2>1. CASE \A shorter \in fetched : limit <= shorter
    <3>1. FullUpTo(StoredBars, limit) /\ limit <= limit
      BY <1>1, <2>1 DEF TableIsFull
    <3>. QED
      BY <1>1, <3>1, NewestAreConvex
  <2>2. CASE \E shorter \in fetched : ~(limit <= shorter)
    BY <1>1, <2>2
  <2>. QED
    BY <2>1, <2>2
<1>3. bars \in SUBSET Bars /\ \A b \in bars : stored[b] \in Nat
  BY DEF NewestOf, StoredBars, StoreTypeOK
<1>4. LoadFromDb(limit) \in [bars -> Nat] /\ DOMAIN LoadFromDb(limit) = bars
  BY <1>3 DEF LoadFromDb
<1>. QED
  BY <1>2, <1>3, <1>4 DEF Frames

-----------------------------------------------------------------------------
\* Any reply is of its type.
LEMMA RepliesAreTyped ==
  ASSUME NEW kind \in Answers, NEW limit \in Limits \cup {0}, NEW frame \in Frames
  PROVE  [kind |-> kind, limit |-> limit, frame |-> frame]
           \in [kind : Answers, limit : Limits \cup {0}, frame : Frames]
OBVIOUS

LEMMA AnswersAre ==
  "none" \in Answers /\ "cache" \in Answers /\ "database" \in Answers
    /\ "exchange" \in Answers
BY DEF Answers

LEMMA NoFrameIsWhole ==
  /\ NoFrame \in Frames /\ DOMAIN NoFrame = {}
  /\ Convex({}) /\ \A n : FullUpTo({}, n)
<1>1. NoFrame \in [{} -> Nat] /\ DOMAIN NoFrame = {}
  BY DEF NoFrame
<1>. QED
  BY <1>1 DEF Frames, Convex, FullUpTo

\* A new store has nothing.
LEMMA StoreStarts ==
  ASSUME StoreInit
  PROVE  StoreInv
<1>1. StoredBars = {}
  BY DEF StoreInit, StoredBars
<1>2. StoreTypeOK
  <2>1. NoCache \in [frame : Frames, until : Int] /\ NoFetch \in Fetches
    BY NoFrameIsWhole DEF NoCache, NoFetch, Fetches
  <2>. HIDE DEF NoCache, NoFetch
  <2>2. now \in Nat /\ stored \in [Bars -> Nat \cup {Missing}]
    BY StoreAssumption DEF StoreInit, StoreAssumption
  <2>3. answer \in [kind : Answers, limit : Limits \cup {0}, frame : Frames]
    BY NoFrameIsWhole, AnswersAre, RepliesAreTyped DEF StoreInit
  <2>4. /\ cache \in [Limits -> [frame : Frames, until : Int]]
        /\ fetching \in [Processes -> Fetches]
    BY <2>1 DEF StoreInit
  <2>. QED
    BY <2>2, <2>3, <2>4 DEF StoreTypeOK, StoreInit
<1>3. FramesAreWhole /\ HolesOnlyPastShortFetches /\ TableIsFull
  BY <1>1, NoFrameIsWhole
     DEF StoreInit, FramesAreWhole, HolesOnlyPastShortFetches, TableIsFull,
         NoCache, NoFetch
<1>. QED
  BY <1>1, <1>2, <1>3, NoFrameIsWhole DEF StoreInv

\* An answer takes a frame from the cache or the table and changes neither.
LEMMA AnswersKeep ==
  ASSUME StoreInv, NEW p \in Processes, NEW limit \in Limits,
         \/ AnswerFromCache(p, limit)
         \/ \E cachedOnly \in BOOLEAN : AnswerFromDb(p, limit, cachedOnly)
  PROVE  StoreInv'
<1>1. limit \in Nat
  BY StoreAssumption DEF StoreAssumption
<1>2. /\ UNCHANGED <<now, stored, cache, fetching, fetched>>
      /\ answer' \in [kind : Answers, limit : Limits \cup {0}, frame : Frames]
      /\ HolesOnlyPastShortFetches'
  <2>1. CASE AnswerFromCache(p, limit)
    <3>1. answer' = [kind |-> "cache", limit |-> limit, frame |-> cache[limit].frame]
      BY <2>1 DEF AnswerFromCache, Reply
    <3>2. cache[limit].frame \in Frames /\ Convex(DOMAIN cache[limit].frame)
      BY DEF StoreInv, StoreTypeOK, FramesAreWhole
    <3>. QED
      BY <2>1, <3>1, <3>2, AnswersAre, RepliesAreTyped
         DEF AnswerFromCache, HolesOnlyPastShortFetches
  <2>2. CASE \E cachedOnly \in BOOLEAN : AnswerFromDb(p, limit, cachedOnly)
    <3>1. /\ answer' = [kind |-> "database", limit |-> limit, frame |-> LoadFromDb(limit)]
          /\ UNCHANGED <<now, stored, cache, fetching, fetched>>
      BY <2>2 DEF AnswerFromDb, Reply
    <3>2. /\ LoadFromDb(limit) \in Frames
          /\ \/ Convex(DOMAIN LoadFromDb(limit))
             \/ \E shorter \in fetched : shorter < limit
      BY LoadedIsWhole DEF StoreInv
    <3>. QED
      BY <3>1, <3>2, AnswersAre, RepliesAreTyped DEF HolesOnlyPastShortFetches
  <2>. QED
    BY <2>1, <2>2
<1>. QED
  BY <1>2 DEF StoreInv, StoreTypeOK, FramesAreWhole, TableIsFull, StoredBars, FullUpTo

\* A fetch holds what the exchange answered and what the table then had.
LEMMA StartFetchKeeps ==
  ASSUME StoreInv, NEW p \in Processes,
         NEW limit \in Limits, NEW refresh \in BOOLEAN,
         StartFetch(p, limit, refresh)
  PROVE  StoreInv'
<1>. DEFINE frame == FetchOhlcv(limit)
            fetch == [active |-> TRUE, limit |-> limit, frame |-> frame,
                      existing |-> DOMAIN frame \cap StoredBars]
<1>1. /\ frame \in Frames /\ Convex(DOMAIN frame)
      /\ \A n \in Nat : n <= limit => FullUpTo(DOMAIN frame, n)
  <2>1. now \in Nat /\ 0 <= limit /\ 0 \in Nat
    BY StoreAssumption DEF StoreInv, StoreTypeOK, StoreAssumption
  <2>. QED
    BY <2>1, FetchedIsWhole
<1>2. /\ UNCHANGED <<now, stored, cache, answer, fetched>>
      /\ fetching' = [fetching EXCEPT ![p] = fetch]
  BY DEF StartFetch
<1>. HIDE DEF frame
<1>3. fetch \in Fetches
  BY <1>1, StoreAssumption DEF Fetches, StoredBars, StoreAssumption
<1>4. \A q \in Processes : fetching'[q] = IF q = p THEN fetch ELSE fetching[q]
  BY <1>2 DEF StoreInv, StoreTypeOK
<1>5. StoreTypeOK'
  BY <1>2, <1>3, <1>4 DEF StoreInv, StoreTypeOK
<1>6. FramesAreWhole'
  BY <1>1, <1>2, <1>4 DEF StoreInv, FramesAreWhole, StoredBars
<1>. QED
  BY <1>2, <1>5, <1>6
     DEF StoreInv, HolesOnlyPastShortFetches, TableIsFull, FullUpTo, StoredBars

\* A commit adds a whole block to the table, wherever the table stands by now.
LEMMA CommitFetchKeeps ==
  ASSUME StoreInv, NEW p \in Processes, CommitFetch(p)
  PROVE  StoreInv'
<1>. DEFINE fetch == fetching[p]
            bars == DOMAIN fetch.frame
<1>1. /\ fetch \in Fetches /\ fetch.frame \in Frames /\ fetch.limit \in Limits \cup {0}
      /\ Convex(bars) /\ fetch.existing \subseteq StoredBars
      /\ \A n \in Nat : n <= fetch.limit => FullUpTo(bars, n)
  BY DEF StoreInv, StoreTypeOK, FramesAreWhole, Fetches
<1>2. /\ bars \in SUBSET Bars /\ \A b \in bars : fetch.frame[b] \in Nat
  BY <1>1 DEF Frames
<1>3. /\ stored' = [b \in Bars |-> IF b \in Inserts(p) THEN fetch.frame[b] ELSE stored[b]]
      /\ cache' = Cached(fetch.limit, fetch.frame) \/ cache' = cache
      /\ fetching' = [fetching EXCEPT ![p] = NoFetch]
      /\ answer' = [kind |-> "exchange", limit |-> fetch.limit, frame |-> fetch.frame]
      /\ now' = now /\ fetched' = fetched \cup {fetch.limit}
  BY DEF CommitFetch, Reply
<1>4. Inserts(p) = bars \ fetch.existing
  BY DEF Inserts
<1>. HIDE DEF fetch, bars
<1>5. stored' \in [Bars -> Nat \cup {Missing}]
  BY <1>2, <1>3, <1>4 DEF StoreInv, StoreTypeOK
<1>6. StoredBars' = StoredBars \cup bars
  BY <1>1, <1>2, <1>3, <1>4 DEF StoreInv, StoreTypeOK, StoredBars, Missing
<1>7. TableIsFull'
  <2>. SUFFICES ASSUME NEW n \in Nat, \A limit \in fetched' : n <= limit
                PROVE  FullUpTo(StoredBars, n)'
    BY DEF TableIsFull
  <2>1. StoredBars \in SUBSET Bars
    BY DEF StoredBars
  <2>2. FullUpTo(StoredBars, n) /\ FullUpTo(bars, n)
    BY <1>1, <1>3 DEF StoreInv, TableIsFull
  <2>3. FullUpTo(StoredBars \cup bars, n)
    BY <1>2, <2>1, <2>2, UnionIsFull
  <2>. QED
    BY <1>6, <2>3 DEF FullUpTo
<1>8. /\ cache' \in [Limits -> [frame : Frames, until : Int]]
      /\ \A l \in Limits : Convex(DOMAIN cache'[l].frame)
  <2>1. CASE cache' = cache
    BY <2>1 DEF StoreInv, StoreTypeOK, FramesAreWhole
  <2>2. CASE cache' = Cached(fetch.limit, fetch.frame)
    <3>. DEFINE entry == [frame |-> fetch.frame, until |-> now + CacheTicks]
    <3>1. entry \in [frame : Frames, until : Int]
      BY <1>1, StoreAssumption DEF StoreInv, StoreTypeOK, StoreAssumption
    <3>2. cache' = [cache EXCEPT ![fetch.limit] = entry]
      BY <2>2 DEF Cached
    <3>3. entry.frame = fetch.frame
      OBVIOUS
    <3>. HIDE DEF entry
    <3>4. \A l \in Limits : cache'[l] = entry \/ cache'[l] = cache[l]
      BY <3>2 DEF StoreInv, StoreTypeOK
    <3>. QED
      BY <1>1, <3>1, <3>2, <3>3, <3>4 DEF StoreInv, StoreTypeOK, FramesAreWhole, bars
  <2>. QED
    BY <1>3, <2>1, <2>2
<1>9. \A q \in Processes : fetching'[q] = IF q = p THEN NoFetch ELSE fetching[q]
  BY <1>3 DEF StoreInv, StoreTypeOK
<1>10. /\ NoFetch \in Fetches /\ NoFetch.frame = NoFrame
       /\ NoFetch.existing = {} /\ NoFetch.limit = 0
  BY NoFrameIsWhole DEF NoFetch, Fetches
<1>11. fetching' \in [Processes -> Fetches]
  BY <1>3, <1>10 DEF StoreInv, StoreTypeOK
<1>12. StoreTypeOK'
  <2>1. answer' \in [kind : Answers, limit : Limits \cup {0}, frame : Frames]
    BY <1>1, <1>3, AnswersAre, RepliesAreTyped
  <2>2. now' \in Nat
    BY <1>3 DEF StoreInv, StoreTypeOK
  <2>3. fetch.limit \in Nat /\ fetched \in SUBSET Nat
    <3>1. fetched \in SUBSET Nat
      BY DEF StoreInv, StoreTypeOK
    <3>2. Limits \cup {0} \subseteq Nat
      BY StoreAssumption DEF StoreAssumption
    <3>. QED
      BY <1>1, <3>1, <3>2
  <2>4. fetched' \in SUBSET Nat
    BY <1>3, <2>3
  <2>. QED
    BY <1>5, <1>8, <1>11, <2>1, <2>2, <2>4 DEF StoreTypeOK
<1>13. FramesAreWhole'
  <2>1. \A q \in Processes :
          /\ Convex(DOMAIN fetching'[q].frame)
          /\ \A n \in Nat : n <= fetching'[q].limit =>
               FullUpTo(DOMAIN fetching'[q].frame, n)
          /\ fetching'[q].existing \subseteq StoredBars
    BY <1>9, <1>10, NoFrameIsWhole DEF StoreInv, FramesAreWhole
  <2>. QED
    BY <1>6, <1>8, <2>1 DEF FramesAreWhole, FullUpTo
<1>14. HolesOnlyPastShortFetches'
  BY <1>1, <1>3 DEF HolesOnlyPastShortFetches, bars
<1>. QED
  BY <1>7, <1>12, <1>13, <1>14 DEF StoreInv

\* A refused fetch is forgotten.
LEMMA RefuseFetchKeeps ==
  ASSUME StoreInv, NEW p \in Processes, RefuseFetch(p)
  PROVE  StoreInv'
<1>1. /\ UNCHANGED <<now, stored, cache, answer, fetched>>
      /\ fetching' = [fetching EXCEPT ![p] = NoFetch]
  BY DEF RefuseFetch
<1>2. NoFetch \in Fetches /\ NoFetch.frame = NoFrame /\ NoFetch.existing = {}
  BY NoFrameIsWhole DEF NoFetch, Fetches
<1>3. \A q \in Processes : fetching'[q] = IF q = p THEN NoFetch ELSE fetching[q]
  BY <1>1 DEF StoreInv, StoreTypeOK
<1>4. fetching' \in [Processes -> Fetches]
  BY <1>1, <1>2 DEF StoreInv, StoreTypeOK
<1>5. FramesAreWhole'
  BY <1>1, <1>2, <1>3, NoFrameIsWhole DEF StoreInv, FramesAreWhole, StoredBars
<1>. QED
  BY <1>1, <1>4, <1>5
     DEF StoreInv, StoreTypeOK, TableIsFull, FullUpTo, HolesOnlyPastShortFetches,
         StoredBars

\* Every step keeps the frames whole.
LEMMA StoreNextInv ==
  ASSUME StoreInv, [StoreNext]_storeVars
  PROVE  StoreInv'
<1>1. ASSUME NEW p \in Processes, NEW limit \in Limits,
             \/ AnswerFromCache(p, limit)
             \/ \E cachedOnly \in BOOLEAN : AnswerFromDb(p, limit, cachedOnly)
      PROVE  StoreInv'
  BY <1>1, AnswersKeep
<1>2. ASSUME NEW p \in Processes, NEW limit \in Limits,
             \E refresh \in BOOLEAN : StartFetch(p, limit, refresh)
      PROVE  StoreInv'
  BY <1>2, StartFetchKeeps
<1>3. ASSUME NEW p \in Processes, CommitFetch(p)
      PROVE  StoreInv'
  BY <1>3, CommitFetchKeeps
<1>4. ASSUME NEW p \in Processes, RefuseFetch(p)
      PROVE  StoreInv'
  BY <1>4, RefuseFetchKeeps
<1>5. CASE StoreTick
  BY <1>5
     DEF StoreTick, StoreInv, StoreTypeOK, FramesAreWhole, TableIsFull, FullUpTo,
         HolesOnlyPastShortFetches, StoredBars
<1>6. CASE UNCHANGED storeVars
  BY <1>6
     DEF storeVars, StoreInv, StoreTypeOK, FramesAreWhole, TableIsFull, FullUpTo,
         HolesOnlyPastShortFetches, StoredBars
<1>. QED
  BY <1>1, <1>2, <1>3, <1>4, <1>5, <1>6 DEF StoreNext

\* Whatever numbers of candles callers ask for, a frame has holes only if it
\* comes from the table and is longer than some fetch committed before it
\* (DataService.load_from_db takes the newest rows, whatever lies between them).
THEOREM HolesTheorem == StoreSpec => []HolesOnlyPastShortFetches
<1>1. StoreInit => StoreInv
  BY StoreStarts
<1>2. StoreInv /\ [StoreNext]_storeVars => StoreInv'
  BY StoreNextInv
<1>3. StoreInv => HolesOnlyPastShortFetches
  BY DEF StoreInv
<1>. QED
  BY <1>1, <1>2, <1>3, PTL DEF StoreSpec

\* The unique constraint is enough: no interleaving of fetches rewrites a row.
THEOREM WrittenOnceTheorem == StoreSpec => StoredIsWrittenOnce
<1>1. ASSUME [StoreNext]_storeVars, stored' # stored, NEW b \in Bars, stored[b] # Missing
      PROVE  stored'[b] = stored[b]
  <2>1. PICK p \in Processes : CommitFetch(p)
    BY <1>1
       DEF StoreNext, storeVars, AnswerFromCache, AnswerFromDb, StartFetch, RefuseFetch, StoreTick
  <2>2. b \notin Inserts(p)
    BY <1>1, <2>1 DEF CommitFetch, Conflicts, StoredBars
  <2>. QED
    BY <2>1, <2>2 DEF CommitFetch
<1>2. [StoreNext]_storeVars =>
        [\A b \in Bars : stored[b] # Missing => stored'[b] = stored[b]]_storeVars
  BY <1>1
<1>. QED
  BY <1>2, PTL DEF StoreSpec, StoredIsWrittenOnce
=============================================================================
