------------------------------ MODULE OhlcvStore ------------------------------
(***************************************************************************)
(* The candles of one symbol and timeframe as DataService                  *)
(* (app/services/data_service.py) fetches, stores, caches and answers with *)
(* them.  Candle b opens at b * BarTicks; what a copy of it says is how    *)
(* many ticks of it had passed when the exchange was asked, and a copy is  *)
(* final when that is all of them.                                         *)
(*                                                                         *)
(* Processes - the API, the scheduler's refresh and evaluation jobs, the   *)
(* stream worker - fetch at the same time: a fetch asks the exchange and   *)
(* looks for the candles the table has, and is committed later.  uq_       *)
(* marketdata_bar lets only one of two inserts of a candle commit.         *)
(***************************************************************************)
EXTENDS Integers, FiniteSets

CONSTANTS
  Processes,
  Limits,           \* the numbers of candles callers ask for
  BarTicks,         \* timeframe_to_minutes(timeframe)
  CacheTicks,       \* the 30 seconds a cached frame lives
  RedisFails,       \* TRUE if Redis may be unreachable for a call
  StartTime,        \* when the system is first deployed
  MaxTime           \* bound: ticks

ASSUME StoreAssumption ==
  /\ Limits # {} /\ Limits \subseteq Nat \ {0}
  /\ BarTicks \in Nat \ {0} /\ CacheTicks \in Nat
  /\ RedisFails \in BOOLEAN
  /\ StartTime \in Nat /\ MaxTime \in Nat

VARIABLES
  now,
  stored,           \* the market_data rows: a copy of each candle, or Missing
  cache,            \* the frame cached per limit, and until when
  fetching,         \* per process, the fetch it has yet to commit
  answer,           \* the last frame a process answered, to which question
  fetched           \* history: the limits of the fetches committed so far

storeVars == <<now, stored, cache, fetching, answer, fetched>>

-----------------------------------------------------------------------------
Bars == 0 .. (MaxTime \div BarTicks)

Missing == -1

OpensAt(b) == b * BarTicks

Least(x, y) == IF x < y THEN x ELSE y

\* A frame is a function from the candles in it to their copies.
NoFrame == [b \in {} |-> Missing]

IsFrame(f) == DOMAIN f \subseteq Bars /\ \A b \in DOMAIN f : f[b] \in 0 .. BarTicks

Newest(bars) == CHOOSE b \in bars : \A o \in bars : o <= b

\* The `limit' newest of a set of candles.
NewestOf(bars, limit) == {b \in bars : Cardinality({o \in bars : o > b}) < limit}

\* What the exchange answers now: the newest candles, the last one forming.
FetchOhlcv(limit) ==
  [b \in NewestOf({b \in Bars : OpensAt(b) <= now}, limit) |->
     Least(now - OpensAt(b), BarTicks)]

StoredBars == {b \in Bars : stored[b] # Missing}

\* load_from_db: the newest rows, whatever lies between them.
LoadFromDb(limit) == [b \in NewestOf(StoredBars, limit) |-> stored[b]]

NoCache == [frame |-> NoFrame, until |-> -1]

NoFetch == [active |-> FALSE, limit |-> 0, frame |-> NoFrame, existing |-> {}]

Idle(p) == ~fetching[p].active

Reply(kind, limit, frame) ==
  answer' = [kind |-> kind, limit |-> limit, frame |-> frame]

-----------------------------------------------------------------------------
\* get_historical_data without refresh: a cached frame that has not expired.
AnswerFromCache(p, limit) ==
  /\ Idle(p)
  /\ cache[limit].until > now
  /\ Reply("cache", limit, cache[limit].frame)
  /\ UNCHANGED <<now, stored, cache, fetching, fetched>>

\* Nothing is cached, or Redis does not answer the ping.
MissesCache(limit) == cache[limit].until <= now \/ RedisFails

\* ... the rows of the table, if there are enough of them, or if the caller
\* wants no others.
AnswerFromDb(p, limit, cachedOnly) ==
  /\ Idle(p)
  /\ cachedOnly \/ MissesCache(limit)
  /\ cachedOnly \/ Cardinality(StoredBars) >= limit
  /\ Reply("database", limit, LoadFromDb(limit))
  /\ UNCHANGED <<now, stored, cache, fetching, fetched>>

\* fetch_from_exchange, up to what persist_ohlcv finds in the table: asked for
\* by a refresh, or because the table has too few rows.
StartFetch(p, limit, refresh) ==
  /\ Idle(p)
  /\ refresh \/ (MissesCache(limit) /\ Cardinality(StoredBars) < limit)
  /\ LET frame == FetchOhlcv(limit)
     IN fetching' = [fetching EXCEPT
                       ![p] = [active |-> TRUE, limit |-> limit, frame |-> frame,
                               existing |-> DOMAIN frame \cap StoredBars]]
  /\ UNCHANGED <<now, stored, cache, answer, fetched>>

\* Mutant: only the newest candle of a frame is stored.
InsertsNewest(p) == {Newest(DOMAIN fetching[p].frame)} \ fetching[p].existing

Inserts(p) == DOMAIN fetching[p].frame \ fetching[p].existing

\* Mutant: no constraint keeps a second insert of a candle out.
ConflictsNever(p) == FALSE

\* Another process has inserted one of them since.
Conflicts(p) == Inserts(p) \cap StoredBars # {}

\* cache.setex.
Cached(limit, frame) ==
  [cache EXCEPT ![limit] = [frame |-> frame, until |-> now + CacheTicks]]

\* persist_ohlcv inserts the candles it did not find and commits; then the frame
\* is cached, if Redis answers, and returned.
CommitFetch(p) ==
  LET fetch == fetching[p]
  IN /\ fetch.active
     /\ ~Conflicts(p)
     /\ stored' = [b \in Bars |-> IF b \in Inserts(p) THEN fetch.frame[b]
                                                      ELSE stored[b]]
     /\ \/ cache' = Cached(fetch.limit, fetch.frame)
        \/ RedisFails /\ UNCHANGED cache
     /\ fetching' = [fetching EXCEPT ![p] = NoFetch]
     /\ Reply("exchange", fetch.limit, fetch.frame)
     /\ fetched' = fetched \cup {fetch.limit}
     /\ UNCHANGED now

\* IntegrityError ends the call.
RefuseFetch(p) ==
  /\ fetching[p].active
  /\ Conflicts(p)
  /\ fetching' = [fetching EXCEPT ![p] = NoFetch]
  /\ UNCHANGED <<now, stored, cache, answer, fetched>>

\* Time passes, however long nobody asks for candles.
StoreTick ==
  /\ now < MaxTime
  /\ now' = now + 1
  /\ UNCHANGED <<stored, cache, fetching, answer, fetched>>

StoreInit ==
  /\ now = StartTime
  /\ stored = [b \in Bars |-> Missing]
  /\ cache = [limit \in Limits |-> NoCache]
  /\ fetching = [p \in Processes |-> NoFetch]
  /\ answer = [kind |-> "none", limit |-> 0, frame |-> NoFrame]
  /\ fetched = {}

StoreNext ==
  \/ \E p \in Processes, limit \in Limits :
       \/ AnswerFromCache(p, limit)
       \/ \E cachedOnly \in BOOLEAN : AnswerFromDb(p, limit, cachedOnly)
       \/ \E refresh \in BOOLEAN : StartFetch(p, limit, refresh)
  \/ \E p \in Processes : CommitFetch(p)
  \/ \E p \in Processes : RefuseFetch(p)
  \/ StoreTick

StoreSpec == StoreInit /\ [][StoreNext]_storeVars

-----------------------------------------------------------------------------
\* A candle's row is written once: whichever processes fetch it at the same
\* time, no commit replaces what another has stored.
StoredIsWrittenOnce ==
  [][\A b \in Bars : stored[b] # Missing => stored'[b] = stored[b]]_storeVars

\* The candles from any of a frame to any later one are all in it.
Convex(bars) == \A b, c \in bars : b .. c \subseteq bars

\* However long nothing was fetched and whoever committed last, an indicator takes
\* two distant candles for neighbours only in a frame from the table that is longer
\* than some fetch before it: a short fetch after a silence leaves a hole, and only
\* an answer that reaches past its candles spans it (data_service.py:116, 188).
HolesOnlyPastShortFetches ==
  \/ Convex(DOMAIN answer.frame)
  \/ answer.kind = "database" /\ \E limit \in fetched : limit < answer.limit

\* No answered frame has a hole.  (Checked by hand only: callers ask for 300, 120,
\* 96 and 2 candles, backtests for 100 to 5000, of the same table.)
FramesHaveNoHoles == Convex(DOMAIN answer.frame)

\* A candle that is complete by the clock is complete in the rows answered from
\* the table: strategies act on the bar as it closed.
CompletedBarsAreFinal ==
  [][answer' # answer /\ answer'.kind = "database" =>
       \A b \in DOMAIN answer'.frame :
         OpensAt(b + 1) <= now => answer'.frame[b] = BarTicks]_storeVars
=============================================================================
