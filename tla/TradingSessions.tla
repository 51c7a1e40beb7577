---------------------------- MODULE TradingSessions ----------------------------
(***************************************************************************)
(* Database sessions that trade at the same time: the request handlers of  *)
(* the API (manual orders, manual closes) and the evaluate_signals jobs.   *)
(*                                                                         *)
(* A handler is cut where another session can commit in between: it reads  *)
(* rows (submit_entry_order and close_position, execution_service.py),     *)
(* decides, and commits.  Nothing locks a row, no constraint keeps one     *)
(* open row per key, and sessions keep the attributes of a row they have   *)
(* loaded (expire_on_commit=False, db/session.py): later queries choose    *)
(* rows by the committed values but return the loaded ones.  An UPDATE     *)
(* writes the columns the session changed.                                 *)
(*                                                                         *)
(* Prices, signals, cooldowns and the other risk checks are left to        *)
(* choices; StrategyEvaluator models the ones of a single strategy.        *)
(***************************************************************************)
EXTENDS Naturals, FiniteSets

CONSTANTS
  Keys,             \* (strategy instance, symbol, instrument) triples
  Requests,         \* request handlers of the API
  Jobs,             \* schedulers running evaluate_signals, one job each
  EntryKeys,        \* the keys an actor enters: manual ones or strategies
  MaxConcurrent,    \* settings.max_concurrent_positions
  EntryQuantity,    \* the most an entry asks for
  MinTradable,      \* what normalize_order's lot and min_notional let pass
  MaxPositions      \* bound: primary keys of the positions table

Actors == Requests \cup Jobs

ASSUME SessionsAssumption ==
  /\ IsFiniteSet(Actors) /\ Requests \cap Jobs = {}
  /\ Keys # {}
  /\ EntryKeys \in [Actors -> SUBSET Keys]
  /\ MaxConcurrent \in Nat \ {0}
  /\ EntryQuantity \in Nat /\ MinTradable \in Nat
  /\ MaxPositions \in Nat

Ids == 1 .. MaxPositions

VARIABLES
  row,              \* the committed position rows
  trades,           \* per position, the quantities of its ENTRY and EXIT trades
  session           \* what each actor's session has read and is about to do

vars == <<row, trades, session>>

-----------------------------------------------------------------------------
AnyKey == CHOOSE k \in Keys : TRUE

Row == [status : {"NONE", "OPEN", "CLOSED"}, key : Keys, quantity : Nat]

NoRow == [status |-> "NONE", key |-> AnyKey, quantity |-> 0]

Session ==
  [pc : {"idle", "loop", "ranked", "wanting", "checked", "approved", "closing"},
   back : {"idle", "loop", "ranked"},      \* where the handler returns to
   key : Keys, quantity : Nat,             \* the entry under way
   pos : {0} \cup Ids,                     \* the position last looked at
   seen : [Ids -> Row],                    \* rows the session has loaded
   todo : SUBSET Ids,                      \* positions still to evaluate
   candidates : SUBSET Keys]               \* ranked entries still to try

Idle == [pc |-> "idle", back |-> "idle", key |-> AnyKey, quantity |-> 0,
         pos |-> 0, seen |-> [p \in Ids |-> NoRow], todo |-> {}, candidates |-> {}]

OpenIds == {p \in Ids : row[p].status = "OPEN"}

OpenOf(k) == {p \in OpenIds : row[p].key = k}

FreeIds == {p \in Ids : row[p].status = "NONE"}

Entering(a) == session[a].pc \in {"wanting", "checked", "approved"}

\* Bound: an entry starts only if a primary key is left for it.
RoomForEntry == Cardinality({a \in Actors : Entering(a)}) < Cardinality(FreeIds)

Goto(a, s) == session' = [session EXCEPT ![a] = s]

\* The handler returns: to the job's loop, or the request is answered.
Done(a) ==
  Goto(a, IF session[a].back = "idle" THEN Idle
          ELSE [session[a] EXCEPT !.pc = session[a].back])

\* An exception that is not RiskCheckFailed ends the request, or the whole job.
Abort(a) == Goto(a, Idle)

\* Any read, fetch or commit on the way may raise one: the frame of a symbol
\* cannot be fetched, another session has inserted its candles first, the
\* database is away.  What was not committed is lost.
Raise(a) ==
  /\ session[a].pc # "idle"
  /\ Abort(a)
  /\ UNCHANGED <<row, trades>>

-----------------------------------------------------------------------------
\* submit_entry_order, up to its check for a position of the same key.
CheckFree(a) ==
  /\ session[a].pc = "wanting"
  /\ \/ /\ OpenOf(session[a].key) = {}
        /\ \E want \in 0 .. EntryQuantity :
             IF want = 0 THEN Done(a)
             ELSE IF want < MinTradable THEN Abort(a)
             ELSE Goto(a, [session[a] EXCEPT !.pc = "checked", !.quantity = want])
     \/ /\ OpenOf(session[a].key) # {}
        /\ Abort(a)
  /\ UNCHANGED <<row, trades>>

\* Mutant: the gate does not count open positions.
CheckRiskUnbounded(a) ==
  /\ session[a].pc = "checked"
  /\ \/ /\ TRUE
        /\ Goto(a, [session[a] EXCEPT !.pc = "approved"])
     \/ Done(a)
  /\ UNCHANGED <<row, trades>>

\* evaluate_entry: the count of open positions, or any other check, refuses.
CheckRisk(a) ==
  /\ session[a].pc = "checked"
  /\ \/ /\ Cardinality(OpenIds) < MaxConcurrent
        /\ Goto(a, [session[a] EXCEPT !.pc = "approved"])
     \/ Done(a)
  /\ UNCHANGED <<row, trades>>

\* place_order and the commit of the order, with the position of its fill.
CommitEntry(a) ==
  /\ session[a].pc = "approved"
  /\ Done(a)
  /\ \E filled \in 0 .. session[a].quantity :
       IF filled = 0 THEN UNCHANGED <<row, trades>>
       ELSE LET p == CHOOSE p \in FreeIds : \A o \in FreeIds : p <= o
            IN /\ row' = [row EXCEPT ![p] = [status |-> "OPEN",
                                             key |-> session[a].key,
                                             quantity |-> filled]]
               /\ trades' = [trades EXCEPT ![p] = [bought |-> filled, sold |-> 0]]

-----------------------------------------------------------------------------
\* close_position refuses the row it holds: not open, or too little to trade.
RefuseClose(a) ==
  LET held == session[a].seen[session[a].pos]
  IN /\ session[a].pc = "closing"
     /\ held.status # "OPEN" \/ held.quantity < MinTradable
     /\ Abort(a)
     /\ UNCHANGED <<row, trades>>

\* Mutant: the status is written whether it changed or not.
ReducedRewritesStatus(current, held, filled) ==
  [current EXCEPT !.quantity = held.quantity - filled,
                  !.status = IF filled = held.quantity THEN "CLOSED" ELSE "OPEN"]

\* The columns of the row after `filled' of the held quantity was sold; the
\* status is written only when it changes to CLOSED.
Reduced(current, held, filled) ==
  [current EXCEPT !.quantity = held.quantity - filled,
                  !.status = IF filled = held.quantity THEN "CLOSED" ELSE @]

\* place_order and the commit of its fill, computed from the row the session
\* holds, not from the row in the table.
CommitClose(a) ==
  LET p == session[a].pos
      held == session[a].seen[p]
  IN /\ session[a].pc = "closing"
     /\ held.status = "OPEN" /\ held.quantity >= MinTradable
     /\ \E filled \in 0 .. held.quantity :
          IF filled = 0 THEN Done(a) /\ UNCHANGED <<row, trades>>
          ELSE /\ row' = [row EXCEPT ![p] = Reduced(@, held, filled)]
               /\ trades' = [trades EXCEPT ![p].sold = @ + filled]
               /\ Goto(a, IF session[a].back = "idle" THEN Idle
                          ELSE [session[a] EXCEPT
                                  !.pc = session[a].back,
                                  !.seen[p] = Reduced(held, held, filled)])

-----------------------------------------------------------------------------
\* POST /orders and the LLM job: manual_order, maybe_execute_paper_decision.
RequestEntry(r) ==
  /\ session[r].pc = "idle"
  /\ RoomForEntry
  /\ \E k \in EntryKeys[r] : Goto(r, [Idle EXCEPT !.pc = "wanting", !.key = k])
  /\ UNCHANGED <<row, trades>>

\* POST /positions/{id}/close: close_position_by_id loads the row.
RequestClose(r) ==
  /\ session[r].pc = "idle"
  /\ \E p \in Ids \ FreeIds :
       Goto(r, [Idle EXCEPT !.pc = "closing", !.pos = p, !.seen[p] = row[p]])
  /\ UNCHANGED <<row, trades>>

-----------------------------------------------------------------------------
\* Mutant: the job loads only the first open position.
JobStartFirst(j) ==
  /\ session[j].pc = "idle"
  /\ Goto(j, [Idle EXCEPT
                !.pc = "loop",
                !.seen = [p \in Ids |-> IF p \in OpenIds THEN row[p] ELSE NoRow],
                !.todo = {p \in OpenIds : \A o \in OpenIds : p <= o}])
  /\ UNCHANGED <<row, trades>>

\* evaluate_signals_with_ranking loads the open positions.
JobStart(j) ==
  /\ session[j].pc = "idle"
  /\ Goto(j, [Idle EXCEPT
                !.pc = "loop",
                !.seen = [p \in Ids |-> IF p \in OpenIds THEN row[p] ELSE NoRow],
                !.todo = OpenIds])
  /\ UNCHANGED <<row, trades>>

\* evaluate_strategy of a key, in a session that has come to s: more than one
\* open row raises MultipleResultsFound, one is held or closed, none is entered
\* or left flat.
Evaluate(j, k, s) ==
  \/ /\ Cardinality(OpenOf(k)) > 1
     /\ Abort(j)
  \/ \E p \in OpenIds :
       /\ OpenOf(k) = {p}
       /\ LET held == IF s.seen[p].status = "NONE" THEN row[p] ELSE s.seen[p]
              here == [s EXCEPT !.pos = p, !.seen[p] = held]
          IN Goto(j, here) \/ Goto(j, [here EXCEPT !.pc = "closing", !.back = s.pc])
  \/ /\ OpenOf(k) = {}
     /\ \/ Goto(j, s)
        \/ RoomForEntry
           /\ Goto(j, [s EXCEPT !.pc = "wanting", !.back = s.pc, !.key = k])

\* The first loop: each open position in the order it was opened, unless its
\* strategy is not a registered one.
JobPosition(j) ==
  /\ session[j].pc = "loop"
  /\ session[j].todo # {}
  /\ LET p == CHOOSE p \in session[j].todo : \A o \in session[j].todo : p <= o
         k == session[j].seen[p].key
         s == [session[j] EXCEPT !.todo = @ \ {p}]
     IN IF k \in EntryKeys[j] THEN Evaluate(j, k, s) ELSE Goto(j, s)
  /\ UNCHANGED <<row, trades>>

\* The ranking: as many candidates as slots are free now, among the keys that
\* had no position when the job started and have none now.
JobRank(j) ==
  LET s == session[j]
      seenKeys == {s.seen[p].key : p \in {o \in Ids : s.seen[o].status # "NONE"}}
      previewed == EntryKeys[j] \ seenKeys
  IN /\ s.pc = "loop"
     /\ s.todo = {}
     /\ IF Cardinality(OpenIds) >= MaxConcurrent THEN Goto(j, Idle)
        ELSE \/ /\ \E k \in previewed : Cardinality(OpenOf(k)) > 1
                /\ Abort(j)
             \/ \E chosen \in SUBSET {k \in previewed : OpenOf(k) = {}} :
                  /\ Cardinality(chosen) <= MaxConcurrent - Cardinality(OpenIds)
                  /\ Goto(j, [s EXCEPT !.pc = "ranked", !.candidates = chosen])
     /\ UNCHANGED <<row, trades>>

\* The second loop: each candidate in turn, by confidence.
JobCandidate(j) ==
  /\ session[j].pc = "ranked"
  /\ \E k \in session[j].candidates :
       Evaluate(j, k, [session[j] EXCEPT !.candidates = @ \ {k}])
  /\ UNCHANGED <<row, trades>>

JobEnd(j) ==
  /\ session[j].pc = "ranked"
  /\ session[j].candidates = {}
  /\ Goto(j, Idle)
  /\ UNCHANGED <<row, trades>>

-----------------------------------------------------------------------------
Init ==
  /\ row = [p \in Ids |-> NoRow]
  /\ trades = [p \in Ids |-> [bought |-> 0, sold |-> 0]]
  /\ session = [a \in Actors |-> Idle]

Handle(a) ==
  \/ CheckFree(a) \/ CheckRisk(a) \/ CommitEntry(a)
  \/ RefuseClose(a) \/ CommitClose(a)
  \/ Raise(a)

JobStep(j) ==
  \/ JobStart(j) \/ JobPosition(j) \/ JobRank(j) \/ JobCandidate(j) \/ JobEnd(j)
  \/ Handle(j)

RequestStep(r) == RequestEntry(r) \/ RequestClose(r) \/ Handle(r)

Next == (\E r \in Requests : RequestStep(r)) \/ (\E j \in Jobs : JobStep(j))

Spec == Init /\ [][Next]_vars

\* The scheduler starts its job at every interval and a started job runs on;
\* nobody has to send a request.
FairSpec == Spec /\ \A j \in Jobs : WF_vars(JobStep(j))

-----------------------------------------------------------------------------
\* "Open position already exists": a key has at most one open position, which
\* is what get_position's one_or_none relies on.
OneOpenPerKey == \A k \in Keys : Cardinality(OpenOf(k)) <= 1

\* A position is closed for what was bought, never for more.
NeverOversold == \A p \in Ids : trades[p].sold <= trades[p].bought

\* However the sessions interleave, the gate is overrun by at most one position
\* for each session beyond the first.
OverrunBounded == Cardinality(OpenIds) <= MaxConcurrent + Cardinality(Actors) - 1

\* A stale session may overwrite a quantity, but never reopens a closed position
\* nor touches the key of a row.
ClosedStaysClosed ==
  [][\A p \in Ids :
       /\ row[p].status = "CLOSED" => row'[p].status = "CLOSED"
       /\ row[p].status # "NONE" => row'[p].key = row[p].key]_vars

\* The job ends on an exception with position p still to evaluate, or at it.
CutBefore(j, p) == p \in session[j].todo /\ session'[j] = Idle

\* As long as p is open, the job comes to it again and again.
ComesTo(j, p) ==
  (row[p].status = "OPEN" /\ row[p].key \in EntryKeys[j])
    ~> (row[p].status # "OPEN" \/ session[j].pos = p)

\* The stop of an open position is looked at again and again, or the jobs end on
\* exceptions before it for ever: positions of others, entries, full slots, or an
\* exception after it never make it wait (tasks.py:104-157).
EveryPositionIsEvaluated ==
  \A j \in Jobs, p \in Ids : []<><<CutBefore(j, p)>>_vars \/ ComesTo(j, p)

SellsDust(j) ==
  /\ session[j].pc = "closing"
  /\ session[j].seen[session[j].pos].quantity < MinTradable

\* architecture.md, line 92: "Jobs refresh market data and evaluate enabled
\* strategies at configured intervals".  A remainder too small to sell never makes
\* the other positions wait.  (Checked by hand only: its exception ends the job,
\* tasks.py:126-147.)
DustDelaysNone ==
  \A j \in Jobs, p \in Ids :
    []<><<CutBefore(j, p) /\ ~SellsDust(j)>>_vars \/ ComesTo(j, p)
=============================================================================
