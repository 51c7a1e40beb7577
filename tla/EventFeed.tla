------------------------------ MODULE EventFeed ------------------------------
(***************************************************************************)
(* The event log and its websocket.  A writer is a session that adds a row *)
(* with record_event (app/services/helpers.py) and commits it; the row     *)
(* takes its id when the session is flushed, which is before it commits.   *)
(* A client follows /ws/events (app/main.py), which reads at most Batch    *)
(* rows past the last id it sent, every two seconds.                       *)
(*                                                                         *)
(* The database decides what may happen between the flush and the commit.  *)
(* SQLite, the default of DATABASE_URL, has one writer at a time and takes *)
(* the id after the greatest row; PostgreSQL, which docker-compose.yml     *)
(* runs, takes the id from a sequence that no rollback gives back, and     *)
(* commits in any order.                                                   *)
(***************************************************************************)
EXTENDS Naturals, FiniteSets

CONSTANTS
  Writers,          \* sessions that record events
  Clients,          \* websocket clients
  Engines,          \* the databases considered: "sqlite", "postgresql"
  Batch,            \* rows of one read, limit(25)
  MaxId             \* bound: ids given out

ASSUME FeedAssumption ==
  /\ Engines \subseteq {"sqlite", "postgresql"}
  /\ Batch \in Nat \ {0} /\ MaxId \in Nat

Ids == 1 .. MaxId

VARIABLES
  engine,           \* the database behind DATABASE_URL
  rows,             \* ids of the committed rows of event_logs
  late,             \* those committed after a row with a greater id
  sequence,         \* the last id PostgreSQL's sequence gave
  assigned,         \* the id of each writer's flushed row, or 0
  open,             \* whether each client is connected
  last,             \* last_id of each connection
  outbox,           \* rows read and not sent yet
  sent              \* rows the connection was sent

logVars == <<engine, rows, late, sequence, assigned>>
clientVars == <<open, last, outbox, sent>>
feedVars == <<logVars, clientVars>>

FeedInit ==
  /\ engine \in Engines
  /\ rows = {} /\ late = {} /\ sequence = 0
  /\ assigned = [w \in Writers |-> 0]
  /\ open = [c \in Clients |-> FALSE]
  /\ last = [c \in Clients |-> 0]
  /\ outbox = [c \in Clients |-> {}]
  /\ sent = [c \in Clients |-> {}]

-----------------------------------------------------------------------------
\* Mutant: SQLite's writers are taken to be as free as PostgreSQL's.
NewIdConcurrent(n) ==
  /\ n = sequence + 1
  /\ sequence' = n

\* The id the database gives to a row flushed now.
NewId(n) ==
  \/ /\ engine = "sqlite"
     /\ \A v \in Writers : assigned[v] = 0
     /\ \A m \in rows : m < n
     /\ n = 1 \/ n - 1 \in rows
     /\ UNCHANGED sequence
  \/ /\ engine = "postgresql"
     /\ n = sequence + 1
     /\ sequence' = n

\* The session is flushed: the row has its id.
Flush(w) ==
  /\ assigned[w] = 0
  /\ \E n \in Ids :
       /\ NewId(n)
       /\ assigned' = [assigned EXCEPT ![w] = n]
  /\ UNCHANGED <<engine, rows, late, clientVars>>

\* The transaction commits: readers see the row.
Commit(w) ==
  /\ assigned[w] # 0
  /\ rows' = rows \cup {assigned[w]}
  /\ late' = IF \E m \in rows : assigned[w] < m
             THEN late \cup {assigned[w]} ELSE late
  /\ assigned' = [assigned EXCEPT ![w] = 0]
  /\ UNCHANGED <<engine, sequence, clientVars>>

\* The transaction is rolled back, or its process ends.
Rollback(w) ==
  /\ assigned[w] # 0
  /\ assigned' = [assigned EXCEPT ![w] = 0]
  /\ UNCHANGED <<engine, rows, late, sequence, clientVars>>

-----------------------------------------------------------------------------
\* Mutant: the newest rows are read first.
FirstRowsNewest(c) ==
  {n \in rows : last[c] < n
     /\ Cardinality({m \in rows : n < m}) < Batch}

\* Mutant: a read leaves the last row of the log for later.
FirstRowsButLast(c) ==
  {n \in rows : last[c] < n /\ \E m \in rows : n < m}

\* The rows past the cursor, and those one read returns.
Fresh(c) == {n \in rows : last[c] < n}

FirstRows(c) ==
  {n \in Fresh(c) : Cardinality({m \in Fresh(c) : m < n}) < Batch}

\* websocket.accept(): the cursor starts at 0.
Connect(c) ==
  /\ ~ open[c]
  /\ open' = [open EXCEPT ![c] = TRUE]
  /\ last' = [last EXCEPT ![c] = 0]
  /\ sent' = [sent EXCEPT ![c] = {}]
  /\ UNCHANGED <<logVars, outbox>>

\* One read of the loop.
Poll(c) ==
  /\ open[c] /\ outbox[c] = {}
  /\ outbox' = [outbox EXCEPT ![c] = FirstRows(c)]
  /\ UNCHANGED <<logVars, open, last, sent>>

\* The cursor moves to the next row of the read, and the row is sent.
SendRow(c) ==
  \E n \in outbox[c] :
    /\ open[c]
    /\ \A m \in outbox[c] : n <= m
    /\ last' = [last EXCEPT ![c] = n]
    /\ sent' = [sent EXCEPT ![c] = @ \cup {n}]
    /\ outbox' = [outbox EXCEPT ![c] = @ \ {n}]
    /\ UNCHANGED <<logVars, open>>

\* WebSocketDisconnect: the handler returns, its rows are dropped.
Disconnect(c) ==
  /\ open[c]
  /\ open' = [open EXCEPT ![c] = FALSE]
  /\ outbox' = [outbox EXCEPT ![c] = {}]
  /\ UNCHANGED <<logVars, last, sent>>

ClientNext ==
  \E c \in Clients : Connect(c) \/ Poll(c) \/ SendRow(c) \/ Disconnect(c)

FeedNext ==
  \/ \E w \in Writers : Flush(w) \/ Commit(w) \/ Rollback(w)
  \/ ClientNext

FeedSpec == FeedInit /\ [][FeedNext]_feedVars

-----------------------------------------------------------------------------
\* The websocket implements the promise of EventDelivery (main.py:123-151).
Delivery == INSTANCE EventDelivery WITH committed <- rows

DeliveryHolds == Delivery!DeliverySpec

\* A connection is past a row it was never sent only when the row was
\* committed after a greater id, which SQLite's single writer excludes
\* (main.py:130-136 filters by an id given before the commit).
OnlyLateRowsAreSkipped ==
  \A c \in Clients : \A n \in rows \ sent[c] :
    n <= last[c] => n \in late /\ engine = "postgresql"

=============================================================================
