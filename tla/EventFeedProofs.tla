---------------------------- MODULE EventFeedProofs ----------------------------
(***************************************************************************)
(* The websocket of the event log implements the promise of EventDelivery  *)
(* on either database, for any number of writers, clients and rows of a    *)
(* read; and the jobs that report to the log are writers of it.            *)
(***************************************************************************)
EXTENDS WorkerJobs, FiniteSetTheorems, TLAPS

\* What the log and the connections are.
FeedTypes ==
  /\ engine \in {"sqlite", "postgresql"}
  /\ rows \subseteq Ids /\ late \subseteq rows /\ sequence \in Nat
  /\ assigned \in [Writers -> Ids \cup {0}]
  /\ open \in [Clients -> BOOLEAN]
  /\ last \in [Clients -> Nat]
  /\ outbox \in [Clients -> SUBSET Ids]
  /\ sent \in [Clients -> SUBSET Ids]

\* An id that is held is no row's and no other writer's.
HeldIdsAreNew ==
  \A w \in Writers : assigned[w] # 0 =>
    /\ assigned[w] \notin rows
    /\ \A v \in Writers : assigned[v] = assigned[w] => v = w

\* Under PostgreSQL every id was given by the sequence; under SQLite the one
\* id that is held is greater than every row's.
EngineGives ==
  /\ engine = "postgresql" =>
       /\ \A n \in rows : n <= sequence
       /\ \A w \in Writers : assigned[w] <= sequence
  /\ engine = "sqlite" =>
       /\ late = {}
       /\ \A w \in Writers : assigned[w] # 0 =>
            /\ \A m \in rows : m < assigned[w]
            /\ \A v \in Writers : assigned[v] # 0 => v = w

\* A connection has been sent rows up to its cursor and holds rows past it;
\* a row it was passed over is late.
CursorHolds(c) ==
  /\ outbox[c] \cup sent[c] \subseteq rows
  /\ last[c] = 0 \/ last[c] \in rows
  /\ \A m \in sent[c] : m <= last[c]
  /\ \A n \in outbox[c] : last[c] < n
  /\ ~ open[c] => outbox[c] = {}

PassedOver(c, m) == m <= last[c] \/ \E n \in outbox[c] : m < n

PassedAreLate(c) ==
  \A m \in rows \ (sent[c] \cup outbox[c]) : PassedOver(c, m) => m \in late

FeedInv ==
  /\ FeedTypes /\ HeldIdsAreNew /\ EngineGives
  /\ \A c \in Clients : CursorHolds(c) /\ PassedAreLate(c)

-----------------------------------------------------------------------------
LEMMA IdsAreNumbers == Ids \subseteq Nat \ {0} /\ IsFiniteSet(Ids)
<1>1. Ids \subseteq Nat \ {0}
  BY DEF Ids
<1>2. MaxId \in Nat
  BY FeedAssumption DEF FeedAssumption
<1>3. IsFiniteSet(1 .. MaxId)
  BY <1>2, FS_Interval
<1>. QED
  BY <1>1, <1>3 DEF Ids

\* Rows, held ids and what the clients have of them are numbers.
LEMMA RowsAreNumbers ==
  ASSUME FeedTypes
  PROVE  /\ \A n \in rows : n \in Nat /\ n # 0
         /\ \A w \in Writers : assigned[w] \in Nat
         /\ \A c \in Clients : last[c] \in Nat
         /\ \A c \in Clients : \A n \in outbox[c] \cup sent[c] : n \in Nat
<1>1. \A n \in Ids : n \in Nat /\ n # 0
  BY IdsAreNumbers
<1>2. \A w \in Writers : assigned[w] \in Ids \cup {0}
  BY DEF FeedTypes
<1>3. \A c \in Clients : outbox[c] \subseteq Ids /\ sent[c] \subseteq Ids
  BY DEF FeedTypes
<1>4. \A c \in Clients : last[c] \in Nat
  BY DEF FeedTypes
<1>5. rows \subseteq Ids
  BY DEF FeedTypes
<1>. QED
  BY <1>1, <1>2, <1>3, <1>4, <1>5

\* A read has no gap: it holds every row past the cursor below one it holds.
LEMMA ReadsFromTheCursor ==
  ASSUME FeedTypes, NEW c \in Clients, NEW n \in FirstRows(c),
         NEW m \in Fresh(c), m < n
  PROVE  m \in FirstRows(c)
<1>. DEFINE below(k) == {j \in Fresh(c) : j < k}
<1>1. Fresh(c) \subseteq Ids /\ n \in Fresh(c)
  BY DEF Fresh, FeedTypes, FirstRows
<1>2. IsFiniteSet(below(n)) /\ IsFiniteSet(below(m))
  <2>1. below(n) \subseteq Ids /\ below(m) \subseteq Ids
    BY <1>1
  <2>. QED
    BY <2>1, IdsAreNumbers, FS_Subset
<1>3. below(m) \subseteq below(n)
  <2>1. m \in Nat /\ n \in Nat /\ \A j \in Fresh(c) : j \in Nat
    BY <1>1, IdsAreNumbers
  <2>2. ASSUME NEW j \in Fresh(c), j < m
        PROVE  j < n
    <3>1. j \in Nat
      BY <2>1
    <3>. QED
      BY <2>1, <2>2, <3>1
  <2>. QED
    BY <2>2
<1>4. Cardinality(below(m)) <= Cardinality(below(n))
  BY <1>2, <1>3, FS_Subset
<1>5. Cardinality(below(m)) \in Nat /\ Cardinality(below(n)) \in Nat
  BY <1>2, FS_CardinalityType
<1>6. Cardinality(below(n)) < Batch
  BY DEF FirstRows
<1>7. Cardinality(below(m)) < Batch
  <2>1. Batch \in Nat
    BY FeedAssumption DEF FeedAssumption
  <2>. HIDE DEF below
  <2>. QED
    BY <1>4, <1>5, <1>6, <2>1
<1>. QED
  BY <1>7 DEF FirstRows

LEMMA FeedInvInit == FeedInit => FeedInv
<1>. SUFFICES ASSUME FeedInit PROVE FeedInv
  OBVIOUS
<1>1. FeedTypes
  BY FeedAssumption DEF FeedInit, FeedTypes, FeedAssumption
<1>2. HeldIdsAreNew /\ EngineGives
  BY DEF FeedInit, HeldIdsAreNew, EngineGives
<1>3. \A c \in Clients : CursorHolds(c) /\ PassedAreLate(c)
  BY DEF FeedInit, CursorHolds, PassedAreLate
<1>. QED
  BY <1>1, <1>2, <1>3 DEF FeedInv

-----------------------------------------------------------------------------
\* Giving an id leaves the rows and the clients alone.
LEMMA FlushKeeps ==
  ASSUME FeedInv, NEW w \in Writers, Flush(w)
  PROVE  FeedInv'
<1>1. PICK n \in Ids : NewId(n) /\ assigned' = [assigned EXCEPT ![w] = n]
  BY DEF Flush
<1>2. UNCHANGED <<engine, rows, late, open, last, outbox, sent>>
  BY DEF Flush, clientVars
<1>3. n \in Nat \ {0}
  BY IdsAreNumbers
<1>4. FeedTypes'
  <2>1. sequence' \in Nat
    BY <1>1 DEF NewId, FeedInv, FeedTypes
  <2>. QED
    BY <1>1, <1>2, <2>1 DEF FeedInv, FeedTypes
<1>5. \A v \in Writers \ {w} : assigned'[v] = assigned[v]
  BY <1>1 DEF FeedInv, FeedTypes
<1>6. assigned'[w] = n
  BY <1>1 DEF FeedInv, FeedTypes
<1>7. rows \subseteq Nat /\ \A v \in Writers : assigned[v] \in Nat
  BY RowsAreNumbers DEF FeedInv
<1>8. CASE engine = "sqlite"
  <2>1. /\ \A v \in Writers : assigned[v] = 0
        /\ \A m \in rows : m < n
    BY <1>1, <1>8 DEF NewId
  <2>2. HeldIdsAreNew'
    BY <1>2, <1>3, <1>5, <1>6, <1>7, <2>1 DEF HeldIdsAreNew
  <2>3. EngineGives'
    BY <1>2, <1>3, <1>5, <1>6, <1>8, <2>1 DEF EngineGives, FeedInv
  <2>. QED
    BY <1>2, <1>4, <2>2, <2>3 DEF FeedInv, CursorHolds, PassedAreLate, PassedOver
<1>9. CASE engine = "postgresql"
  <2>1. n = sequence + 1 /\ sequence' = n /\ sequence \in Nat
    BY <1>1, <1>9 DEF NewId, FeedInv, FeedTypes
  <2>2. /\ \A m \in rows : m <= sequence
        /\ \A v \in Writers : assigned[v] <= sequence
    BY <1>9 DEF FeedInv, EngineGives
  <2>3. n \notin rows /\ \A v \in Writers : assigned[v] # n
    BY <1>7, <2>1, <2>2
  <2>4. HeldIdsAreNew'
    BY <1>2, <1>5, <1>6, <2>3 DEF HeldIdsAreNew, FeedInv
  <2>5. EngineGives'
    <3>1. \A m \in rows' : m <= sequence'
      BY <1>2, <1>7, <2>1, <2>2
    <3>2. \A v \in Writers : assigned'[v] <= sequence'
      BY <1>5, <1>6, <1>7, <2>1, <2>2
    <3>. QED
      BY <1>2, <1>9, <3>1, <3>2 DEF EngineGives
  <2>. QED
    BY <1>2, <1>4, <2>4, <2>5 DEF FeedInv, CursorHolds, PassedAreLate, PassedOver
<1>. QED
  BY <1>8, <1>9 DEF FeedInv, FeedTypes

\* A row that becomes visible behind a cursor is late.
LEMMA CommitKeeps ==
  ASSUME FeedInv, NEW w \in Writers, Commit(w)
  PROVE  FeedInv'
<1>. DEFINE n == assigned[w]
            after == {m \in rows : n < m}
<1>1. /\ n # 0 /\ rows' = rows \cup {n}
      /\ assigned' = [assigned EXCEPT ![w] = 0]
      /\ UNCHANGED <<engine, sequence, open, last, outbox, sent>>
  BY DEF Commit, clientVars
<1>2. late' = IF after # {} THEN late \cup {n} ELSE late
  BY DEF Commit
<1>3. /\ n \in Ids /\ n \in Nat /\ \A m \in rows : m \in Nat
      /\ \A v \in Writers : assigned[v] \in Nat
  <2>1. n \in Ids
    BY <1>1 DEF FeedInv, FeedTypes
  <2>. QED
    BY <2>1, RowsAreNumbers DEF FeedInv
<1>4. FeedTypes'
  BY <1>1, <1>2, <1>3 DEF FeedInv, FeedTypes
<1>5. /\ assigned'[w] = 0
      /\ \A v \in Writers \ {w} : assigned'[v] = assigned[v]
  BY <1>1 DEF FeedInv, FeedTypes
<1>6. HeldIdsAreNew'
  BY <1>1, <1>5 DEF FeedInv, HeldIdsAreNew
<1>7. EngineGives'
  <2>1. CASE engine = "sqlite"
    <3>1. /\ \A m \in rows : m < n
          /\ \A v \in Writers : assigned[v] # 0 => v = w
      BY <1>1, <2>1 DEF FeedInv, EngineGives
    <3>2. after = {}
      BY <1>3, <3>1
    <3>3. \A v \in Writers : assigned'[v] = 0
      BY <1>5, <3>1
    <3>. QED
      BY <1>1, <1>2, <2>1, <3>2, <3>3 DEF FeedInv, EngineGives
  <2>2. CASE engine = "postgresql"
    <3>1. sequence \in Nat
      BY DEF FeedInv, FeedTypes
    <3>. QED
      BY <1>1, <1>3, <1>5, <2>2, <3>1 DEF FeedInv, EngineGives
  <2>. QED
    BY <2>1, <2>2 DEF FeedInv, FeedTypes
<1>8. ASSUME NEW c \in Clients
      PROVE  CursorHolds(c)' /\ PassedAreLate(c)'
  <2>1. CursorHolds(c) /\ PassedAreLate(c)
    BY DEF FeedInv
  <2>2. CursorHolds(c)'
    BY <1>1, <2>1 DEF CursorHolds
  <2>3. n \notin rows /\ last[c] \in Nat
    BY <1>1 DEF FeedInv, FeedTypes, HeldIdsAreNew
  <2>4. PassedOver(c, n) => after # {}
    <3>1. ASSUME n <= last[c] PROVE after # {}
      <4>1. last[c] \in rows
        BY <1>1, <1>3, <2>1, <2>3, <3>1 DEF CursorHolds
      <4>2. n < last[c]
        BY <1>3, <2>3, <3>1, <4>1
      <4>. QED
        BY <4>1, <4>2
    <3>2. ASSUME NEW m \in outbox[c], n < m PROVE after # {}
      BY <2>1, <3>2 DEF CursorHolds
    <3>. QED
      BY <3>1, <3>2 DEF PassedOver
  <2>5. PassedAreLate(c)'
    <3>. SUFFICES ASSUME NEW m \in rows' \ (sent[c] \cup outbox[c]), PassedOver(c, m)
                  PROVE  m \in late'
      BY <1>1 DEF PassedAreLate, PassedOver
    <3>1. CASE m = n
      BY <1>2, <2>4, <3>1
    <3>2. CASE m # n
      BY <1>1, <1>2, <2>1, <3>2 DEF PassedAreLate
    <3>. QED
      BY <3>1, <3>2
  <2>. QED
    BY <2>2, <2>5
<1>. QED
  BY <1>4, <1>6, <1>7, <1>8 DEF FeedInv

LEMMA RollbackKeeps ==
  ASSUME FeedInv, NEW w \in Writers, Rollback(w)
  PROVE  FeedInv'
<1>1. /\ assigned' = [assigned EXCEPT ![w] = 0]
      /\ UNCHANGED <<engine, rows, late, sequence, open, last, outbox, sent>>
  BY DEF Rollback, clientVars
<1>2. FeedTypes'
  BY <1>1 DEF FeedInv, FeedTypes
<1>3. /\ assigned'[w] = 0
      /\ \A v \in Writers \ {w} : assigned'[v] = assigned[v]
  BY <1>1 DEF FeedInv, FeedTypes
<1>4. HeldIdsAreNew'
  BY <1>1, <1>3 DEF FeedInv, HeldIdsAreNew
<1>5. EngineGives'
  <2>1. sequence \in Nat
    BY DEF FeedInv, FeedTypes
  <2>. QED
    BY <1>1, <1>3, <2>1 DEF FeedInv, EngineGives
<1>. QED
  BY <1>1, <1>2, <1>4, <1>5 DEF FeedInv, CursorHolds, PassedAreLate, PassedOver

-----------------------------------------------------------------------------
\* A client's step leaves the log alone; what remains is the client's own.
LEMMA LogIsLeft ==
  ASSUME FeedInv, UNCHANGED logVars, FeedTypes', NEW c \in Clients,
         \A d \in Clients \ {c} :
           /\ open'[d] = open[d] /\ last'[d] = last[d]
           /\ outbox'[d] = outbox[d] /\ sent'[d] = sent[d],
         CursorHolds(c)', PassedAreLate(c)'
  PROVE  FeedInv'
<1>1. HeldIdsAreNew' /\ EngineGives'
  BY DEF FeedInv, HeldIdsAreNew, EngineGives, logVars
<1>2. ASSUME NEW d \in Clients \ {c}
      PROVE  CursorHolds(d)' /\ PassedAreLate(d)'
  <2>1. CursorHolds(d) /\ PassedAreLate(d)
    BY DEF FeedInv
  <2>. QED
    BY <2>1 DEF CursorHolds, PassedAreLate, PassedOver, logVars
<1>. QED
  BY <1>1, <1>2 DEF FeedInv

LEMMA ConnectKeeps ==
  ASSUME FeedInv, NEW c \in Clients, Connect(c)
  PROVE  FeedInv'
<1>1. /\ open'[c] /\ last'[c] = 0 /\ sent'[c] = {} /\ outbox'[c] = {}
      /\ UNCHANGED logVars
  BY DEF Connect, FeedInv, FeedTypes, CursorHolds
<1>2. FeedTypes'
  BY DEF Connect, FeedInv, FeedTypes, logVars
<1>3. \A d \in Clients \ {c} :
        /\ open'[d] = open[d] /\ last'[d] = last[d]
        /\ outbox'[d] = outbox[d] /\ sent'[d] = sent[d]
  BY DEF Connect, FeedInv, FeedTypes
<1>4. CursorHolds(c)'
  BY <1>1 DEF CursorHolds
<1>5. PassedAreLate(c)'
  <2>1. \A m \in rows' : ~ (m <= 0)
    BY <1>2, IdsAreNumbers DEF FeedTypes
  <2>. QED
    BY <1>1, <2>1 DEF PassedAreLate, PassedOver
<1>. QED
  BY <1>1, <1>2, <1>3, <1>4, <1>5, LogIsLeft

LEMMA PollKeeps ==
  ASSUME FeedInv, NEW c \in Clients, Poll(c)
  PROVE  FeedInv'
<1>1. /\ outbox[c] = {} /\ outbox'[c] = FirstRows(c)
      /\ UNCHANGED <<logVars, open, last, sent>> /\ open[c]
  BY DEF Poll, FeedInv, FeedTypes
<1>2. FirstRows(c) \subseteq Fresh(c) /\ Fresh(c) \subseteq rows
  BY DEF FirstRows, Fresh
<1>3. FeedTypes'
  BY <1>2 DEF Poll, FeedInv, FeedTypes, logVars
<1>4. \A d \in Clients \ {c} : outbox'[d] = outbox[d]
  BY DEF Poll, FeedInv, FeedTypes
<1>5. CursorHolds(c)'
  BY <1>1, <1>2 DEF CursorHolds, FeedInv, logVars, Fresh
<1>6. PassedAreLate(c)'
  <2>. SUFFICES ASSUME NEW m \in rows \ (sent[c] \cup FirstRows(c)),
                       m <= last[c] \/ \E n \in FirstRows(c) : m < n
                PROVE  m \in late
    BY <1>1 DEF PassedAreLate, PassedOver, logVars
  <2>1. CASE m <= last[c]
    BY <1>1, <2>1 DEF FeedInv, PassedAreLate, PassedOver
  <2>2. CASE ~ (m <= last[c])
    <3>1. m \in Fresh(c)
      BY <2>2, IdsAreNumbers DEF Fresh, FeedInv, FeedTypes
    <3>. QED
      BY <2>2, <3>1, ReadsFromTheCursor DEF FeedInv
  <2>. QED
    BY <2>1, <2>2
<1>. QED
  BY <1>1, <1>3, <1>4, <1>5, <1>6, LogIsLeft

LEMMA SendKeeps ==
  ASSUME FeedInv, NEW c \in Clients, SendRow(c)
  PROVE  FeedInv'
<1>1. PICK n \in outbox[c] :
        /\ \A m \in outbox[c] : n <= m
        /\ last' = [last EXCEPT ![c] = n]
        /\ sent' = [sent EXCEPT ![c] = @ \cup {n}]
        /\ outbox' = [outbox EXCEPT ![c] = @ \ {n}]
        /\ UNCHANGED <<logVars, open>> /\ open[c]
  BY DEF SendRow
<1>2. /\ CursorHolds(c) /\ PassedAreLate(c)
      /\ outbox[c] \subseteq rows /\ rows \subseteq Ids
      /\ last[c] \in Nat /\ n \in Nat /\ \A m \in rows : m \in Nat
      /\ \A m \in outbox[c] \cup sent[c] : m \in Nat
  BY RowsAreNumbers DEF FeedInv, FeedTypes, CursorHolds
<1>3. /\ last'[c] = n /\ sent'[c] = sent[c] \cup {n}
      /\ outbox'[c] = outbox[c] \ {n} /\ rows' = rows /\ late' = late
      /\ open'[c] = open[c]
  BY <1>1 DEF FeedInv, FeedTypes, logVars
<1>4. FeedTypes'
  BY <1>1, <1>2 DEF FeedInv, FeedTypes, logVars
<1>5. \A d \in Clients \ {c} :
        /\ open'[d] = open[d] /\ last'[d] = last[d]
        /\ outbox'[d] = outbox[d] /\ sent'[d] = sent[d]
  BY <1>1 DEF FeedInv, FeedTypes
<1>6. CursorHolds(c)'
  <2>1. \A m \in sent[c] : m <= n
    <3>1. last[c] < n /\ \A m \in sent[c] : m <= last[c]
      BY <1>2 DEF CursorHolds
    <3>. QED
      BY <1>2, <3>1
  <2>2. \A m \in outbox[c] \ {n} : n < m
    BY <1>1, <1>2
  <2>. QED
    BY <1>1, <1>2, <1>3, <2>1, <2>2 DEF CursorHolds
<1>7. PassedAreLate(c)'
  <2>. SUFFICES ASSUME NEW m \in rows \ (sent[c] \cup outbox[c]),
                       m <= n \/ \E k \in outbox[c] : m < k
                PROVE  m \in late
    BY <1>1, <1>3 DEF PassedAreLate, PassedOver
  <2>1. m # n /\ m \in Nat /\ n \in Nat
    BY <1>2
  <2>2. \E k \in outbox[c] : m < k
    BY <1>1, <2>1
  <2>. QED
    BY <1>2, <2>2 DEF PassedAreLate, PassedOver
<1>. QED
  BY <1>1, <1>4, <1>5, <1>6, <1>7, LogIsLeft

LEMMA DisconnectKeeps ==
  ASSUME FeedInv, NEW c \in Clients, Disconnect(c)
  PROVE  FeedInv'
<1>1. /\ ~ open'[c] /\ outbox'[c] = {}
      /\ UNCHANGED <<logVars, last, sent>>
  BY DEF Disconnect, FeedInv, FeedTypes
<1>2. FeedTypes'
  BY DEF Disconnect, FeedInv, FeedTypes, logVars
<1>3. \A d \in Clients \ {c} : open'[d] = open[d] /\ outbox'[d] = outbox[d]
  BY DEF Disconnect, FeedInv, FeedTypes
<1>4. CursorHolds(c) /\ PassedAreLate(c)
  BY DEF FeedInv
<1>5. CursorHolds(c)'
  BY <1>1, <1>4 DEF CursorHolds, logVars
<1>6. PassedAreLate(c)'
  <2>1. \A n \in outbox[c] : last[c] < n /\ n \in Nat /\ last[c] \in Nat
    BY <1>4, IdsAreNumbers DEF CursorHolds, FeedInv, FeedTypes
  <2>. SUFFICES ASSUME NEW m \in rows \ sent[c], m <= last[c]
                PROVE  m \in late
    BY <1>1 DEF PassedAreLate, PassedOver, logVars
  <2>2. m \notin outbox[c]
    BY <2>1
  <2>. QED
    BY <1>4, <2>2 DEF PassedAreLate, PassedOver
<1>. QED
  BY <1>1, <1>2, <1>3, <1>5, <1>6, LogIsLeft

LEMMA FeedInvStep == FeedInv /\ [FeedNext]_feedVars => FeedInv'
<1>. SUFFICES ASSUME FeedInv, [FeedNext]_feedVars PROVE FeedInv'
  OBVIOUS
<1>1. CASE \E w \in Writers : Flush(w) \/ Commit(w) \/ Rollback(w)
  BY <1>1, FlushKeeps, CommitKeeps, RollbackKeeps
<1>2. CASE ClientNext
  BY <1>2, ConnectKeeps, PollKeeps, SendKeeps, DisconnectKeeps DEF ClientNext
<1>3. CASE UNCHANGED feedVars
  BY <1>3 DEF feedVars, logVars, clientVars, FeedInv, FeedTypes, HeldIdsAreNew,
     EngineGives, CursorHolds, PassedAreLate, PassedOver
<1>. QED
  BY <1>1, <1>2, <1>3 DEF FeedNext

LEMMA FeedInvariant == FeedSpec => []FeedInv
BY FeedInvInit, FeedInvStep, PTL DEF FeedSpec

-----------------------------------------------------------------------------
\* Whatever the database, the batch and the interleaving, a connection skips
\* only rows that PostgreSQL committed out of the order of their ids.
THEOREM FeedSkipsOnlyLate == FeedSpec => []OnlyLateRowsAreSkipped
<1>1. FeedInv => OnlyLateRowsAreSkipped
  <2>. SUFFICES ASSUME FeedInv, NEW c \in Clients, NEW n \in rows \ sent[c],
                       n <= last[c]
                PROVE  n \in late /\ engine = "postgresql"
    BY DEF OnlyLateRowsAreSkipped
  <2>1. CursorHolds(c) /\ PassedAreLate(c) /\ n \in Nat /\ last[c] \in Nat
        /\ outbox[c] \subseteq Nat
    BY IdsAreNumbers DEF FeedInv, FeedTypes
  <2>2. n \notin outbox[c]
    BY <2>1 DEF CursorHolds
  <2>3. n \in late
    BY <2>1, <2>2 DEF PassedAreLate, PassedOver
  <2>. QED
    BY <2>3 DEF FeedInv, FeedTypes, EngineGives
<1>. QED
  BY <1>1, FeedInvariant, PTL

\* A step of the log or of a connection is a step of the promise.
LEMMA FeedStepIsDelivery ==
  FeedInv /\ [FeedNext]_feedVars =>
    [Delivery!DeliveryNext]_(Delivery!deliveryVars)
<1>. SUFFICES ASSUME FeedInv, [FeedNext]_feedVars
              PROVE  [Delivery!DeliveryNext]_(Delivery!deliveryVars)
  OBVIOUS
<1>. USE DEF Delivery!DeliveryNext, Delivery!deliveryVars
<1>1. ASSUME NEW w \in Writers, Flush(w) \/ Rollback(w)
      PROVE  UNCHANGED Delivery!deliveryVars
  BY <1>1 DEF Flush, Rollback, clientVars
<1>2. ASSUME NEW w \in Writers, Commit(w)
      PROVE  \E n \in Ids : Delivery!Publish(n)
  <2>1. assigned[w] \in Ids /\ assigned[w] \notin rows
    BY <1>2 DEF Commit, FeedInv, FeedTypes, HeldIdsAreNew
  <2>2. Delivery!Publish(assigned[w])
    BY <1>2, <2>1 DEF Commit, Delivery!Publish, clientVars
  <2>. QED
    BY <2>1, <2>2
<1>3. ASSUME NEW c \in Clients, Connect(c)
      PROVE  Delivery!Begin(c)
  BY <1>3 DEF Connect, Delivery!Begin, logVars
<1>4. ASSUME NEW c \in Clients, Poll(c) \/ Disconnect(c)
      PROVE  UNCHANGED Delivery!deliveryVars
  BY <1>4 DEF Poll, Disconnect, logVars
<1>5. ASSUME NEW c \in Clients, SendRow(c)
      PROVE  \E n \in Ids : Delivery!Deliver(c, n)
  <2>1. PICK n \in outbox[c] :
          /\ \A m \in outbox[c] : n <= m
          /\ sent' = [sent EXCEPT ![c] = @ \cup {n}]
          /\ UNCHANGED logVars
    BY <1>5 DEF SendRow
  <2>2. /\ CursorHolds(c) /\ PassedAreLate(c)
        /\ outbox[c] \subseteq rows /\ rows \subseteq Ids
        /\ last[c] \in Nat /\ n \in Nat /\ \A m \in rows : m \in Nat
        /\ \A m \in outbox[c] \cup sent[c] : m \in Nat
    BY RowsAreNumbers DEF FeedInv, FeedTypes, CursorHolds
  <2>3. \A m \in sent[c] : m < n
    <3>1. last[c] < n /\ \A m \in sent[c] : m <= last[c]
      BY <2>2 DEF CursorHolds
    <3>. QED
      BY <2>2, <3>1
  <2>4. ASSUME NEW m \in rows \ sent[c], m < n
        PROVE  m \in late
    <3>1. m \notin outbox[c]
      BY <2>1, <2>2, <2>4
    <3>. QED
      BY <2>2, <2>4, <3>1 DEF PassedAreLate, PassedOver
  <2>5. Delivery!Deliver(c, n)
    BY <2>1, <2>2, <2>3, <2>4 DEF Delivery!Deliver, logVars
  <2>. QED
    BY <2>2, <2>5
<1>6. CASE UNCHANGED feedVars
  BY <1>6 DEF feedVars, logVars, clientVars
<1>. QED
  BY <1>1, <1>2, <1>3, <1>4, <1>5, <1>6 DEF FeedNext, ClientNext

\* The websocket keeps the promise of EventDelivery: ids in order, each once a
\* connection, none passed over but the late ones.
THEOREM FeedDelivers == FeedSpec => DeliveryHolds
<1>1. FeedInit => Delivery!DeliveryInit
  BY DEF FeedInit, Delivery!DeliveryInit
<1>. QED
  BY <1>1, FeedStepIsDelivery, FeedInvariant, PTL
     DEF FeedSpec, DeliveryHolds, Delivery!DeliverySpec

-----------------------------------------------------------------------------
\* The jobs and the requests write to the log as any writer does, so that the
\* promise holds with all of them running.
THEOREM JobsDeliver == JobsSpec => DeliveryHolds /\ []OnlyLateRowsAreSkipped
<1>1. JobsInit => FeedInit
  BY DEF JobsInit
<1>2. [JobsNext]_jobsVars => [FeedNext]_feedVars
  <2>. SUFFICES ASSUME [JobsNext]_jobsVars PROVE [FeedNext]_feedVars
    OBVIOUS
  <2>1. ASSUME NEW w \in Writers, JobStep(w)
        PROVE  [FeedNext]_feedVars
    <3>1. CASE RecordEvent(w) \/ EventStored(w) \/ EventLost(w) \/ Crash(w)
      BY <3>1 DEF RecordEvent, EventStored, EventLost, Crash, FeedNext
    <3>2. CASE \/ FetchNews(w) \/ StoreNews(w) \/ StartReviews(w)
               \/ ReviewSilently(w) \/ ReviewAnswered(w) \/ ReviewRaises(w)
               \/ AnswerRequest(w)
      BY <3>2 DEF FetchNews, StoreNews, StartReviews, ReviewSilently,
         ReviewAnswered, ReviewRaises, AnswerRequest
    <3>. QED
      BY <2>1, <3>1, <3>2 DEF JobStep
  <2>2. CASE ClientNext
    BY <2>2 DEF FeedNext
  <2>3. CASE UNCHANGED jobsVars
    BY <2>3 DEF jobsVars
  <2>. QED
    BY <2>1, <2>2, <2>3 DEF JobsNext
<1>3. JobsSpec => FeedSpec
  BY <1>1, <1>2, PTL DEF JobsSpec, FeedSpec
<1>. QED
  BY <1>3, FeedDelivers, FeedSkipsOnlyLate, PTL

-----------------------------------------------------------------------------
Job == [step : {"idle", "store", "review", "announce", "report"},
        outcome : {"none", "success", "error"}, new : SUBSET Urls,
        repeated : BOOLEAN, left : Nat]

Announcing == {w \in Writers : job[w].step = "announce"}

\* A decision is stored before its writer turns to the event log, and each
\* announces the one decision it has just stored.
JobsInv ==
  /\ job \in [Writers -> Job]
  /\ announced \in Nat /\ decisions \in Nat
  /\ IsFiniteSet(Announcing)
  /\ announced + Cardinality(Announcing) <= decisions

LEMMA JobsInvInit == JobsInit => JobsInv
<1>. SUFFICES ASSUME JobsInit PROVE JobsInv
  OBVIOUS
<1>1. Idle \in Job
  BY DEF Idle, Job
<1>2. Announcing = {}
  BY DEF JobsInit, Announcing, Idle
<1>. QED
  BY <1>1, <1>2, FS_EmptySet DEF JobsInit, JobsInv

\* A step of one writer: what it leaves of its job, and of the others'.
Moves(w, next) == job' = [job EXCEPT ![w] = next]

LEMMA JobMoves ==
  ASSUME job \in [Writers -> Job], NEW w \in Writers, NEW next, Moves(w, next)
  PROVE  /\ job'[w] = next
         /\ \A v \in Writers \ {w} : job'[v] = job[v]
         /\ next \in Job => job' \in [Writers -> Job]
         /\ next.step # "announce" => Announcing' = Announcing \ {w}
         /\ next.step = "announce" => Announcing' = Announcing \cup {w}
<1>1. /\ job'[w] = next
      /\ \A v \in Writers \ {w} : job'[v] = job[v]
      /\ next \in Job => job' \in [Writers -> Job]
  BY DEF Moves
<1>2. next.step # "announce" => Announcing' = Announcing \ {w}
  BY <1>1 DEF Announcing
<1>3. next.step = "announce" => Announcing' = Announcing \cup {w}
  BY <1>1 DEF Announcing
<1>. QED
  BY <1>1, <1>2, <1>3

\* The jobs that do not store a decision, nor announce one.
LEMMA QuietStep ==
  ASSUME JobsInv, NEW w \in Writers, NEW next \in Job, Moves(w, next),
         next.step # "announce", UNCHANGED <<announced, decisions>>
  PROVE  JobsInv'
<1>1. /\ job' \in [Writers -> Job] /\ Announcing' = Announcing \ {w}
  BY JobMoves DEF JobsInv
<1>2. /\ IsFiniteSet(Announcing') /\ Cardinality(Announcing') <= Cardinality(Announcing)
      /\ Cardinality(Announcing') \in Nat /\ Cardinality(Announcing) \in Nat
  BY <1>1, FS_RemoveElement, FS_CardinalityType, FS_Subset DEF JobsInv
<1>. QED
  BY <1>1, <1>2 DEF JobsInv

\* Where a writer's step takes its job, by action.
LEMMA JobsMove ==
  ASSUME JobsInv, NEW w \in Writers, JobStep(w)
  PROVE  \E next \in Job :
           /\ Moves(w, next)
           /\ \/ next.step # "announce" /\ UNCHANGED <<announced, decisions>>
              \/ /\ next.step = "announce" /\ job[w].step = "announce"
                 /\ UNCHANGED <<announced, decisions>>
              \/ /\ next.step = "announce" /\ job[w].step # "announce"
                 /\ announced' = announced /\ decisions' = decisions + 1
              \/ /\ next.step # "announce" /\ job[w].step = "announce"
                 /\ announced' = announced + 1 /\ decisions' = decisions
<1>. DEFINE Goal == \E next \in Job :
              /\ Moves(w, next)
              /\ \/ next.step # "announce" /\ UNCHANGED <<announced, decisions>>
                 \/ /\ next.step = "announce" /\ job[w].step = "announce"
                    /\ UNCHANGED <<announced, decisions>>
                 \/ /\ next.step = "announce" /\ job[w].step # "announce"
                    /\ announced' = announced /\ decisions' = decisions + 1
                 \/ /\ next.step # "announce" /\ job[w].step = "announce"
                    /\ announced' = announced + 1 /\ decisions' = decisions
            finished(outcome) == [Idle EXCEPT !.step = "report",
                                    !.outcome = outcome, !.left = job[w].left]
<1>1. /\ job \in [Writers -> Job] /\ job[w] \in Job
  BY DEF JobsInv
<1>2. /\ Idle \in Job /\ Idle.step # "announce"
  BY DEF Idle, Job
<1>3. ASSUME NEW outcome \in {"success", "error"}
      PROVE  finished(outcome) \in Job /\ finished(outcome).step # "announce"
  BY <1>1 DEF Idle, Job
<1>4. AfterReport(w) \in Job /\ AfterReport(w).step # "announce"
  <2>1. [Idle EXCEPT !.step = "review", !.left = job[w].left - 1].step = "review"
    BY DEF Idle
  <2>2. job[w].left > 1 =>
          [Idle EXCEPT !.step = "review", !.left = job[w].left - 1] \in Job
    <3>1. job[w].left > 1 => job[w].left - 1 \in Nat
      <4>1. job[w].left \in Nat
        BY <1>1 DEF Job
      <4>. QED
        BY <4>1
    <3>2. \A left \in Nat : [Idle EXCEPT !.step = "review", !.left = left] \in Job
      BY DEF Idle, Job
    <3>. QED
      BY <3>1, <3>2
  <2>. QED
    BY <1>2, <2>1, <2>2 DEF AfterReport
<1>5. ASSUME NEW outcome \in {"success", "error"}, Finish(w, outcome)
      PROVE  Moves(w, finished(outcome))
  BY <1>5 DEF Finish, Moves
<1>6. CASE FetchNews(w)
  <2>1. PICK new \in SUBSET (Urls \ articles), repeated \in BOOLEAN :
          job' = [job EXCEPT ![w] =
            [Idle EXCEPT !.step = "store", !.new = new, !.repeated = repeated]]
    BY <1>6 DEF FetchNews
  <2>2. [Idle EXCEPT !.step = "store", !.new = new, !.repeated = repeated] \in Job
    BY DEF Idle, Job
  <2>3. [Idle EXCEPT !.step = "store", !.new = new, !.repeated = repeated].step
          = "store"
    BY DEF Idle
  <2>. QED
    BY <1>6, <2>1, <2>2, <2>3 DEF FetchNews, Moves
<1>7. CASE StoreNews(w) \/ ReviewAnswered(w) \/ ReviewRaises(w)
  <2>1. PICK outcome \in {"success", "error"} : Finish(w, outcome)
    BY <1>7 DEF StoreNews, ReviewAnswered, ReviewRaises
  <2>2. UNCHANGED <<announced, decisions>>
    BY <1>7 DEF StoreNews, ReviewAnswered, ReviewRaises
  <2>. HIDE DEF finished
  <2>. QED
    BY <1>3, <1>5, <2>1, <2>2
<1>8. CASE StartReviews(w)
  <2>. DEFINE next == [Idle EXCEPT !.step = "review",
                         !.left = IF w \in Scheduled THEN Sweep ELSE 1]
  <2>1. next \in Job /\ next.step = "review"
    BY JobsAssumption DEF Idle, Job, JobsAssumption
  <2>2. Moves(w, next) /\ UNCHANGED <<announced, decisions>>
    BY <1>8 DEF StartReviews, Moves
  <2>. HIDE DEF next
  <2>. QED
    BY <2>1, <2>2
<1>9. CASE ReviewSilently(w)
  <2>. DEFINE next == [job[w] EXCEPT !.step = "announce"]
  <2>1. next \in Job /\ next.step = "announce"
    BY <1>1 DEF Job
  <2>2. /\ Moves(w, next) /\ job[w].step # "announce"
        /\ announced' = announced /\ decisions' = decisions + 1
    BY <1>9 DEF ReviewSilently, Moves
  <2>. HIDE DEF next
  <2>. QED
    BY <2>1, <2>2
<1>10. CASE RecordEvent(w)
  <2>1. Moves(w, job[w]) /\ UNCHANGED <<announced, decisions>>
    BY <1>1, <1>10 DEF RecordEvent, Moves, jobVars
  <2>. QED
    BY <1>1, <2>1
<1>11. CASE EventStored(w)
  <2>1. CASE job[w].step = "announce"
    <3>1. /\ Finish(w, "success")
          /\ announced' = announced + 1 /\ decisions' = decisions
      BY <1>11, <2>1 DEF EventStored, Announces
    <3>. HIDE DEF finished
    <3>. QED
      BY <1>3, <1>5, <2>1, <3>1
  <2>2. CASE job[w].step # "announce"
    <3>1. Moves(w, AfterReport(w)) /\ UNCHANGED <<announced, decisions>>
      BY <1>11, <2>2 DEF EventStored, Announces, Moves
    <3>. QED
      BY <1>4, <3>1
  <2>. QED
    BY <2>1, <2>2
<1>12. CASE EventLost(w)
  <2>1. UNCHANGED <<announced, decisions>>
    BY <1>12 DEF EventLost
  <2>2. Finish(w, "error") \/ Moves(w, AfterReport(w))
    BY <1>12 DEF EventLost, Moves
  <2>. HIDE DEF finished
  <2>. QED
    BY <1>3, <1>4, <1>5, <2>1, <2>2
<1>13. CASE AnswerRequest(w) \/ Crash(w)
  <2>1. Moves(w, Idle) /\ UNCHANGED <<announced, decisions>>
    BY <1>13 DEF AnswerRequest, Crash, Moves
  <2>. QED
    BY <1>2, <2>1
<1>. HIDE DEF Goal
<1>. QED
  BY <1>6, <1>7, <1>8, <1>9, <1>10, <1>11, <1>12, <1>13 DEF JobStep, Goal

LEMMA JobsInvStep == JobsInv /\ [JobsNext]_jobsVars => JobsInv'
<1>. SUFFICES ASSUME JobsInv, [JobsNext]_jobsVars PROVE JobsInv'
  OBVIOUS
<1>1. ASSUME NEW w \in Writers, JobStep(w)
      PROVE  JobsInv'
  <2>1. PICK next \in Job :
           /\ Moves(w, next)
           /\ \/ next.step # "announce" /\ UNCHANGED <<announced, decisions>>
              \/ /\ next.step = "announce" /\ job[w].step = "announce"
                 /\ UNCHANGED <<announced, decisions>>
              \/ /\ next.step = "announce" /\ job[w].step # "announce"
                 /\ announced' = announced /\ decisions' = decisions + 1
              \/ /\ next.step # "announce" /\ job[w].step = "announce"
                 /\ announced' = announced + 1 /\ decisions' = decisions
    BY <1>1, JobsMove
  <2>2. job' \in [Writers -> Job]
    BY <2>1, JobMoves DEF JobsInv
  <2>3. Cardinality(Announcing) \in Nat
    BY FS_CardinalityType DEF JobsInv
  <2>4. CASE next.step # "announce" /\ UNCHANGED <<announced, decisions>>
    BY <2>1, <2>4, QuietStep
  <2>5. CASE /\ next.step = "announce" /\ job[w].step = "announce"
             /\ UNCHANGED <<announced, decisions>>
    <3>1. w \in Announcing /\ Announcing' = Announcing \cup {w}
      BY <2>1, <2>5, JobMoves DEF JobsInv, Announcing
    <3>2. Announcing' = Announcing
      BY <3>1
    <3>. QED
      BY <2>2, <2>5, <3>2 DEF JobsInv
  <2>6. CASE /\ next.step = "announce" /\ job[w].step # "announce"
             /\ announced' = announced /\ decisions' = decisions + 1
    <3>1. w \notin Announcing /\ Announcing' = Announcing \cup {w}
      BY <2>1, <2>6, JobMoves DEF JobsInv, Announcing
    <3>2. /\ IsFiniteSet(Announcing')
          /\ Cardinality(Announcing') = Cardinality(Announcing) + 1
      BY <3>1, FS_AddElement DEF JobsInv
    <3>. QED
      BY <2>2, <2>3, <2>6, <3>2 DEF JobsInv
  <2>7. CASE /\ next.step # "announce" /\ job[w].step = "announce"
             /\ announced' = announced + 1 /\ decisions' = decisions
    <3>1. w \in Announcing /\ Announcing' = Announcing \ {w}
      BY <2>1, <2>7, JobMoves DEF JobsInv, Announcing
    <3>2. /\ IsFiniteSet(Announcing')
          /\ Cardinality(Announcing') = Cardinality(Announcing) - 1
      BY <3>1, FS_RemoveElement DEF JobsInv
    <3>. QED
      BY <2>2, <2>3, <2>7, <3>2 DEF JobsInv
  <2>. QED
    BY <2>1, <2>4, <2>5, <2>6, <2>7
<1>2. CASE UNCHANGED jobVars
  BY <1>2 DEF jobVars, JobsInv, Announcing
<1>. QED
  BY <1>1, <1>2 DEF JobsNext, jobsVars

\* Every reachable state: the counts of decisions and of their events agree.
THEOREM JobsInvariant == JobsSpec => []JobsInv
BY JobsInvInit, JobsInvStep, PTL DEF JobsSpec

\* Whatever fails or ends between the two commits of a review, the log never
\* announces more decisions than are stored (decision_engine.py:85-95).
THEOREM DecisionsTheorem == JobsSpec => []DecisionsPrecedeEvents
<1>1. JobsInv => DecisionsPrecedeEvents
  BY DEF JobsInv, Announcing, DecisionsPrecedeEvents
<1>. QED
  BY <1>1, JobsInvariant, PTL
=============================================================================
