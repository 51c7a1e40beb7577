------------------------------- MODULE TradingProofs -------------------------------
(***************************************************************************)
(* The proofs about what trades: the sessions that open and close position *)
(* rows, the evaluation job over time, and the paper exchange with its order*)
(* rows.  Each of the three is a specification of its own, and each has its*)
(* own inductive invariant.                                                *)
(***************************************************************************)
EXTENDS TradingSessions, StrategyEvaluator, PaperExchange, SumLemmas

(***************************************************************************)
(* What any number of sessions may do to the position rows, for every      *)
(* limit and every set of keys.  The count of open positions is read by    *)
(* evaluate_entry and acted upon by a later commit, so the invariant has   *)
(* to count the entries already approved together with the positions.      *)
(***************************************************************************)
Approved == {a \in Actors : session[a].pc = "approved"}

EnteringActors == {a \in Actors : Entering(a)}

\* Positions and approved entries together stay within the overrun.
EntriesBounded ==
  Cardinality(OpenIds) + Cardinality(Approved) <= MaxConcurrent + Cardinality(Actors) - 1

\* A primary key is left for every entry under way.
KeysSuffice == Cardinality(EnteringActors) <= Cardinality(FreeIds)

\* A session holds rows of the table only.
SeenExist ==
  \A a \in Actors : \A p \in Ids :
    session[a].seen[p].status # "NONE" => row[p].status # "NONE"

SessionsInv ==
  /\ row \in [Ids -> Row]
  /\ session \in [Actors -> Session]
  /\ EntriesBounded
  /\ KeysSuffice
  /\ SeenExist

\* What every step does to the rows that ClosedStaysClosed speaks of.
ClosedStep ==
  \A p \in Ids :
    /\ row[p].status = "CLOSED" => row'[p].status = "CLOSED"
    /\ row[p].status # "NONE" => row'[p].key = row[p].key

\* A session the actor may come to without writing a new row.
SafeSession(a, s) ==
  /\ s \in Session
  /\ s.pc = "approved" =>
       session[a].pc = "approved" \/ Cardinality(OpenIds) < MaxConcurrent
  /\ s.pc \in {"wanting", "checked", "approved"} => Entering(a) \/ RoomForEntry
  /\ \A p \in Ids : s.seen[p].status # "NONE" => row[p].status # "NONE"

\* Writes that open no row and bring none into being.
RowsKept ==
  /\ row' \in [Ids -> Row]
  /\ \A p \in Ids :
       /\ row'[p].status = "NONE" <=> row[p].status = "NONE"
       /\ row'[p].status = "OPEN" => row[p].status = "OPEN"
       /\ row'[p].key = row[p].key

-----------------------------------------------------------------------------
LEMMA FiniteRows ==
  /\ IsFiniteSet(OpenIds) /\ Cardinality(OpenIds) \in Nat
  /\ IsFiniteSet(FreeIds) /\ Cardinality(FreeIds) \in Nat
<1>1. IsFiniteSet(Ids)
  BY FS_Interval, SessionsAssumption DEF SessionsAssumption, Ids
<1>2. OpenIds \in SUBSET Ids /\ FreeIds \in SUBSET Ids
  BY DEF OpenIds, FreeIds
<1>. QED
  BY <1>1, <1>2, FS_Subset, FS_CardinalityType

LEMMA FiniteActors ==
  /\ IsFiniteSet(Actors) /\ Cardinality(Actors) \in Nat
  /\ IsFiniteSet(Approved) /\ Cardinality(Approved) \in Nat
  /\ Cardinality(Approved) <= Cardinality(Actors)
  /\ IsFiniteSet(EnteringActors) /\ Cardinality(EnteringActors) \in Nat
<1>1. IsFiniteSet(Actors)
  BY SessionsAssumption DEF SessionsAssumption
<1>2. Approved \in SUBSET Actors /\ EnteringActors \in SUBSET Actors
  BY DEF Approved, EnteringActors
<1>. QED
  BY <1>1, <1>2, FS_Subset, FS_CardinalityType

\* The new row of an entry has the least free primary key.
LEMMA LeastFree ==
  ASSUME FreeIds # {}
  PROVE  LET p == CHOOSE p \in FreeIds : \A o \in FreeIds : p <= o
         IN  p \in FreeIds
<1>. DEFINE R == {ss \in Nat \X Nat : ss[1] < ss[2]}
<1>1. FreeIds \subseteq Nat
  BY SessionsAssumption DEF SessionsAssumption, FreeIds, Ids
<1>2. \E p \in FreeIds : \A o \in FreeIds : ~ (<<o, p>> \in R)
  <2>1. IsWellFoundedOn(R, Nat)
    BY NatLessThanWellFounded DEF OpToRel
  <2>. HIDE DEF R
  <2>. QED
    BY <1>1, <2>1, WFMin
<1>3. PICK p \in FreeIds : \A o \in FreeIds : ~ (<<o, p>> \in R)
  BY <1>2
<1>4. \A o \in FreeIds : p <= o
  <2>. TAKE o \in FreeIds
  <2>1. o \in Nat /\ p \in Nat
    BY <1>1
  <2>2. ~ (o < p)
    BY <1>3, <2>1
  <2>. QED
    BY <2>1, <2>2
<1>. QED
  BY <1>4

LEMMA AnyKeyIsKey == AnyKey \in Keys
BY SessionsAssumption DEF SessionsAssumption, AnyKey

LEMMA IdleSession ==
  /\ NoRow \in Row
  /\ Idle \in Session /\ Idle.pc = "idle"
  /\ \A p \in Ids : Idle.seen[p].status = "NONE"
BY AnyKeyIsKey DEF NoRow, Row, Idle, Session

-----------------------------------------------------------------------------
\* A step of one session that opens no row keeps the invariant: its actor is
\* approved only below the limit, and enters only with a primary key to spare.
LEMMA QuietStep ==
  ASSUME SessionsInv, NEW a \in Actors, NEW s, SafeSession(a, s), Goto(a, s), RowsKept
  PROVE  SessionsInv' /\ ClosedStep
<1>0. /\ session' \in [Actors -> Session]
      /\ session'[a] = s
      /\ \A b \in Actors \ {a} : session'[b] = session[b]
  BY DEF SessionsInv, SafeSession, Goto
<1>1. row' \in [Ids -> Row]
  BY DEF RowsKept
<1>2. FreeIds' = FreeIds
  BY DEF RowsKept, FreeIds
<1>3. OpenIds' \in SUBSET OpenIds
  BY DEF RowsKept, OpenIds
<1>4. Cardinality(OpenIds') <= Cardinality(OpenIds) /\ Cardinality(OpenIds') \in Nat
  BY <1>3, FiniteRows, FS_Subset, FS_CardinalityType
<1>5. /\ Cardinality(Actors) \in Nat
      /\ IsFiniteSet(Approved') /\ Cardinality(Approved') \in Nat
      /\ Cardinality(Approved') <= Cardinality(Actors)
  <2>1. Approved' \in SUBSET Actors
    BY DEF Approved
  <2>. QED
    BY <2>1, FiniteActors, FS_Subset, FS_CardinalityType
<1>6. EntriesBounded'
  <2>1. CASE Cardinality(OpenIds) < MaxConcurrent
    BY <1>4, <1>5, <2>1, FiniteRows, SessionsAssumption
       DEF EntriesBounded, SessionsAssumption
  <2>2. CASE ~ (Cardinality(OpenIds) < MaxConcurrent)
    <3>1. Approved' \in SUBSET Approved
      BY <1>0, <2>2 DEF Approved, SafeSession
    <3>2. Cardinality(Approved') <= Cardinality(Approved)
      BY <3>1, FiniteActors, FS_Subset
    <3>. QED
      BY <1>4, <1>5, <3>2, FiniteRows, FiniteActors, SessionsAssumption
         DEF SessionsInv, EntriesBounded, SessionsAssumption
  <2>. QED
    BY <2>1, <2>2
<1>7. KeysSuffice'
  <2>1. CASE s.pc \in {"wanting", "checked", "approved"} /\ ~Entering(a)
    <3>1. EnteringActors' \in SUBSET (EnteringActors \cup {a})
      BY <1>0 DEF EnteringActors, Entering
    <3>2. /\ IsFiniteSet(EnteringActors \cup {a})
          /\ Cardinality(EnteringActors \cup {a}) <= Cardinality(EnteringActors) + 1
      <4>1. IsFiniteSet(EnteringActors)
        BY FiniteActors
      <4>2. /\ IsFiniteSet(EnteringActors \cup {a})
            /\ Cardinality(EnteringActors \cup {a})
                 = IF a \in EnteringActors THEN Cardinality(EnteringActors)
                   ELSE Cardinality(EnteringActors) + 1
        BY <4>1, FS_AddElement
      <4>. QED
        BY <4>2, FiniteActors
    <3>3. /\ Cardinality(EnteringActors') <= Cardinality(EnteringActors) + 1
          /\ Cardinality(EnteringActors') \in Nat
      BY <3>1, <3>2, FiniteActors, FS_Subset, FS_CardinalityType
    <3>4. Cardinality(EnteringActors) < Cardinality(FreeIds)
      BY <2>1 DEF SafeSession, RoomForEntry, EnteringActors
    <3>. QED
      BY <1>2, <3>3, <3>4, FiniteActors, FiniteRows DEF KeysSuffice
  <2>2. CASE ~ (s.pc \in {"wanting", "checked", "approved"} /\ ~Entering(a))
    <3>1. EnteringActors' \in SUBSET EnteringActors
      BY <1>0, <2>2 DEF EnteringActors, Entering
    <3>2. /\ Cardinality(EnteringActors') <= Cardinality(EnteringActors)
          /\ Cardinality(EnteringActors') \in Nat
      BY <3>1, FiniteActors, FS_Subset, FS_CardinalityType
    <3>. QED
      BY <1>2, <3>2, FiniteActors, FiniteRows DEF SessionsInv, KeysSuffice
  <2>. QED
    BY <2>1, <2>2
<1>8. SeenExist'
  BY <1>0 DEF SessionsInv, SeenExist, SafeSession, RowsKept
<1>9. ClosedStep
  <2>1. \A p \in Ids : /\ row[p].status \in {"NONE", "OPEN", "CLOSED"}
                       /\ row'[p].status \in {"NONE", "OPEN", "CLOSED"}
    BY <1>1 DEF SessionsInv, Row
  <2>. QED
    BY <2>1 DEF RowsKept, ClosedStep
<1>. QED
  BY <1>0, <1>1, <1>6, <1>7, <1>8, <1>9 DEF SessionsInv

\* A step that leaves the rows alone.
LEMMA SessionStep ==
  ASSUME SessionsInv, NEW a \in Actors, NEW s, SafeSession(a, s), Goto(a, s), row' = row
  PROVE  SessionsInv' /\ ClosedStep
<1>1. RowsKept
  BY DEF SessionsInv, RowsKept
<1>. QED
  BY <1>1, QuietStep

LEMMA IdleIsSafe ==
  ASSUME NEW a \in Actors
  PROVE  SafeSession(a, Idle)
BY IdleSession DEF SafeSession

\* The session a handler returns with: the loop of the job, or nothing.
Returned(a) ==
  IF session[a].back = "idle" THEN Idle ELSE [session[a] EXCEPT !.pc = session[a].back]

LEMMA ReturnedIsSafe ==
  ASSUME SessionsInv, NEW a \in Actors
  PROVE  SafeSession(a, Returned(a)) /\ Returned(a).pc \in {"idle", "loop", "ranked"}
<1>1. session[a] \in Session /\ session[a].back \in {"idle", "loop", "ranked"}
  BY DEF SessionsInv, Session
<1>2. CASE session[a].back = "idle"
  BY <1>2, IdleSession, IdleIsSafe DEF Returned
<1>3. CASE session[a].back # "idle"
  <2>. DEFINE s == [session[a] EXCEPT !.pc = session[a].back]
  <2>1. s \in Session /\ s.pc \in {"idle", "loop", "ranked"} /\ s.seen = session[a].seen
    BY <1>1 DEF Session
  <2>2. \A p \in Ids : s.seen[p].status # "NONE" => row[p].status # "NONE"
    BY <2>1 DEF SessionsInv, SeenExist
  <2>3. Returned(a) = s
    BY <1>3 DEF Returned
  <2>. HIDE DEF s
  <2>. QED
    BY <2>1, <2>2, <2>3 DEF SafeSession
<1>. QED
  BY <1>2, <1>3
-----------------------------------------------------------------------------
LEMMA CheckStep ==
  ASSUME SessionsInv, NEW a \in Actors, CheckFree(a) \/ CheckRisk(a)
  PROVE  SessionsInv' /\ ClosedStep
<1>0. session[a] \in Session /\ \A p \in Ids :
        session[a].seen[p].status # "NONE" => row[p].status # "NONE"
  BY DEF SessionsInv, SeenExist
<1>1. row' = row
  BY DEF CheckFree, CheckRisk
<1>2. CASE Goto(a, Idle)
  BY <1>1, <1>2, IdleIsSafe, IdleSession, SessionStep DEF SafeSession
<1>3. CASE Goto(a, Returned(a))
  BY <1>1, <1>3, ReturnedIsSafe, SessionStep
<1>4. ASSUME NEW want \in Nat, session[a].pc = "wanting",
             Goto(a, [session[a] EXCEPT !.pc = "checked", !.quantity = want])
      PROVE  SessionsInv' /\ ClosedStep
  <2>. DEFINE s == [session[a] EXCEPT !.pc = "checked", !.quantity = want]
  <2>1. s \in Session /\ s.pc = "checked" /\ s.seen = session[a].seen
    BY <1>0 DEF Session
  <2>2. SafeSession(a, s)
    BY <1>0, <1>4, <2>1 DEF SafeSession, Entering
  <2>. QED
    BY <1>1, <1>4, <2>2, SessionStep
<1>5. ASSUME session[a].pc = "checked", Cardinality(OpenIds) < MaxConcurrent,
             Goto(a, [session[a] EXCEPT !.pc = "approved"])
      PROVE  SessionsInv' /\ ClosedStep
  <2>. DEFINE s == [session[a] EXCEPT !.pc = "approved"]
  <2>1. s \in Session /\ s.pc = "approved" /\ s.seen = session[a].seen
    BY <1>0 DEF Session
  <2>2. SafeSession(a, s)
    BY <1>0, <1>5, <2>1 DEF SafeSession, Entering
  <2>. QED
    BY <1>1, <1>5, <2>2, SessionStep
<1>6. CASE CheckFree(a)
  <2>1. CASE OpenOf(session[a].key) # {}
    BY <1>2, <1>6, <2>1 DEF CheckFree, Abort
  <2>2. CASE OpenOf(session[a].key) = {}
    <3>1. PICK want \in 0 .. EntryQuantity :
            IF want = 0 THEN Done(a)
            ELSE IF want < MinTradable THEN Abort(a)
            ELSE Goto(a, [session[a] EXCEPT !.pc = "checked", !.quantity = want])
      BY <1>6, <2>2 DEF CheckFree
    <3>2. want \in Nat
      BY SessionsAssumption DEF SessionsAssumption
    <3>3. Done(a) \/ Abort(a)
            \/ Goto(a, [session[a] EXCEPT !.pc = "checked", !.quantity = want])
      BY <3>1, Zenon
    <3>4. session[a].pc = "wanting"
      BY <1>6 DEF CheckFree
    <3>. QED
      BY <1>2, <1>3, <1>4, <3>2, <3>3, <3>4, Zenon DEF Done, Abort, Returned
  <2>. QED
    BY <2>1, <2>2
<1>7. CASE CheckRisk(a)
  BY <1>3, <1>5, <1>7 DEF CheckRisk, Done, Returned
<1>. QED
  BY <1>6, <1>7

\* A row that is written for a new position.
LEMMA NewRow ==
  ASSUME SessionsInv, NEW a \in Actors, session[a].pc = "approved",
         Goto(a, Returned(a)), NEW p \in FreeIds, NEW filled \in Nat,
         row' = [row EXCEPT ![p] = [status |-> "OPEN", key |-> session[a].key,
                                    quantity |-> filled]]
  PROVE  SessionsInv' /\ ClosedStep
<1>. DEFINE s == Returned(a)
<1>0. SafeSession(a, s) /\ s \in Session /\ s.pc \in {"idle", "loop", "ranked"}
  BY ReturnedIsSafe DEF SafeSession
<1>. HIDE DEF s
<1>1. /\ session' \in [Actors -> Session]
      /\ session'[a] = s
      /\ \A b \in Actors \ {a} : session'[b] = session[b]
  BY <1>0 DEF SessionsInv, Goto, s
<1>2. p \in Ids /\ row[p].status = "NONE"
  BY DEF FreeIds
<1>3. /\ row' \in [Ids -> Row]
      /\ row'[p].status = "OPEN"
      /\ \A o \in Ids \ {p} : row'[o] = row[o]
  <2>1. session[a].key \in Keys
    BY DEF SessionsInv, Session
  <2>2. [status |-> "OPEN", key |-> session[a].key, quantity |-> filled] \in Row
    BY <2>1 DEF Row
  <2>. QED
    BY <1>2, <2>2 DEF SessionsInv
<1>4. OpenIds' = OpenIds \cup {p} /\ FreeIds' = FreeIds \ {p} /\ p \notin OpenIds
  BY <1>2, <1>3 DEF OpenIds, FreeIds
<1>5. Cardinality(OpenIds') = Cardinality(OpenIds) + 1
  BY <1>4, FiniteRows, FS_AddElement
<1>6. Cardinality(FreeIds') = Cardinality(FreeIds) - 1
  BY <1>4, FiniteRows, FS_RemoveElement
<1>7. a \in Approved /\ Approved' = Approved \ {a}
  BY <1>0, <1>1 DEF Approved
<1>8. Cardinality(Approved') = Cardinality(Approved) - 1
  BY <1>7, FiniteActors, FS_RemoveElement
<1>9. a \in EnteringActors /\ EnteringActors' = EnteringActors \ {a}
  BY <1>0, <1>1 DEF EnteringActors, Entering
<1>10. Cardinality(EnteringActors') = Cardinality(EnteringActors) - 1
  BY <1>9, FiniteActors, FS_RemoveElement
<1>11. EntriesBounded'
  BY <1>5, <1>8, FiniteActors, FiniteRows, SessionsAssumption
     DEF SessionsInv, EntriesBounded, SessionsAssumption
<1>12. KeysSuffice'
  BY <1>6, <1>10, FiniteActors, FiniteRows DEF SessionsInv, KeysSuffice
<1>13. SeenExist'
  BY <1>0, <1>1, <1>3 DEF SessionsInv, SeenExist, SafeSession
<1>14. ClosedStep
  BY <1>2, <1>3 DEF ClosedStep
<1>. QED
  BY <1>1, <1>3, <1>11, <1>12, <1>13, <1>14 DEF SessionsInv

LEMMA CommitEntryStep ==
  ASSUME SessionsInv, NEW a \in Actors, CommitEntry(a)
  PROVE  SessionsInv' /\ ClosedStep
<1>1. session[a].pc = "approved" /\ Goto(a, Returned(a))
  BY DEF CommitEntry, Done, Returned
<1>2. FreeIds # {}
  <2>1. a \in EnteringActors
    BY <1>1 DEF EnteringActors, Entering
  <2>2. Cardinality(EnteringActors) # 0
    BY <2>1, FiniteActors, FS_EmptySet
  <2>3. Cardinality(FreeIds) # 0
    BY <2>2, FiniteActors, FiniteRows DEF SessionsInv, KeysSuffice
  <2>. QED
    BY <2>3, FS_EmptySet
<1>3. CASE row' = row
  BY <1>1, <1>3, ReturnedIsSafe, SessionStep
<1>4. ASSUME NEW filled \in 0 .. session[a].quantity,
             row' = LET p == CHOOSE p \in FreeIds : \A o \in FreeIds : p <= o
                    IN [row EXCEPT ![p] = [status |-> "OPEN", key |-> session[a].key,
                                           quantity |-> filled]]
      PROVE  SessionsInv' /\ ClosedStep
  <2>. DEFINE p == CHOOSE p \in FreeIds : \A o \in FreeIds : p <= o
  <2>1. p \in FreeIds
    BY <1>2, LeastFree
  <2>2. filled \in Nat
    BY DEF SessionsInv, Session
  <2>3. row' = [row EXCEPT ![p] = [status |-> "OPEN", key |-> session[a].key,
                                   quantity |-> filled]]
    BY <1>4
  <2>. HIDE DEF p
  <2>. QED
    BY <1>1, <2>1, <2>2, <2>3, NewRow
<1>. QED
  BY <1>3, <1>4 DEF CommitEntry

-----------------------------------------------------------------------------
\* The columns a stale session writes: the quantity, and CLOSED when it sold
\* all it held.  The key and an older CLOSED stay.
LEMMA ReducedRow ==
  ASSUME NEW current \in Row, NEW held \in Row, NEW filled \in 0 .. held.quantity
  PROVE  /\ Reduced(current, held, filled) \in Row
         /\ Reduced(current, held, filled).key = current.key
         /\ Reduced(current, held, filled).status \in {current.status, "CLOSED"}
<1>1. held.quantity - filled \in Nat
  BY DEF Row
<1>2. current.status \in {"NONE", "OPEN", "CLOSED"}
  BY DEF Row
<1>. DEFINE left == held.quantity - filled
            status == IF filled = held.quantity THEN "CLOSED" ELSE current.status
<1>3. status \in {"NONE", "OPEN", "CLOSED"} /\ status \in {current.status, "CLOSED"}
  BY <1>2
<1>4. Reduced(current, held, filled)
        = [current EXCEPT !.quantity = left, !.status = status]
  BY DEF Reduced
<1>. HIDE DEF left, status
<1>5. left \in Nat
  BY <1>1 DEF left
<1>. QED
  BY <1>3, <1>4, <1>5 DEF Row

LEMMA CommitCloseStep ==
  ASSUME SessionsInv, NEW a \in Actors, CommitClose(a)
  PROVE  SessionsInv' /\ ClosedStep
<1>. DEFINE p == session[a].pos
            held == session[a].seen[p]
<1>1. session[a] \in Session /\ \A o \in Ids :
        session[a].seen[o].status # "NONE" => row[o].status # "NONE"
  BY DEF SessionsInv, SeenExist
<1>2. held.status = "OPEN"
  BY DEF CommitClose
<1>3. CASE Done(a) /\ row' = row
  BY <1>3, ReturnedIsSafe, SessionStep DEF Done, Returned
<1>4. ASSUME NEW filled \in 0 .. held.quantity,
             row' = [row EXCEPT ![p] = Reduced(@, held, filled)],
             Goto(a, IF session[a].back = "idle" THEN Idle
                     ELSE [session[a] EXCEPT
                             !.pc = session[a].back,
                             !.seen[p] = Reduced(held, held, filled)])
      PROVE  SessionsInv' /\ ClosedStep
  <2>. DEFINE s == [session[a] EXCEPT !.pc = session[a].back,
                                      !.seen[p] = Reduced(held, held, filled)]
  <2>1. ASSUME p \in Ids
        PROVE  /\ row[p] \in Row /\ row[p].status # "NONE"
               /\ held \in Row
               /\ Reduced(held, held, filled) \in Row
               /\ Reduced(row[p], held, filled) \in Row
               /\ Reduced(row[p], held, filled).key = row[p].key
               /\ Reduced(row[p], held, filled).status \in {row[p].status, "CLOSED"}
    <3>1. row[p] \in Row /\ held \in Row
      BY <1>1, <2>1 DEF SessionsInv, Session
    <3>2. row[p].status # "NONE"
      BY <1>1, <1>2, <2>1
    <3>. QED
      BY <3>1, <3>2, ReducedRow
  <2>2. \A o \in Ids : row'[o] = IF o = p THEN Reduced(row[p], held, filled) ELSE row[o]
    BY <1>4 DEF SessionsInv
  <2>3. RowsKept
    <3>1. row' \in [Ids -> Row]
      BY <1>4, <2>1, <2>2 DEF SessionsInv
    <3>. QED
      BY <2>1, <2>2, <3>1 DEF RowsKept
  <2>4. SafeSession(a, s) /\ s.pc \in {"idle", "loop", "ranked"}
    <3>1. session[a].back \in {"idle", "loop", "ranked"}
          /\ session[a].seen \in [Ids -> Row]
      BY <1>1 DEF Session
    <3>2. s.pc = session[a].back
          /\ s.seen = [session[a].seen EXCEPT ![p] = Reduced(held, held, filled)]
      BY <1>1 DEF Session
    <3>3. s.seen \in [Ids -> Row]
      <4>1. ASSUME NEW seen \in [Ids -> Row], NEW q, NEW r, q \in Ids => r \in Row
            PROVE  [seen EXCEPT ![q] = r] \in [Ids -> Row]
        BY <4>1
      <4>. HIDE DEF s
      <4>2. p \in Ids => Reduced(held, held, filled) \in Row
        BY <2>1
      <4>. QED
        BY <3>1, <3>2, <4>1, <4>2
    <3>4. s \in Session
      BY <1>1, <3>1, <3>3 DEF Session
    <3>5. \A o \in Ids : s.seen[o].status # "NONE" => row[o].status # "NONE"
      BY <1>1, <2>1, <3>1, <3>2
    <3>. HIDE DEF s
    <3>. QED
      BY <3>1, <3>2, <3>4, <3>5 DEF SafeSession
  <2>. HIDE DEF s
  <2>5. Goto(a, Idle) \/ Goto(a, s)
    BY <1>4 DEF s
  <2>. QED
    BY <2>3, <2>4, <2>5, IdleIsSafe, QuietStep
<1>. QED
  BY <1>3, <1>4 DEF CommitClose

LEMMA AbortStep ==
  ASSUME SessionsInv, NEW a \in Actors, RefuseClose(a) \/ Raise(a)
  PROVE  SessionsInv' /\ ClosedStep
<1>1. Goto(a, Idle) /\ row' = row
  BY DEF RefuseClose, Raise, Abort
<1>. QED
  BY <1>1, IdleIsSafe, SessionStep

LEMMA HandleStep ==
  ASSUME SessionsInv, NEW a \in Actors, Handle(a)
  PROVE  SessionsInv' /\ ClosedStep
BY CheckStep, CommitEntryStep, AbortStep, CommitCloseStep DEF Handle

-----------------------------------------------------------------------------
LEMMA RequestStepInv ==
  ASSUME SessionsInv, NEW r \in Requests, RequestStep(r)
  PROVE  SessionsInv' /\ ClosedStep
<1>0. r \in Actors
  BY DEF Actors
<1>1. CASE RequestEntry(r)
  <2>1. PICK k \in Keys : Goto(r, [Idle EXCEPT !.pc = "wanting", !.key = k])
    BY <1>0, <1>1, SessionsAssumption DEF RequestEntry, SessionsAssumption
  <2>. DEFINE s == [Idle EXCEPT !.pc = "wanting", !.key = k]
  <2>2. s \in Session /\ s.pc = "wanting" /\ s.seen = Idle.seen
    BY IdleSession DEF Session
  <2>3. RoomForEntry /\ row' = row
    BY <1>1 DEF RequestEntry
  <2>4. SafeSession(r, s)
    BY <2>2, <2>3, IdleSession DEF SafeSession
  <2>. QED
    BY <1>0, <2>1, <2>3, <2>4, SessionStep
<1>2. CASE RequestClose(r)
  <2>1. PICK p \in Ids \ FreeIds :
          Goto(r, [Idle EXCEPT !.pc = "closing", !.pos = p, !.seen[p] = row[p]])
    BY <1>2 DEF RequestClose
  <2>. DEFINE s == [Idle EXCEPT !.pc = "closing", !.pos = p, !.seen[p] = row[p]]
  <2>2. Idle.seen \in [Ids -> Row] /\ row[p] \in Row /\ row[p].status # "NONE"
    BY <2>1, IdleSession DEF Session, SessionsInv, FreeIds
  <2>3. s.pc = "closing" /\ s.seen = [Idle.seen EXCEPT ![p] = row[p]]
    BY IdleSession DEF Session
  <2>4. s.seen \in [Ids -> Row]
    BY <2>2, <2>3
  <2>5. s \in Session
    BY <2>1, <2>4, IdleSession DEF Session
  <2>6. \A o \in Ids : s.seen[o].status # "NONE" => row[o].status # "NONE"
    BY <2>2, <2>3, IdleSession
  <2>7. SafeSession(r, s)
    <3>. HIDE DEF s
    <3>. QED
      BY <2>3, <2>5, <2>6 DEF SafeSession
  <2>8. row' = row
    BY <1>2 DEF RequestClose
  <2>. QED
    BY <1>0, <2>1, <2>7, <2>8, SessionStep
<1>3. CASE Handle(r)
  BY <1>0, <1>3, HandleStep
<1>. QED
  BY <1>1, <1>2, <1>3 DEF RequestStep

-----------------------------------------------------------------------------
\* One evaluation of a strategy, from a session that only left a work list.
LEMMA EvaluateStep ==
  ASSUME SessionsInv, NEW j \in Actors, NEW k \in Keys, NEW s \in Session,
         s.pc \in {"loop", "ranked"}, s.seen = session[j].seen,
         Evaluate(j, k, s), row' = row
  PROVE  SessionsInv' /\ ClosedStep
<1>1. \A o \in Ids : s.seen[o].status # "NONE" => row[o].status # "NONE"
  BY DEF SessionsInv, SeenExist
<1>2. SafeSession(j, s)
  BY <1>1 DEF SafeSession
<1>3. CASE Abort(j)
  BY <1>3, IdleIsSafe, SessionStep DEF Abort
<1>4. CASE Goto(j, s)
  BY <1>2, <1>4, SessionStep
<1>5. CASE RoomForEntry /\ Goto(j, [s EXCEPT !.pc = "wanting", !.back = s.pc, !.key = k])
  <2>. DEFINE e == [s EXCEPT !.pc = "wanting", !.back = s.pc, !.key = k]
  <2>1. e \in Session /\ e.pc = "wanting" /\ e.seen = s.seen
    BY DEF Session
  <2>2. SafeSession(j, e)
    BY <1>1, <1>5, <2>1 DEF SafeSession
  <2>. QED
    BY <1>5, <2>2, SessionStep
<1>6. ASSUME NEW p \in OpenIds, NEW held,
             held = IF s.seen[p].status = "NONE" THEN row[p] ELSE s.seen[p],
             \/ Goto(j, [s EXCEPT !.pos = p, !.seen[p] = held])
             \/ Goto(j, [[s EXCEPT !.pos = p, !.seen[p] = held]
                           EXCEPT !.pc = "closing", !.back = s.pc])
      PROVE  SessionsInv' /\ ClosedStep
  <2>1. p \in Ids /\ row[p].status = "OPEN"
    BY DEF OpenIds
  <2>2. s.seen \in [Ids -> Row] /\ held \in Row
    BY <1>6, <2>1 DEF SessionsInv, Session
  <2>. DEFINE here == [s EXCEPT !.pos = p, !.seen[p] = held]
              there == [here EXCEPT !.pc = "closing", !.back = s.pc]
  <2>3. here.pc = s.pc /\ here.seen = [s.seen EXCEPT ![p] = held]
    BY DEF Session
  <2>4. here.seen \in [Ids -> Row]
    BY <2>2, <2>3
  <2>5. here \in Session
    BY <2>1, <2>4 DEF Session
  <2>6. \A o \in Ids : here.seen[o].status # "NONE" => row[o].status # "NONE"
    BY <1>1, <2>1, <2>2, <2>3
  <2>. HIDE DEF here
  <2>7. there \in Session /\ there.pc = "closing" /\ there.seen = here.seen
    BY <2>5 DEF Session
  <2>8. SafeSession(j, here)
    BY <2>3, <2>5, <2>6 DEF SafeSession
  <2>9. SafeSession(j, there)
    BY <2>6, <2>7 DEF SafeSession
  <2>10. Goto(j, here) \/ Goto(j, there)
    BY <1>6 DEF here
  <2>. HIDE DEF there
  <2>. QED
    BY <2>8, <2>9, <2>10, SessionStep
<1>7. CASE \E p \in OpenIds :
        /\ OpenOf(k) = {p}
        /\ LET held == IF s.seen[p].status = "NONE" THEN row[p] ELSE s.seen[p]
               here == [s EXCEPT !.pos = p, !.seen[p] = held]
           IN Goto(j, here) \/ Goto(j, [here EXCEPT !.pc = "closing", !.back = s.pc])
  BY <1>6, <1>7
<1>. QED
  BY <1>3, <1>4, <1>5, <1>7 DEF Evaluate

LEMMA JobStartStep ==
  ASSUME SessionsInv, NEW j \in Actors, JobStart(j)
  PROVE  SessionsInv' /\ ClosedStep
<1>. DEFINE seen == [p \in Ids |-> IF p \in OpenIds THEN row[p] ELSE NoRow]
            s == [Idle EXCEPT !.pc = "loop", !.seen = seen, !.todo = OpenIds]
<1>1. seen \in [Ids -> Row]
  BY IdleSession DEF SessionsInv
<1>2. \A p \in Ids : seen[p].status # "NONE" => row[p].status # "NONE"
  BY DEF NoRow
<1>. HIDE DEF seen
<1>3. s.pc = "loop" /\ s.seen = seen
  BY IdleSession DEF Session
<1>4. s \in Session
  BY <1>1, IdleSession DEF Session, OpenIds
<1>5. Goto(j, s) /\ row' = row
  BY DEF JobStart, seen
<1>. HIDE DEF s
<1>6. SafeSession(j, s)
  BY <1>2, <1>3, <1>4 DEF SafeSession
<1>. QED
  BY <1>5, <1>6, SessionStep

LEMMA JobPositionStep ==
  ASSUME SessionsInv, NEW j \in Actors, JobPosition(j)
  PROVE  SessionsInv' /\ ClosedStep
<1>. DEFINE p == CHOOSE p \in session[j].todo : \A o \in session[j].todo : p <= o
            k == session[j].seen[p].key
            s == [session[j] EXCEPT !.todo = @ \ {p}]
<1>1. session[j] \in Session /\ session[j].pc = "loop" /\ row' = row
  BY DEF SessionsInv, JobPosition
<1>2. IF k \in EntryKeys[j] THEN Evaluate(j, k, s) ELSE Goto(j, s)
  BY DEF JobPosition
<1>. HIDE DEF p
<1>3. s \in Session /\ s.pc = "loop" /\ s.seen = session[j].seen
  BY <1>1 DEF Session
<1>4. EntryKeys[j] \subseteq Keys
  BY SessionsAssumption DEF SessionsAssumption
<1>5. SafeSession(j, s)
  BY <1>3 DEF SessionsInv, SeenExist, SafeSession
<1>. HIDE DEF k, s
<1>6. CASE k \in EntryKeys[j]
  BY <1>1, <1>2, <1>3, <1>4, <1>6, EvaluateStep
<1>7. CASE k \notin EntryKeys[j]
  BY <1>1, <1>2, <1>5, <1>7, SessionStep
<1>. QED
  BY <1>6, <1>7

LEMMA JobRankStep ==
  ASSUME SessionsInv, NEW j \in Actors, JobRank(j)
  PROVE  SessionsInv' /\ ClosedStep
<1>1. session[j] \in Session /\ row' = row
  BY DEF SessionsInv, JobRank
<1>2. CASE Goto(j, Idle)
  BY <1>1, <1>2, IdleIsSafe, SessionStep
<1>3. ASSUME NEW chosen \in SUBSET Keys,
             Goto(j, [session[j] EXCEPT !.pc = "ranked", !.candidates = chosen])
      PROVE  SessionsInv' /\ ClosedStep
  <2>. DEFINE s == [session[j] EXCEPT !.pc = "ranked", !.candidates = chosen]
  <2>1. s \in Session /\ s.pc = "ranked" /\ s.seen = session[j].seen
    BY <1>1 DEF Session
  <2>2. SafeSession(j, s)
    BY <2>1 DEF SessionsInv, SeenExist, SafeSession
  <2>. QED
    BY <1>1, <1>3, <2>2, SessionStep
<1>4. EntryKeys[j] \subseteq Keys
  BY SessionsAssumption DEF SessionsAssumption
<1>. QED
  BY <1>2, <1>3, <1>4 DEF JobRank, Abort

LEMMA JobCandidateStep ==
  ASSUME SessionsInv, NEW j \in Actors, JobCandidate(j)
  PROVE  SessionsInv' /\ ClosedStep
<1>1. session[j] \in Session /\ session[j].pc = "ranked" /\ row' = row
  BY DEF SessionsInv, JobCandidate
<1>2. PICK k \in session[j].candidates :
        Evaluate(j, k, [session[j] EXCEPT !.candidates = @ \ {k}])
  BY DEF JobCandidate
<1>. DEFINE s == [session[j] EXCEPT !.candidates = @ \ {k}]
<1>3. k \in Keys /\ s \in Session /\ s.pc = "ranked" /\ s.seen = session[j].seen
  BY <1>1 DEF Session
<1>. HIDE DEF s
<1>4. Evaluate(j, k, s)
  BY <1>2 DEF s
<1>. QED
  BY <1>1, <1>3, <1>4, EvaluateStep

LEMMA JobStepInv ==
  ASSUME SessionsInv, NEW j \in Jobs, JobStep(j)
  PROVE  SessionsInv' /\ ClosedStep
<1>0. j \in Actors
  BY DEF Actors
<1>1. CASE JobEnd(j)
  <2>1. Goto(j, Idle) /\ row' = row
    BY <1>1 DEF JobEnd
  <2>. QED
    BY <1>0, <2>1, IdleIsSafe, SessionStep
<1>. QED
  BY <1>0, <1>1, JobStartStep, JobPositionStep, JobRankStep, JobCandidateStep,
     HandleStep DEF JobStep

-----------------------------------------------------------------------------
LEMMA InitInv == Init => SessionsInv
<1>. SUFFICES ASSUME Init
              PROVE  SessionsInv
  OBVIOUS
<1>1. row \in [Ids -> Row] /\ session \in [Actors -> Session]
  BY IdleSession DEF Init
<1>2. OpenIds = {} /\ Approved = {} /\ EnteringActors = {}
  BY IdleSession DEF Init, OpenIds, NoRow, Approved, EnteringActors, Entering
<1>3. EntriesBounded
  <2>1. Cardinality(OpenIds) = 0 /\ Cardinality(Approved) = 0
    BY <1>2, FS_EmptySet
  <2>. QED
    BY <2>1, FiniteActors, SessionsAssumption DEF EntriesBounded, SessionsAssumption
<1>4. KeysSuffice
  <2>1. Cardinality(EnteringActors) = 0
    BY <1>2, FS_EmptySet
  <2>. QED
    BY <2>1, FiniteRows DEF KeysSuffice
<1>5. SeenExist
  BY IdleSession DEF Init, SeenExist
<1>. QED
  BY <1>1, <1>3, <1>4, <1>5 DEF SessionsInv

LEMMA StepInv ==
  ASSUME SessionsInv, [Next]_vars
  PROVE  SessionsInv' /\ [ClosedStep]_vars
<1>1. CASE UNCHANGED vars
  <2>1. row' = row /\ session' = session
    BY <1>1 DEF vars
  <2>2. OpenIds' = OpenIds /\ FreeIds' = FreeIds /\ Approved' = Approved
        /\ EnteringActors' = EnteringActors
    BY <2>1 DEF OpenIds, FreeIds, Approved, EnteringActors, Entering
  <2>. QED
    BY <1>1, <2>1, <2>2 DEF SessionsInv, EntriesBounded, KeysSuffice, SeenExist
<1>2. CASE Next
  BY <1>2, RequestStepInv, JobStepInv DEF Next
<1>. QED
  BY <1>1, <1>2

LEMMA SessionsInvHolds == Spec => []SessionsInv
BY InitInv, StepInv, PTL DEF Spec

-----------------------------------------------------------------------------
\* However many sessions evaluate_entry lets through on the same count of open
\* positions, the limit is overrun by at most one position per session beyond
\* the first.
THEOREM OverrunTheorem == Spec => []OverrunBounded
<1>1. SessionsInv => OverrunBounded
  BY FiniteActors, FiniteRows, SessionsAssumption
     DEF SessionsInv, EntriesBounded, OverrunBounded, SessionsAssumption
<1>. QED
  BY <1>1, SessionsInvHolds, PTL

\* close_position writes what it computed from the row its session loaded, yet
\* no interleaving reopens a closed row or moves a row to another key.
THEOREM ClosedStaysTheorem == Spec => ClosedStaysClosed
<1>1. SessionsInv /\ [Next]_vars => [ClosedStep]_vars
  BY StepInv
<1>2. [ClosedStep]_vars <=>
        [\A p \in Ids :
           /\ row[p].status = "CLOSED" => row'[p].status = "CLOSED"
           /\ row[p].status # "NONE" => row'[p].key = row[p].key]_vars
  BY DEF ClosedStep
<1>. QED
  BY <1>1, <1>2, SessionsInvHolds, PTL DEF Spec, ClosedStaysClosed

-----------------------------------------------------------------------------
(***************************************************************************)
(* The strategy evaluator: which bars the orders of a symbol may use.  The *)
(* rows of a symbol are written in order, an entry lies between every two  *)
(* closes, and the frame a signal is read from ends at the bar that forms. *)
(***************************************************************************)

Position == [quantity : Nat, side : {"LONG", "SHORT"}, entry : Int]

OrderRow ==
  [kind : {"entry", "exit", "rejected"},
   reason : {"signal", "risk", "manual_exit", "liquidation", "stop_loss",
             "take_profit", "strategy_exit"},
   at : Nat, bar : Int, side : {"LONG", "SHORT"}, entry : Int, closed : BOOLEAN]

Exit(o) == o.kind = "exit" /\ ByStrategy(o)

\* The frame shows no candle from after the one that is forming, and all those
\* before it are complete.
OnTime ==
  /\ OpensAt(Len(candles)) <= now /\ now < ClosesAt(Len(candles))
  /\ newest <= Len(candles)

\* Order rows lie in the past, in the order they were written, and those of
\* the strategy point to completed candles.
RowsInOrder ==
  /\ \A i \in 1 .. Len(orders) :
       /\ orders[i].at <= now
       /\ ByStrategy(orders[i]) =>
            orders[i].bar >= 0 /\ orders[i].bar < Len(candles)
  /\ \A i, k \in 1 .. Len(orders) : i < k => orders[i].at <= orders[k].at

\* A position is entered before it is closed: between two closes, and since the
\* last one if a position is open, there is an entry.
EnteredSince(i, upto) ==
  \E k \in 1 .. upto : i < k /\ orders[k].kind = "entry"

EntriesBetween ==
  /\ \A i, k \in 1 .. Len(orders) :
       i < k /\ orders[i].closed /\ orders[k].closed => EnteredSince(i, k - 1)
  /\ IsOpen => \A i \in 1 .. Len(orders) :
                 orders[i].closed => EnteredSince(i, Len(orders))

EvaluatorTyped ==
  /\ now \in Nat
  /\ candles \in Seq(Candles)
  /\ newest \in Int
  /\ position \in Position
  /\ orders \in Seq(OrderRow)

EvaluatorInv ==
  /\ EvaluatorTyped
  /\ OnTime
  /\ RowsInOrder
  /\ EntriesBetween
  /\ OrdersUseLaterBars
  /\ ReentryCoolsDown
  /\ WorstLevelFirst

-----------------------------------------------------------------------------
\* Time and candles.

LEMMA BarBounds ==
  ASSUME NEW b \in Int, NEW c \in Int
  PROVE  /\ OpensAt(b) \in Int /\ ClosesAt(b) = OpensAt(b + 1)
         /\ b <= c <=> OpensAt(b) <= OpensAt(c)
         /\ b < c <=> OpensAt(b) < OpensAt(c)
<1>1. BarTicks \in Nat /\ BarTicks > 0
  BY EvaluatorAssumption DEF EvaluatorAssumption
<1>2. \A x, y \in Int : x < y => x * BarTicks + BarTicks <= y * BarTicks
  <2>. SUFFICES ASSUME NEW x \in Int, NEW y \in Int, x < y
                PROVE  x * BarTicks + BarTicks <= y * BarTicks
    OBVIOUS
  <2>1. PICK d \in Nat : y = x + 1 + d
    <3>1. y - x - 1 \in Nat /\ y = x + 1 + (y - x - 1)
      OBVIOUS
    <3>. QED
      BY <3>1
  <2>2. y * BarTicks = x * BarTicks + BarTicks + d * BarTicks
    BY <1>1, <2>1
  <2>3. d * BarTicks \in Nat /\ x * BarTicks \in Int
    BY <1>1, <2>1
  <2>. QED
    BY <1>1, <2>2, <2>3
<1>3. b * BarTicks \in Int /\ c * BarTicks \in Int
  BY <1>1
<1>4. b < c \/ b = c \/ c < b
  OBVIOUS
<1>5. (b < c => b * BarTicks < c * BarTicks) /\ (c < b => c * BarTicks < b * BarTicks)
  BY <1>1, <1>2, <1>3
<1>. QED
  BY <1>1, <1>3, <1>4, <1>5 DEF OpensAt, ClosesAt

LEMMA BarsFollow ==
  \A b \in Int : OpensAt(b) \in Int /\ ClosesAt(b) = OpensAt(b + 1)
BY BarBounds

LEMMA RowsTyped ==
  ASSUME EvaluatorTyped
  PROVE  /\ Len(orders) \in Nat
         /\ \A i \in 1 .. Len(orders) :
              orders[i] \in OrderRow /\ orders[i].at \in Nat /\ orders[i].bar \in Int
<1>1. orders \in Seq(OrderRow)
  BY DEF EvaluatorTyped
<1>2. Len(orders) \in Nat /\ \A i \in 1 .. Len(orders) : orders[i] \in OrderRow
  BY <1>1
<1>3. \A o \in OrderRow : o.at \in Nat /\ o.bar \in Int
  BY DEF OrderRow
<1>. QED
  BY <1>2, <1>3

\* The candle evaluate_strategy looks at is complete, in the frame and on record.
LEMMA SelectedIsComplete ==
  ASSUME EvaluatorTyped, OnTime, SelectedBar >= 0
  PROVE  /\ SelectedBar \in Nat /\ SelectedBar < Len(candles)
         /\ ClosesAt(SelectedBar) <= now
         /\ Candle(SelectedBar) \in Candles
<1>. DEFINE b == SelectedBar
<1>1. newest \in Int /\ now \in Int /\ Len(candles) \in Nat
  BY DEF EvaluatorTyped
<1>2. b \in Int /\ b >= 0
  BY <1>1 DEF SelectedBar
<1>3. ClosesAt(b) <= now
  <2>1. CASE newest >= 0 /\ ClosesAt(newest) <= now
    BY <2>1 DEF SelectedBar
  <2>2. CASE ~(newest >= 0 /\ ClosesAt(newest) <= now)
    <3>1. newest >= 1 /\ b = newest - 1
      BY <2>2 DEF SelectedBar
    <3>2. ClosesAt(b) = OpensAt(newest) /\ OpensAt(newest) \in Int
      <4>1. b + 1 = newest
        BY <1>1, <3>1
      <4>. QED
        BY <1>1, <1>2, <4>1, BarsFollow
    <3>3. OpensAt(newest) <= OpensAt(Len(candles)) /\ OpensAt(Len(candles)) \in Int
      BY <1>1, BarBounds DEF OnTime
    <3>. QED
      BY <1>1, <3>2, <3>3 DEF OnTime
  <2>. QED
    BY <2>1, <2>2
<1>4. b < Len(candles)
  <2>1. OpensAt(b + 1) < OpensAt(Len(candles) + 1)
    <3>1. /\ OpensAt(b + 1) = ClosesAt(b)
          /\ OpensAt(Len(candles) + 1) = ClosesAt(Len(candles))
          /\ OpensAt(b + 1) \in Int /\ OpensAt(Len(candles) + 1) \in Int
      <4>1. Len(candles) \in Int /\ b + 1 \in Int /\ Len(candles) + 1 \in Int
        BY <1>1, <1>2
      <4>. QED
        BY <1>2, <4>1, BarsFollow
    <3>. QED
      BY <1>1, <1>3, <3>1 DEF OnTime
  <2>2. b + 1 < Len(candles) + 1
    BY <1>1, <1>2, <2>1, BarBounds
  <2>. QED
    BY <1>1, <1>2, <2>2
<1>5. Candle(b) \in Candles
  BY <1>1, <1>2, <1>4 DEF Candle, EvaluatorTyped
<1>. QED
  BY <1>2, <1>3, <1>4, <1>5

\* The latest close is one, and the last of them.
LEMMA LatestCloseIsLast ==
  ASSUME orders \in Seq(OrderRow), NEW i \in 1 .. Len(orders), orders[i].closed
  PROVE  /\ LatestClose \in 1 .. Len(orders)
         /\ orders[LatestClose].closed
         /\ i <= LatestClose
<1>. DEFINE closes == {k \in 1 .. Len(orders) : orders[k].closed}
<1>1. Len(orders) \in Nat /\ i \in closes
  OBVIOUS
<1>2. IsFiniteSet(closes)
  <2>1. IsFiniteSet(1 .. Len(orders)) /\ closes \in SUBSET (1 .. Len(orders))
    BY <1>1, FS_Interval
  <2>. QED
    BY <2>1, FS_Subset
<1>3. \E m \in closes : \A x \in closes : x <= m
  <2>. DEFINE f == [x \in closes |-> x]
  <2>1. \A x \in closes : f[x] \in Int
    OBVIOUS
  <2>2. \E m \in closes : \A x \in closes : f[x] <= f[m]
    <3>. HIDE DEF f, closes
    <3>. QED
      BY <1>1, <1>2, <2>1, LargestExists
  <2>. QED
    BY <2>2
<1>4. LatestClose = CHOOSE m \in closes : \A x \in closes : x <= m
  BY <1>1 DEF LatestClose
<1>5. LatestClose \in closes /\ \A x \in closes : x <= LatestClose
  BY <1>3, <1>4
<1>. QED
  BY <1>1, <1>5

-----------------------------------------------------------------------------
LEMMA EvaluatorInitInv == EvaluatorInit => EvaluatorInv
<1>. SUFFICES ASSUME EvaluatorInit PROVE EvaluatorInv
  OBVIOUS
<1>1. /\ BarTicks \in Nat /\ BarTicks > 0
  BY EvaluatorAssumption DEF EvaluatorAssumption
<1>2. Len(orders) = 0 /\ Len(candles) = 0
  BY DEF EvaluatorInit
<1>3. EvaluatorTyped
  BY DEF EvaluatorInit, EvaluatorTyped, NoPosition, Position
<1>4. OnTime
  BY <1>1, <1>2 DEF EvaluatorInit, OnTime, OpensAt, ClosesAt
<1>5. 1 .. Len(orders) = {}
  BY <1>2
<1>. QED
  BY <1>3, <1>4, <1>5
     DEF EvaluatorInv, RowsInOrder, EntriesBetween, OrdersUseLaterBars,
         ReentryCoolsDown, WorstLevelFirst

\* Candles that complete do not change those the order rows point to.
LEMMA TimePasses ==
  ASSUME EvaluatorInv, UNCHANGED <<position, orders>>,
         now' \in Nat, now' >= now, newest' \in Int,
         candles' \in Seq(Candles), Len(candles') >= Len(candles),
         \A b \in 1 .. Len(candles) : candles'[b] = candles[b],
         OnTime'
  PROVE  EvaluatorInv'
<1>1. Len(orders) \in Nat /\ Len(candles) \in Nat /\ Len(candles') \in Nat
  BY DEF EvaluatorInv, EvaluatorTyped
<1>2. EvaluatorTyped'
  BY DEF EvaluatorInv, EvaluatorTyped
<1>3. RowsInOrder'
  <2>1. \A i \in 1 .. Len(orders) : orders[i].at \in Nat /\ orders[i].bar \in Int
    BY RowsTyped DEF EvaluatorInv
  <2>2. now \in Nat
    BY DEF EvaluatorInv, EvaluatorTyped
  <2>. QED
    BY <1>1, <2>1, <2>2 DEF EvaluatorInv, RowsInOrder, ByStrategy
<1>4. EntriesBetween'
  BY DEF EvaluatorInv, EntriesBetween, EnteredSince, IsOpen
<1>5. OrdersUseLaterBars' /\ ReentryCoolsDown'
  BY DEF EvaluatorInv, OrdersUseLaterBars, ReentryCoolsDown, ByStrategy, OpensAt,
         ClosesAt
<1>6. WorstLevelFirst'
  <2>. SUFFICES ASSUME NEW i \in 1 .. Len(orders), Exit(orders[i])
                PROVE  LET o == orders[i]
                           c == Candle(o.bar)'
                       IN /\ o.reason \in {"take_profit", "strategy_exit"} =>
                               ~Stopped(c, o.side, o.entry)
                          /\ o.reason # "liquidation" =>
                               ~Liquidated(c, o.side, o.entry)
    BY DEF WorstLevelFirst, Exit, ByStrategy, Candle, Stopped, Liquidated, Against
  <2>1. /\ orders[i].bar \in Int /\ orders[i].bar >= 0
        /\ orders[i].bar < Len(candles)
    BY RowsTyped DEF EvaluatorInv, RowsInOrder, Exit
  <2>2. Candle(orders[i].bar)' = Candle(orders[i].bar)
    <3>1. orders[i].bar + 1 \in 1 .. Len(candles)
      BY <1>1, <2>1
    <3>. QED
      BY <3>1 DEF Candle
  <2>. QED
    BY <2>2 DEF EvaluatorInv, WorstLevelFirst, Exit
<1>. QED
  BY <1>2, <1>3, <1>4, <1>5, <1>6 DEF EvaluatorInv

\* Why an order row may be written: `o' is of this candle, enters only when the
\* cooldown is over, closes only what is open, and exits at the worst level.
Justified(o) ==
  /\ o \in OrderRow /\ o.at = now
  /\ ByStrategy(o) =>
       o.bar = SelectedBar /\ SelectedBar >= 0 /\ ~AlreadyProcessed(SelectedBar)
  /\ o.kind = "entry" => ~CoolingDown
  /\ o.closed => IsOpen
  /\ IsOpen' => ~o.closed /\ (IsOpen \/ o.kind = "entry")
  /\ Exit(o) =>
       /\ o.reason \in {"take_profit", "strategy_exit"} =>
            ~Stopped(Candle(o.bar), o.side, o.entry)
       /\ o.reason # "liquidation" => ~Liquidated(Candle(o.bar), o.side, o.entry)

Recorded(o) ==
  /\ UNCHANGED <<now, candles, newest>>
  /\ position' \in Position
  /\ orders' = Append(orders, o)

LEMMA RowAppended ==
  ASSUME EvaluatorTyped, NEW o \in OrderRow, Recorded(o)
  PROVE  /\ orders' \in Seq(OrderRow)
         /\ Len(orders') = Len(orders) + 1
         /\ orders'[Len(orders) + 1] = o
         /\ \A i \in 1 .. Len(orders) :
              i \in 1 .. Len(orders') /\ orders'[i] = orders[i]
         /\ \A i \in 1 .. Len(orders') :
              i = Len(orders) + 1 \/ i \in 1 .. Len(orders)
BY DEF EvaluatorTyped, Recorded

\* No order of the table is as young as a candle not yet acted upon.
LEMMA AllBefore ==
  ASSUME EvaluatorInv, SelectedBar >= 0, ~AlreadyProcessed(SelectedBar)
  PROVE  \A i \in 1 .. Len(orders) : orders[i].at < OpensAt(SelectedBar)
<1>. SUFFICES ASSUME NEW i \in 1 .. Len(orders)
              PROVE  orders[i].at < OpensAt(SelectedBar)
  OBVIOUS
<1>1. /\ Len(orders) \in Nat /\ orders[i].at \in Nat
      /\ Len(orders) \in 1 .. Len(orders) /\ orders[Len(orders)].at \in Nat
  BY RowsTyped DEF EvaluatorInv
<1>2. SelectedBar \in Nat /\ OpensAt(SelectedBar) \in Int
  BY SelectedIsComplete, BarsFollow DEF EvaluatorInv
<1>3. orders # <<>>
  BY <1>1
<1>4. orders[Len(orders)].at < OpensAt(SelectedBar)
  BY <1>1, <1>2, <1>3 DEF AlreadyProcessed
<1>5. i < Len(orders) => orders[i].at <= orders[Len(orders)].at
  BY <1>1 DEF EvaluatorInv, RowsInOrder
<1>. QED
  BY <1>1, <1>2, <1>4, <1>5

\* What the cooldown says of an entry made now holds of every earlier exit.
LEMMA CooledDown ==
  ASSUME EvaluatorInv, ~CoolingDown,
         NEW i \in 1 .. Len(orders), orders[i].closed, ByStrategy(orders[i])
  PROVE  now >= orders[i].at + LongerOf(CooldownTicks, BarTicks)
<1>. DEFINE l == LatestClose
            pause == LongerOf(CooldownTicks, BarTicks)
<1>1. orders \in Seq(OrderRow) /\ now \in Nat
  BY DEF EvaluatorInv, EvaluatorTyped
<1>2. l \in 1 .. Len(orders) /\ orders[l].closed /\ i <= l
  BY <1>1, LatestCloseIsLast
<1>3. orders[i].at \in Nat /\ orders[l].at \in Nat
  BY <1>2, RowsTyped DEF EvaluatorInv
<1>4. pause \in Nat
  BY EvaluatorAssumption DEF EvaluatorAssumption, LongerOf
<1>5. CASE i = l
  BY <1>1, <1>2, <1>3, <1>4, <1>5 DEF CoolingDown, ByStrategy
<1>6. CASE i < l
  <2>1. PICK k \in 1 .. (l - 1) : i < k /\ orders[k].kind = "entry"
    BY <1>2, <1>6 DEF EvaluatorInv, EntriesBetween, EnteredSince
  <2>2. k \in 1 .. Len(orders) /\ orders[k].at <= now
    BY <1>2, <2>1 DEF EvaluatorInv, RowsInOrder
  <2>3. orders[k].at >= orders[i].at + pause
    BY <2>1, <2>2 DEF EvaluatorInv, ReentryCoolsDown
  <2>4. orders[k].at \in Nat
    BY <2>2, RowsTyped DEF EvaluatorInv
  <2>. HIDE DEF pause
  <2>. QED
    BY <1>1, <1>3, <1>4, <2>2, <2>3, <2>4 DEF pause
<1>. QED
  BY <1>2, <1>5, <1>6

LEMMA RecordedKeeps ==
  ASSUME EvaluatorInv, NEW o, Justified(o), Recorded(o)
  PROVE  EvaluatorInv'
<1>n. PICK n \in Nat : n = Len(orders)
  BY RowsTyped DEF EvaluatorInv
<1>1. /\ EvaluatorTyped /\ OnTime /\ RowsInOrder /\ EntriesBetween
      /\ OrdersUseLaterBars /\ ReentryCoolsDown /\ WorstLevelFirst
      /\ o \in OrderRow /\ o.at = now
      /\ now' = now /\ candles' = candles /\ newest' = newest
  BY DEF EvaluatorInv, Justified, Recorded
<1>2. /\ n \in Nat /\ orders' \in Seq(OrderRow)
      /\ n = Len(orders) /\ Len(orders') = n + 1 /\ orders'[n + 1] = o
      /\ \A i \in 1 .. n : i \in 1 .. (n + 1) /\ orders'[i] = orders[i]
      /\ \A i \in 1 .. (n + 1) : i = n + 1 \/ i \in 1 .. n
  BY <1>n, <1>1, RowAppended
<1>3. EvaluatorTyped'
  BY <1>1, <1>2 DEF EvaluatorTyped, Recorded
<1>4. OnTime'
  BY <1>1 DEF OnTime, OpensAt, ClosesAt
<1>5. RowsInOrder'
  <2>1. ByStrategy(o) => o.bar >= 0 /\ o.bar < Len(candles)
    BY <1>1, SelectedIsComplete DEF Justified
  <2>2. now \in Nat
    BY <1>1 DEF EvaluatorTyped
  <2>3. \A i \in 1 .. (n + 1) :
          /\ orders'[i].at <= now
          /\ ByStrategy(orders'[i]) =>
               orders'[i].bar >= 0 /\ orders'[i].bar < Len(candles)
    BY <1>1, <1>2, <2>1, <2>2 DEF RowsInOrder
  <2>4. \A i, k \in 1 .. (n + 1) : i < k => orders'[i].at <= orders'[k].at
    BY <1>1, <1>2 DEF RowsInOrder
  <2>. QED
    BY <1>1, <1>2, <2>3, <2>4 DEF RowsInOrder, ByStrategy
<1>6. EntriesBetween'
  <2>1. ASSUME NEW i \in 1 .. n, NEW k \in Nat, k <= n, EnteredSince(i, k)
        PROVE  EnteredSince(i, k)' /\ EnteredSince(i, n + 1)'
    <3>1. PICK e \in 1 .. k : i < e /\ orders[e].kind = "entry"
      BY <2>1 DEF EnteredSince
    <3>2. e \in 1 .. n /\ e \in 1 .. (n + 1) /\ orders'[e].kind = "entry"
      BY <1>2, <2>1, <3>1
    <3>3. EnteredSince(i, k)'
      BY <3>1, <3>2 DEF EnteredSince
    <3>4. EnteredSince(i, n + 1)'
      BY <3>1, <3>2 DEF EnteredSince
    <3>. QED
      BY <3>3, <3>4
  <2>2. ASSUME NEW i \in 1 .. (n + 1), NEW k \in 1 .. (n + 1), i < k,
               orders'[i].closed, orders'[k].closed
        PROVE  EnteredSince(i, k - 1)'
    <3>1. i \in 1 .. n /\ orders[i].closed
      BY <1>2, <2>2
    <3>2. CASE k \in 1 .. n
      <4>1. orders[k].closed
        BY <1>2, <2>2, <3>2
      <4>2. EnteredSince(i, k - 1)
        BY <1>1, <1>2, <2>2, <3>1, <3>2, <4>1 DEF EntriesBetween
      <4>3. k - 1 \in Nat /\ k - 1 <= n
        BY <1>2, <3>2
      <4>. QED
        BY <2>1, <3>1, <4>2, <4>3
    <3>3. CASE k = n + 1
      <4>1. IsOpen
        BY <1>2, <2>2, <3>3 DEF Justified
      <4>2. EnteredSince(i, n)
        BY <1>1, <1>2, <3>1, <4>1 DEF EntriesBetween
      <4>3. k - 1 = n /\ n <= n
        BY <1>2, <3>3
      <4>. QED
        BY <1>2, <2>1, <3>1, <4>2, <4>3
    <3>. QED
      BY <1>2, <3>2, <3>3
  <2>3. ASSUME IsOpen', NEW i \in 1 .. (n + 1), orders'[i].closed
        PROVE  EnteredSince(i, n + 1)'
    <3>1. ~o.closed /\ (IsOpen \/ o.kind = "entry")
      BY <2>3 DEF Justified
    <3>2. i \in 1 .. n /\ orders[i].closed
      BY <1>2, <2>3, <3>1
    <3>3. CASE IsOpen
      BY <1>1, <1>2, <2>1, <3>2, <3>3 DEF EntriesBetween
    <3>4. CASE o.kind = "entry"
      BY <1>2, <3>2, <3>4 DEF EnteredSince
    <3>. QED
      BY <3>1, <3>3, <3>4
  <2>4. \A i, k \in 1 .. Len(orders') :
          i < k /\ orders'[i].closed /\ orders'[k].closed => EnteredSince(i, k - 1)'
    BY <1>2, <2>2
  <2>5. IsOpen' => \A i \in 1 .. Len(orders') :
                     orders'[i].closed => EnteredSince(i, Len(orders))'
    <3>. SUFFICES ASSUME IsOpen', NEW i \in 1 .. (n + 1), orders'[i].closed
                  PROVE  EnteredSince(i, Len(orders))'
      BY <1>2
    <3>1. EnteredSince(i, n + 1)'
      BY <2>3
    <3>. QED
      BY <1>2, <3>1 DEF EnteredSince
  <2>. QED
    BY <2>4, <2>5 DEF EntriesBetween
<1>7. OrdersUseLaterBars'
  <2>1. ByStrategy(o) =>
          /\ ClosesAt(o.bar) <= o.at
          /\ \A k \in 1 .. n : orders[k].at < OpensAt(o.bar)
    BY <1>1, <1>2, SelectedIsComplete, AllBefore DEF Justified
  <2>2. ASSUME NEW i \in 1 .. (n + 1), ByStrategy(orders'[i])
        PROVE  /\ ClosesAt(orders'[i].bar) <= orders'[i].at
               /\ \A k \in 1 .. (i - 1) : orders'[k].at < OpensAt(orders'[i].bar)
    <3>1. CASE i = n + 1
      <4>1. 1 .. (i - 1) = 1 .. n
        BY <1>2, <3>1
      <4>. QED
        BY <1>2, <2>1, <2>2, <3>1, <4>1
    <3>2. CASE i \in 1 .. n
      <4>1. \A k \in 1 .. (i - 1) : k \in 1 .. n
        BY <1>2, <3>2
      <4>. QED
        BY <1>1, <1>2, <2>2, <3>2, <4>1 DEF OrdersUseLaterBars
    <3>. QED
      BY <1>2, <3>1, <3>2
  <2>. QED
    BY <1>1, <1>2, <2>2 DEF OrdersUseLaterBars, ByStrategy, ClosesAt, OpensAt
<1>8. ReentryCoolsDown'
  <2>. DEFINE pause == LongerOf(CooldownTicks, BarTicks)
  <2>1. ASSUME NEW i \in 1 .. (n + 1), NEW k \in 1 .. (n + 1), i < k,
               orders'[i].closed, ByStrategy(orders'[i]), orders'[k].kind = "entry"
        PROVE  orders'[k].at >= orders'[i].at + pause
    <3>. HIDE DEF pause
    <3>1. i \in 1 .. n /\ orders'[i] = orders[i]
      BY <1>2, <2>1
    <3>2. CASE k \in 1 .. n
      BY <1>1, <1>2, <2>1, <3>1, <3>2 DEF ReentryCoolsDown, pause
    <3>3. CASE k = n + 1
      <4>1. ~CoolingDown /\ orders'[k].at = now
        BY <1>1, <1>2, <2>1, <3>3 DEF Justified
      <4>. QED
        BY <1>2, <2>1, <3>1, <4>1, CooledDown DEF pause
    <3>. QED
      BY <1>2, <3>2, <3>3
  <2>. QED
    BY <1>2, <2>1 DEF ReentryCoolsDown, ByStrategy
<1>9. WorstLevelFirst'
  <2>1. ASSUME NEW i \in 1 .. (n + 1), Exit(orders'[i])
        PROVE  LET x == orders'[i]
                   c == Candle(x.bar)
               IN /\ x.reason \in {"take_profit", "strategy_exit"} =>
                       ~Stopped(c, x.side, x.entry)
                  /\ x.reason # "liquidation" => ~Liquidated(c, x.side, x.entry)
    <3>1. CASE i = n + 1
      BY <1>2, <2>1, <3>1 DEF Justified
    <3>2. CASE i \in 1 .. n
      BY <1>1, <1>2, <2>1, <3>2 DEF WorstLevelFirst, Exit
    <3>. QED
      BY <1>2, <3>1, <3>2
  <2>. QED
    BY <1>1, <1>2, <2>1
       DEF WorstLevelFirst, Exit, ByStrategy, Candle, Stopped, Liquidated, Against
<1>. QED
  BY <1>3, <1>4, <1>5, <1>6, <1>7, <1>8, <1>9 DEF EvaluatorInv

\* An order row of close_position leaves the side and the entry price alone.
LEMMA CloseKeeps ==
  ASSUME EvaluatorInv, IsOpen, NEW reason, NEW b, Close(reason, b),
         UNCHANGED <<now, candles, newest>>,
         reason \in {"manual_exit", "liquidation", "stop_loss", "take_profit",
                     "strategy_exit"},
         b \in Int,
         reason # "manual_exit" =>
           /\ b = SelectedBar /\ SelectedBar >= 0 /\ ~AlreadyProcessed(SelectedBar)
           /\ reason = ExitReason(Candle(b), position.side, position.entry)
  PROVE  EvaluatorInv'
<1>1. PICK rest \in 0 .. position.quantity :
        /\ position' = [position EXCEPT !.quantity = rest]
        /\ orders' = Record("exit", reason, b, rest = 0)
  BY DEF Close
<1>2. position \in Position /\ now \in Nat
  BY DEF EvaluatorInv, EvaluatorTyped
<1>3. /\ position' \in Position /\ position'.quantity = rest
      /\ position'.side = position.side /\ position'.entry = position.entry
      /\ rest \in Nat
  BY <1>1, <1>2 DEF Position
<1>. DEFINE o == [kind |-> "exit", reason |-> reason, at |-> now, bar |-> b,
                  side |-> position'.side, entry |-> position'.entry,
                  closed |-> (rest = 0)]
<1>4. Recorded(o)
  BY <1>1, <1>3 DEF Record, Recorded
<1>5. o \in OrderRow
  BY <1>2, <1>3 DEF OrderRow, Position
<1>6. /\ o.kind = "exit" /\ o.reason = reason /\ o.at = now /\ o.bar = b
      /\ o.side = position.side /\ o.entry = position.entry
      /\ rest # 0 => o.closed = FALSE
  BY <1>3
<1>. HIDE DEF o
<1>7. Exit(o) =>
        /\ o.reason \in {"take_profit", "strategy_exit"} =>
             ~Stopped(Candle(o.bar), o.side, o.entry)
        /\ o.reason # "liquidation" => ~Liquidated(Candle(o.bar), o.side, o.entry)
  BY <1>6 DEF Exit, ByStrategy, ExitReason
<1>8. IsOpen' => o.closed = FALSE
  <2>1. IsOpen' => rest # 0
    BY <1>3 DEF IsOpen
  <2>. QED
    BY <1>6, <2>1
<1>9. ByStrategy(o) =>
        o.bar = SelectedBar /\ SelectedBar >= 0 /\ ~AlreadyProcessed(SelectedBar)
  BY <1>6 DEF ByStrategy
<1>10. Justified(o)
  BY <1>5, <1>6, <1>7, <1>8, <1>9 DEF Justified
<1>. QED
  BY <1>4, <1>10, RecordedKeeps

\* An entry, or its rejection by the risk checks.
LEMMA EntryKeeps ==
  ASSUME EvaluatorInv, ~IsOpen, ~CoolingDown,
         SelectedBar >= 0, ~AlreadyProcessed(SelectedBar),
         UNCHANGED <<now, candles, newest>>,
         NEW kind, NEW reason,
         \/ kind = "entry" /\ reason = "signal"
         \/ kind = "rejected" /\ reason = "risk" /\ UNCHANGED position,
         position' \in Position,
         orders' = Record(kind, reason, SelectedBar, FALSE)
  PROVE  EvaluatorInv'
<1>1. now \in Nat /\ SelectedBar \in Nat
  BY SelectedIsComplete DEF EvaluatorInv, EvaluatorTyped
<1>. DEFINE o == [kind |-> kind, reason |-> reason, at |-> now, bar |-> SelectedBar,
                  side |-> position'.side, entry |-> position'.entry,
                  closed |-> FALSE]
<1>2. Recorded(o)
  BY DEF Record, Recorded
<1>3. o \in OrderRow
  BY <1>1 DEF OrderRow, Position
<1>4. /\ o.kind = kind /\ o.reason = reason /\ o.at = now /\ o.bar = SelectedBar
      /\ o.closed = FALSE
  OBVIOUS
<1>. HIDE DEF o
<1>5. IsOpen' => o.kind = "entry"
  BY <1>4 DEF IsOpen
<1>6. Justified(o)
  BY <1>3, <1>4, <1>5 DEF Justified, Exit
<1>. QED
  BY <1>2, <1>6, RecordedKeeps

\* The candle that is forming follows the last complete one.
LEMMA NewestIsForming ==
  ASSUME EvaluatorInv
  PROVE  now \div BarTicks \in Int /\ now \div BarTicks <= Len(candles)
<1>. DEFINE q == now \div BarTicks
            n == Len(candles)
<1>1. /\ BarTicks \in Nat /\ BarTicks > 0 /\ now \in Nat /\ n \in Nat
  BY EvaluatorAssumption DEF EvaluatorAssumption, EvaluatorInv, EvaluatorTyped
<1>2. q \in Int /\ q * BarTicks <= now
  BY <1>1
<1>3. OpensAt(q) < OpensAt(n + 1) /\ n + 1 \in Int
  BY <1>1, <1>2 DEF EvaluatorInv, OnTime, OpensAt, ClosesAt
<1>4. q < n + 1
  BY <1>2, <1>3, BarBounds
<1>. QED
  BY <1>1, <1>2, <1>4

LEMMA TickKeeps ==
  ASSUME EvaluatorInv, Tick
  PROVE  EvaluatorInv'
<1>. DEFINE n == Len(candles)
<1>1. /\ BarTicks \in Nat /\ BarTicks > 0 /\ now \in Nat /\ n \in Nat
      /\ candles \in Seq(Candles) /\ newest \in Int /\ newest <= n
      /\ n * BarTicks \in Int /\ (n + 1) * BarTicks \in Int
      /\ (n + 2) * BarTicks = (n + 1) * BarTicks + BarTicks
      /\ n * BarTicks <= now /\ now < (n + 1) * BarTicks
  BY EvaluatorAssumption
     DEF EvaluatorAssumption, EvaluatorInv, EvaluatorTyped, OnTime, OpensAt, ClosesAt
<1>2. now' = now + 1 /\ UNCHANGED <<newest, position, orders>>
  BY DEF Tick
<1>3. CASE now' % BarTicks = 0
  <2>1. PICK c \in Candles : candles' = Append(candles, c)
    BY <1>3 DEF Tick
  <2>2. /\ candles' \in Seq(Candles) /\ Len(candles') = n + 1
        /\ \A b \in 1 .. n : candles'[b] = candles[b]
    BY <1>1, <2>1
  <2>3. (n + 1) * BarTicks <= now'
    <3>. DEFINE q == now' \div BarTicks
    <3>1. q \in Int /\ now' = q * BarTicks
      BY <1>1, <1>2, <1>3
    <3>2. OpensAt(n) < OpensAt(q) /\ n \in Int
      BY <1>1, <1>2, <3>1 DEF OpensAt
    <3>3. n + 1 <= q /\ n + 1 \in Int
      BY <3>1, <3>2, BarBounds
    <3>4. OpensAt(n + 1) <= OpensAt(q)
      BY <3>1, <3>3, BarBounds
    <3>. QED
      BY <3>1, <3>4 DEF OpensAt
  <2>4. OnTime'
    <3>1. n + 1 + 1 = n + 2
      BY <1>1
    <3>2. now' < (n + 2) * BarTicks
      BY <1>1, <1>2
    <3>. QED
      BY <1>1, <1>2, <2>2, <2>3, <3>1, <3>2 DEF OnTime, OpensAt, ClosesAt
  <2>. QED
    BY <1>1, <1>2, <2>2, <2>4, TimePasses
<1>4. CASE now' % BarTicks # 0
  <2>1. UNCHANGED candles
    BY <1>4 DEF Tick
  <2>2. now' # (n + 1) * BarTicks
    <3>1. \A q \in Int : (q * BarTicks) % BarTicks = 0
      BY <1>1
    <3>. QED
      BY <1>1, <1>4, <3>1
  <2>3. OnTime'
    BY <1>1, <1>2, <2>1, <2>2 DEF OnTime, OpensAt, ClosesAt
  <2>. QED
    BY <1>1, <1>2, <2>1, <2>3, TimePasses
<1>. QED
  BY <1>3, <1>4

\* Every step of the evaluator keeps the invariant.
LEMMA EvaluatorStep ==
  ASSUME EvaluatorInv, [EvaluatorNext]_evaluatorVars
  PROVE  EvaluatorInv'
<1>1. CASE UNCHANGED evaluatorVars
  BY <1>1 DEF evaluatorVars, EvaluatorInv, EvaluatorTyped, OnTime, OpensAt, ClosesAt,
              RowsInOrder, EntriesBetween, EnteredSince, IsOpen, OrdersUseLaterBars,
              ReentryCoolsDown, WorstLevelFirst, ByStrategy, Candle, Stopped,
              Liquidated, Against
<1>2. ASSUME EvaluateStrategy PROVE EvaluatorInv'
  <2>1. UNCHANGED <<now, candles, newest>>
    BY <1>2 DEF EvaluateStrategy
  <2>2. ASSUME UNCHANGED <<position, orders>> PROVE EvaluatorInv'
    <3>1. UNCHANGED evaluatorVars
      BY <2>1, <2>2 DEF evaluatorVars
    <3>. QED
      BY <1>1, <3>1
  <2>3. ASSUME Wait PROVE EvaluatorInv'
    BY <2>2, <2>3 DEF Wait
  <2>4. ASSUME EvaluateOpen PROVE EvaluatorInv'
    <3>. DEFINE reason == ExitReason(Candle(SelectedBar), position.side, position.entry)
    <3>1. /\ SelectedBar >= 0 /\ ~AlreadyProcessed(SelectedBar) /\ IsOpen
          /\ \/ reason = "none" /\ UNCHANGED <<position, orders>>
             \/ reason # "none" /\ (Close(reason, SelectedBar) \/ Refused)
      BY <2>4 DEF EvaluateOpen
    <3>2. reason \in {"none", "liquidation", "stop_loss", "take_profit", "strategy_exit"}
      BY DEF ExitReason
    <3>3. SelectedBar \in Int
      BY <3>1, SelectedIsComplete DEF EvaluatorInv
    <3>. HIDE DEF reason
    <3>4. ASSUME reason # "none", Close(reason, SelectedBar) PROVE EvaluatorInv'
      BY <2>1, <3>1, <3>2, <3>3, <3>4, CloseKeeps DEF reason
    <3>. QED
      BY <2>2, <3>1, <3>4 DEF Refused
  <2>5. ASSUME EvaluateFlat PROVE EvaluatorInv'
    <3>. DEFINE c == Candle(SelectedBar)
    <3>1. /\ SelectedBar >= 0 /\ ~AlreadyProcessed(SelectedBar) /\ ~IsOpen
          /\ \/ UNCHANGED <<position, orders>>
             \/ /\ ~CoolingDown /\ c.entry # "NONE"
                /\ position' = [quantity |-> BoughtQuantity, side |-> c.entry,
                                entry |-> c.close]
                /\ orders' = Record("entry", "signal", SelectedBar, FALSE)
             \/ /\ ~CoolingDown /\ UNCHANGED position
                /\ orders' = Record("rejected", "risk", SelectedBar, FALSE)
      BY <2>5 DEF EvaluateFlat, Refused
    <3>2. c \in Candles
      BY <3>1, SelectedIsComplete DEF EvaluatorInv
    <3>3. ASSUME ~CoolingDown, c.entry # "NONE",
                 position' = [quantity |-> BoughtQuantity, side |-> c.entry,
                              entry |-> c.close],
                 orders' = Record("entry", "signal", SelectedBar, FALSE)
          PROVE  EvaluatorInv'
      <4>1. position' \in Position
        BY <3>2, <3>3, EvaluatorAssumption DEF EvaluatorAssumption, Position
      <4>. QED
        BY <2>1, <3>1, <3>3, <4>1, EntryKeeps
    <3>4. ASSUME ~CoolingDown, UNCHANGED position,
                 orders' = Record("rejected", "risk", SelectedBar, FALSE)
          PROVE  EvaluatorInv'
      <4>1. position' \in Position
        BY <3>4 DEF EvaluatorInv, EvaluatorTyped
      <4>. QED
        BY <2>1, <3>1, <3>4, <4>1, EntryKeeps
    <3>. HIDE DEF c
    <3>. QED
      BY <2>2, <3>1, <3>3, <3>4
  <2>. QED
    BY <1>2, <2>3, <2>4, <2>5 DEF EvaluateStrategy
<1>3. ASSUME ManualClose PROVE EvaluatorInv'
  BY <1>3, CloseKeeps DEF ManualClose
<1>4. ASSUME Refresh PROVE EvaluatorInv'
  <2>1. /\ newest' = now \div BarTicks
        /\ UNCHANGED <<now, candles, position, orders>>
    BY <1>4 DEF Refresh
  <2>2. now \in Nat /\ candles \in Seq(Candles) /\ Len(candles) \in Nat
    BY DEF EvaluatorInv, EvaluatorTyped
  <2>3. OnTime'
    BY <2>1, NewestIsForming DEF EvaluatorInv, OnTime, OpensAt, ClosesAt
  <2>. QED
    BY <2>1, <2>2, <2>3, NewestIsForming, TimePasses
<1>. QED
  BY <1>1, <1>2, <1>3, <1>4, TickKeeps DEF EvaluatorNext

\* Whatever the candles, levels and cooldown, the order rows of a symbol are in
\* order, an entry lies between any two closes of the strategy, and the frame it
\* reads ends at the forming candle.
THEOREM EvaluatorInvariant == EvaluatorSpec => []EvaluatorInv
BY EvaluatorInitInv, EvaluatorStep, PTL DEF EvaluatorSpec

\* However evaluations, refreshes and manual closes interleave with the candles,
\* the strategy acts once per candle, and only on one that opened after its
\* previous order and had completed (_bar_already_processed).
THEOREM LaterBarsTheorem == EvaluatorSpec => []OrdersUseLaterBars
<1>1. EvaluatorInv => OrdersUseLaterBars
  BY DEF EvaluatorInv
<1>. QED
  BY <1>1, EvaluatorInvariant, PTL

\* The cooldown holds after every exit of the strategy, not only after the one
\* that get_latest_closed_position returns.
THEOREM CooldownTheorem == EvaluatorSpec => []ReentryCoolsDown
<1>1. EvaluatorInv => ReentryCoolsDown
  BY DEF EvaluatorInv
<1>. QED
  BY <1>1, EvaluatorInvariant, PTL

\* No candle that reached the stop or the liquidation level is sold as a profit,
\* whatever the distances and the candles.
THEOREM WorstLevelTheorem == EvaluatorSpec => []WorstLevelFirst
<1>1. EvaluatorInv => WorstLevelFirst
  BY DEF EvaluatorInv
<1>. QED
  BY <1>1, EvaluatorInvariant, PTL

-----------------------------------------------------------------------------
(***************************************************************************)
(* The paper exchange: what it answers, at which price, and which of its   *)
(* orders can still be canceled.  The walk of a book is a fold over its levels,*)
(* first shown to take from each level what the earlier ones left to take. *)
(***************************************************************************)

Level == [price : Nat, size : Nat]

Fill == [remaining : Nat, filled : Nat, notional : Int]

\* The walk of a book as a function: what has been taken when some of its
\* levels have been looked at.
Walk(levels, quantity) ==
  LET iter[s \in SUBSET DOMAIN levels] ==
        IF s = {} THEN Nothing(quantity)
        ELSE LET x == Max(s) IN TakeLevel(iter[s \ {x}], levels[x])
  IN iter

LastOf(S) == [s \in SUBSET S |-> Max(s)]
TakesFrom(levels, S) == [x \in S |-> [v \in Fill |-> TakeLevel(v, levels[x])]]

LEMMA WalkIsFold ==
  ASSUME NEW levels, NEW quantity
  PROVE  WalkLevels(levels, quantity) = Walk(levels, quantity)[DOMAIN levels]
BY DEF WalkLevels, FoldLeft, MapThenFoldSet, Walk

LEMMA TakeLevelIsFill ==
  ASSUME NEW fill \in Fill, NEW level \in Level
  PROVE  LET take == Least(level.size, fill.remaining)
         IN /\ TakeLevel(fill, level) \in Fill
            /\ take \in Nat /\ take <= level.size /\ take <= fill.remaining
            /\ TakeLevel(fill, level).remaining = fill.remaining - take
            /\ TakeLevel(fill, level).filled = fill.filled + take
            /\ TakeLevel(fill, level).notional = fill.notional + take * level.price
<1>. DEFINE take == Least(level.size, fill.remaining)
<1>1. /\ level.size \in Nat /\ level.price \in Nat
      /\ fill.remaining \in Nat /\ fill.filled \in Nat /\ fill.notional \in Int
  BY DEF Level, Fill
<1>2. take \in Nat /\ take <= level.size /\ take <= fill.remaining
  BY <1>1 DEF Least
<1>3. take * level.price \in Int
  BY <1>1, <1>2
<1>. HIDE DEF take
<1>4. TakeLevel(fill, level) =
        [remaining |-> fill.remaining - take, filled |-> fill.filled + take,
         notional |-> fill.notional + take * level.price]
  BY DEF TakeLevel, take
<1>5. TakeLevel(fill, level) \in Fill
  BY <1>1, <1>2, <1>3, <1>4 DEF Fill
<1>. QED
  BY <1>2, <1>4, <1>5 DEF take

\* Levels are looked at in the order of the book.
LEMMA MaxOfInterval ==
  ASSUME NEW n \in Nat
  PROVE  /\ ChoosesFrom(LastOf(1 .. n), 1 .. n)
         /\ \A k \in 1 .. n : LastOf(1 .. n)[1 .. k] = k /\ (1 .. k) \ {k} = 1 .. (k - 1)
<1>1. ASSUME NEW s \in SUBSET (1 .. n), s # {}
      PROVE  \E m \in s : \A x \in s : x <= m
  <2>. DEFINE f == [x \in s |-> x]
  <2>1. IsFiniteSet(s)
    <3>1. IsFiniteSet(1 .. n)
      BY FS_Interval
    <3>. QED
      BY <3>1, FS_Subset
  <2>2. \A x \in s : f[x] \in Int
    OBVIOUS
  <2>3. \E m \in s : \A x \in s : f[x] <= f[m]
    <3>. HIDE DEF f
    <3>. QED
      BY <1>1, <2>1, <2>2, LargestExists
  <2>. QED
    BY <2>3
<1>2. \A s \in SUBSET (1 .. n) : s # {} => Max(s) \in s /\ \A x \in s : Max(s) >= x
  <2>. SUFFICES ASSUME NEW s \in SUBSET (1 .. n), s # {}
                PROVE  Max(s) \in s /\ \A x \in s : Max(s) >= x
    OBVIOUS
  <2>1. \E m \in s : \A x \in s : m >= x
    BY <1>1
  <2>. QED
    BY <2>1 DEF Max
<1>3. ChoosesFrom(LastOf(1 .. n), 1 .. n)
  BY <1>2 DEF ChoosesFrom, LastOf
<1>4. ASSUME NEW k \in 1 .. n
      PROVE  LastOf(1 .. n)[1 .. k] = k /\ (1 .. k) \ {k} = 1 .. (k - 1)
  <2>1. 1 .. k \in SUBSET (1 .. n) /\ k \in 1 .. k
    OBVIOUS
  <2>2. Max(1 .. k) \in 1 .. k /\ Max(1 .. k) >= k
    BY <1>2, <2>1
  <2>3. Max(1 .. k) = k
    BY <2>2
  <2>. QED
    BY <2>1, <2>3 DEF LastOf
<1>. QED
  BY <1>3, <1>4

LEMMA WalkRecurses ==
  ASSUME NEW levels \in Levels, NEW quantity \in Nat
  PROVE  /\ Walk(levels, quantity) \in [SUBSET DOMAIN levels -> Fill]
         /\ Recurses(Walk(levels, quantity), DOMAIN levels, Nothing(quantity),
                     LastOf(DOMAIN levels), TakesFrom(levels, DOMAIN levels))
<1>. DEFINE S == DOMAIN levels
            n == Len(levels)
            choice == LastOf(S)
            step == TakesFrom(levels, S)
<1>1. n \in Nat /\ S = 1 .. n /\ \A i \in S : levels[i] \in Level
  <2>1. levels \in Seq(Level)
    BY DEF Levels, Level
  <2>. QED
    BY <2>1
<1>2. IsFiniteSet(S) /\ ChoosesFrom(choice, S)
  BY <1>1, FS_Interval, MaxOfInterval
<1>3. Nothing(quantity) \in Fill
  BY DEF Nothing, Fill
<1>4. StepsWithin(step, S, Fill)
  BY <1>1, TakeLevelIsFill DEF StepsWithin, TakesFrom
<1>5. PICK G \in [SUBSET S -> Fill] : Recurses(G, S, Nothing(quantity), choice, step)
  <2>. HIDE DEF S, choice, step
  <2>. QED
    BY <1>2, <1>3, <1>4, RecursionIsSolved
<1>. DEFINE Unfolds(I) == I = [s \in SUBSET S |->
                 IF s = {} THEN Nothing(quantity)
                 ELSE LET x == Max(s) IN TakeLevel(I[s \ {x}], levels[x])]
<1>6. Unfolds(G)
  <2>1. ASSUME NEW s \in SUBSET S, s # {}
        PROVE  G[s] = TakeLevel(G[s \ {Max(s)}], levels[Max(s)])
    <3>. DEFINE x == Max(s)
    <3>1. x \in S /\ choice[s] = x
      BY <1>2, <2>1 DEF ChoosesFrom, LastOf
    <3>2. G[s \ {x}] \in Fill
      OBVIOUS
    <3>3. G[s] = step[x][G[s \ {x}]]
      BY <1>5, <2>1, <3>1 DEF Recurses
    <3>. HIDE DEF x
    <3>. QED
      BY <3>1, <3>2, <3>3 DEF TakesFrom, x
  <2>2. G[{}] = Nothing(quantity)
    BY <1>5 DEF Recurses
  <2>. QED
    BY <2>1, <2>2
<1>7. Unfolds(Walk(levels, quantity))
  BY <1>6 DEF Walk
<1>8. Walk(levels, quantity) = G
  <2>. DEFINE I == Walk(levels, quantity)
  <2>1. G[{}] = I[{}]
    BY <1>6, <1>7
  <2>2. ASSUME NEW s \in SUBSET S, s # {},
               G[s \ {choice[s]}] = I[s \ {choice[s]}]
        PROVE  G[s] = I[s]
    <3>1. choice[s] = Max(s)
      BY DEF LastOf
    <3>2. /\ G[s] = TakeLevel(G[s \ {Max(s)}], levels[Max(s)])
          /\ I[s] = TakeLevel(I[s \ {Max(s)}], levels[Max(s)])
      BY <1>6, <1>7, <2>2
    <3>. QED
      BY <2>2, <3>1, <3>2
  <2>3. \A s \in SUBSET S : G[s] = I[s]
    <3>. HIDE DEF I, S, choice
    <3>. QED
      BY <1>2, <2>1, <2>2, RecursionAgrees
  <2>4. DOMAIN I = SUBSET S /\ I = [s \in SUBSET S |-> I[s]]
    <3>1. Unfolds(I)
      BY <1>7
    <3>. HIDE DEF I
    <3>. QED
      BY <3>1
  <2>. QED
    BY <2>3, <2>4
<1>. QED
  BY <1>5, <1>8

\* How much of each level a walk takes, what that costs, and what there was.
TakenOf(levels, quantity) ==
  [i \in DOMAIN levels |->
     Least(levels[i].size, Walk(levels, quantity)[1 .. (i - 1)].remaining)]
CostOf(levels, taken) == [i \in DOMAIN levels |-> taken[i] * levels[i].price]
SizeOf(levels) == [i \in DOMAIN levels |-> levels[i].size]

LEMMA LevelsTyped ==
  ASSUME NEW levels \in Levels
  PROVE  /\ Len(levels) \in Nat /\ DOMAIN levels = 1 .. Len(levels)
         /\ \A i \in 1 .. Len(levels) :
              levels[i] \in Level /\ levels[i].size \in Nat /\ levels[i].price \in Nat
<1>1. levels \in Seq(Level)
  BY DEF Levels, Level
<1>2. /\ Len(levels) \in Nat /\ DOMAIN levels = 1 .. Len(levels)
      /\ \A i \in 1 .. Len(levels) : levels[i] \in Level
  BY <1>1
<1>3. \A l \in Level : l.size \in Nat /\ l.price \in Nat
  BY DEF Level
<1>. QED
  BY <1>2, <1>3

\* One level of the walk.
LEMMA WalkOne ==
  ASSUME NEW levels \in Levels, NEW quantity \in Nat, NEW k \in 1 .. Len(levels)
  PROVE  LET before == Walk(levels, quantity)[1 .. (k - 1)]
             after == Walk(levels, quantity)[1 .. k]
             take == TakenOf(levels, quantity)[k]
         IN /\ before \in Fill /\ after \in Fill
            /\ take = Least(levels[k].size, before.remaining)
            /\ take \in Nat /\ take <= levels[k].size /\ take <= before.remaining
            /\ after.remaining = before.remaining - take
            /\ after.filled = before.filled + take
            /\ after.notional = before.notional + take * levels[k].price
<1>. DEFINE S == DOMAIN levels
            n == Len(levels)
            W == Walk(levels, quantity)
            choice == LastOf(S)
            step == TakesFrom(levels, S)
            before == W[1 .. (k - 1)]
<1>1. n \in Nat /\ S = 1 .. n /\ levels[k] \in Level
  BY LevelsTyped
<1>2. W \in [SUBSET S -> Fill] /\ Recurses(W, S, Nothing(quantity), choice, step)
  BY WalkRecurses
<1>3. choice[1 .. k] = k /\ (1 .. k) \ {k} = 1 .. (k - 1)
  BY <1>1, MaxOfInterval
<1>4. 1 .. k \in SUBSET S /\ 1 .. (k - 1) \in SUBSET S /\ 1 .. k # {}
  <2>1. \A m \in Nat : m <= n => 1 .. m \in SUBSET (1 .. n)
    BY <1>1
  <2>2. k \in Nat /\ k <= n /\ k - 1 \in Nat /\ k - 1 <= n /\ k \in 1 .. k
    BY <1>1
  <2>. QED
    BY <1>1, <2>1, <2>2
<1>. HIDE DEF W, choice
<1>5. before \in Fill /\ W[1 .. k] \in Fill
  BY <1>2, <1>4
<1>6. W[1 .. k] = step[k][before]
  BY <1>2, <1>3, <1>4 DEF Recurses
<1>. HIDE DEF before
<1>7. W[1 .. k] = TakeLevel(before, levels[k])
  BY <1>1, <1>5, <1>6 DEF TakesFrom
<1>8. TakenOf(levels, quantity)[k] = Least(levels[k].size, before.remaining)
  BY <1>1 DEF TakenOf, before, W
<1>. QED
  BY <1>1, <1>5, <1>7, <1>8, TakeLevelIsFill DEF before, W

\* The totals of the walk are sums over the levels it has looked at, and while
\* something remains it has taken all there was.
LEMMA WalkUpto ==
  ASSUME NEW levels \in Levels, NEW quantity \in Nat
  PROVE  LET W == Walk(levels, quantity)
             taken == TakenOf(levels, quantity)
         IN \A k \in 0 .. Len(levels) :
              /\ W[1 .. k] \in Fill
              /\ W[1 .. k].filled + W[1 .. k].remaining = quantity
              /\ W[1 .. k].filled = SumFunctionOnSet(taken, 1 .. k)
              /\ W[1 .. k].notional = SumFunctionOnSet(CostOf(levels, taken), 1 .. k)
              /\ W[1 .. k].remaining > 0 =>
                   \A i \in 1 .. k : taken[i] = levels[i].size
<1>. DEFINE n == Len(levels)
            W == Walk(levels, quantity)
            taken == TakenOf(levels, quantity)
            cost == CostOf(levels, taken)
            Good(k) ==
              /\ W[1 .. k] \in Fill
              /\ W[1 .. k].filled + W[1 .. k].remaining = quantity
              /\ W[1 .. k].filled = SumFunctionOnSet(taken, 1 .. k)
              /\ W[1 .. k].notional = SumFunctionOnSet(cost, 1 .. k)
              /\ W[1 .. k].remaining > 0 =>
                   \A i \in 1 .. k : taken[i] = levels[i].size
            T == {k \in Nat : k <= n => Good(k)}
<1>1. n \in Nat /\ DOMAIN levels = 1 .. n
  BY LevelsTyped
<1>2. \A i \in 1 .. n : taken[i] \in Int /\ cost[i] = taken[i] * levels[i].price
                        /\ cost[i] \in Int
  <2>. SUFFICES ASSUME NEW i \in 1 .. n
                PROVE  /\ taken[i] \in Int /\ cost[i] = taken[i] * levels[i].price
                       /\ cost[i] \in Int
    OBVIOUS
  <2>1. taken[i] \in Nat
    BY WalkOne
  <2>2. levels[i].price \in Nat
    BY LevelsTyped
  <2>. HIDE DEF taken
  <2>3. cost[i] = taken[i] * levels[i].price
    BY <1>1 DEF CostOf
  <2>. QED
    BY <2>1, <2>2, <2>3
<1>3. 0 \in T
  <2>1. 1 .. 0 = {}
    OBVIOUS
  <2>2. W[{}] = Nothing(quantity)
    BY WalkRecurses DEF Recurses
  <2>. HIDE DEF W, taken, cost
  <2>3. SumFunctionOnSet(taken, {}) = 0 /\ SumFunctionOnSet(cost, {}) = 0
    BY SumEmpty
  <2>4. Good(0)
    BY <2>1, <2>2, <2>3 DEF Nothing, Fill
  <2>. QED
    BY <2>4
<1>4. ASSUME NEW j \in Nat, j \in T
      PROVE  j + 1 \in T
  <2>. SUFFICES ASSUME j + 1 <= n PROVE Good(j + 1)
    OBVIOUS
  <2>. DEFINE k == j + 1
  <2>1. k \in 1 .. n /\ k - 1 = j /\ Good(j) /\ (1 .. k) \ {k} = 1 .. j
    BY <1>1, <1>4
  <2>2. levels[k].size \in Nat /\ levels[k].price \in Nat
    BY <2>1, LevelsTyped
  <2>3. /\ W[1 .. j] \in Fill /\ W[1 .. k] \in Fill
        /\ taken[k] = Least(levels[k].size, W[1 .. j].remaining)
        /\ taken[k] \in Nat
        /\ W[1 .. k].remaining = W[1 .. j].remaining - taken[k]
        /\ W[1 .. k].filled = W[1 .. j].filled + taken[k]
        /\ W[1 .. k].notional = W[1 .. j].notional + taken[k] * levels[k].price
    BY <2>1, WalkOne
  <2>4. IsFiniteSet(1 .. k) /\ \A i \in 1 .. k : i \in 1 .. n
    <3>1. k \in Int /\ 1 \in Int
      BY <2>1
    <3>2. IsFiniteSet(1 .. k)
      BY <3>1, FS_Interval
    <3>3. \A i \in 1 .. k : i \in 1 .. n
      BY <1>1, <2>1
    <3>. QED
      BY <3>2, <3>3
  <2>. HIDE DEF W, taken, cost, k
  <2>5. /\ SumFunctionOnSet(taken, 1 .. k) = taken[k] + SumFunctionOnSet(taken, 1 .. j)
        /\ SumFunctionOnSet(cost, 1 .. k) = cost[k] + SumFunctionOnSet(cost, 1 .. j)
    <3>1. k \in 1 .. k /\ \A i \in 1 .. k : taken[i] \in Int /\ cost[i] \in Int
      BY <1>2, <2>1, <2>4
    <3>2. /\ SumFunctionOnSet(taken, 1 .. k)
               = taken[k] + SumFunctionOnSet(taken, (1 .. k) \ {k})
          /\ SumFunctionOnSet(cost, 1 .. k)
               = cost[k] + SumFunctionOnSet(cost, (1 .. k) \ {k})
      BY <2>4, <3>1, SumSplit
    <3>. QED
      BY <2>1, <3>2
  <2>6. /\ W[1 .. j].remaining \in Nat /\ W[1 .. j].filled \in Nat
        /\ W[1 .. j].notional \in Int /\ W[1 .. k].remaining \in Nat
    BY <2>3 DEF Fill
  <2>7. W[1 .. k].filled + W[1 .. k].remaining = quantity
    BY <2>1, <2>3, <2>6
  <2>8. W[1 .. k].filled = SumFunctionOnSet(taken, 1 .. k)
    BY <2>1, <2>3, <2>5, <2>6
  <2>9. W[1 .. k].notional = SumFunctionOnSet(cost, 1 .. k)
    <3>1. cost[k] = taken[k] * levels[k].price /\ cost[k] \in Int
      BY <1>2, <2>1
    <3>. QED
      BY <2>1, <2>3, <2>5, <2>6, <3>1
  <2>10. ASSUME W[1 .. k].remaining > 0, NEW i \in 1 .. k
         PROVE  taken[i] = levels[i].size
    <3>1. CASE i = k
      BY <2>2, <2>3, <2>6, <2>10, <3>1 DEF Least
    <3>2. CASE i \in 1 .. j
      BY <2>1, <2>3, <2>6, <2>10, <3>2
    <3>. QED
      BY <2>1, <3>1, <3>2
  <2>11. Good(k)
    BY <2>3, <2>7, <2>8, <2>9, <2>10
  <2>. QED
    BY <2>11 DEF k
<1>5. \A k \in Nat : k \in T
  <2>. HIDE DEF T
  <2>. QED
    BY <1>3, <1>4, InductionInSet
<1>6. \A k \in 0 .. n : Good(k)
  BY <1>1, <1>5
<1>. QED
  BY <1>6

LEMMA WalkTotals ==
  ASSUME NEW levels \in Levels, NEW quantity \in Nat
  PROVE  LET fill == WalkLevels(levels, quantity)
             taken == TakenOf(levels, quantity)
             n == Len(levels)
         IN /\ fill \in Fill /\ fill.filled + fill.remaining = quantity
            /\ fill.filled = SumFunctionOnSet(taken, 1 .. n)
            /\ fill.notional = SumFunctionOnSet(CostOf(levels, taken), 1 .. n)
            /\ fill.remaining > 0 => \A i \in 1 .. n : taken[i] = levels[i].size
            /\ \A i \in 1 .. n :
                 /\ taken[i] \in Nat /\ taken[i] <= levels[i].size
                 /\ CostOf(levels, taken)[i] = taken[i] * levels[i].price
<1>. DEFINE n == Len(levels)
            taken == TakenOf(levels, quantity)
<1>1. n \in Nat /\ DOMAIN levels = 1 .. n /\ n \in 0 .. n
  BY LevelsTyped
<1>2. WalkLevels(levels, quantity) = Walk(levels, quantity)[1 .. n]
  BY <1>1, WalkIsFold
<1>3. \A i \in 1 .. n : taken[i] \in Nat /\ taken[i] <= levels[i].size
  BY WalkOne
<1>. HIDE DEF taken
<1>4. \A i \in 1 .. n : CostOf(levels, taken)[i] = taken[i] * levels[i].price
  BY <1>1 DEF CostOf
<1>. HIDE DEF n
<1>. QED
  BY <1>1, <1>2, <1>3, <1>4, WalkUpto DEF taken, n

\* A walk over levels at the limit or better stays within it.
AtLimit(side, limit, levels) ==
  \A i \in DOMAIN levels : levels[i].size > 0 =>
    IF side = "BUY" THEN levels[i].price <= limit ELSE levels[i].price >= limit

LEMMA WalkWithinLimit ==
  ASSUME NEW levels \in Levels, NEW quantity \in Nat, NEW limit \in Nat, NEW side,
         AtLimit(side, limit, levels)
  PROVE  LET fill == WalkLevels(levels, quantity)
         IN IF side = "BUY" THEN fill.notional <= fill.filled * limit
                            ELSE fill.notional >= fill.filled * limit
<1>. DEFINE n == Len(levels)
            fill == WalkLevels(levels, quantity)
            taken == TakenOf(levels, quantity)
            cost == CostOf(levels, taken)
            most == [i \in 1 .. n |-> limit * taken[i]]
<1>1. n \in Nat /\ DOMAIN levels = 1 .. n /\ IsFiniteSet(1 .. n)
  BY LevelsTyped, FS_Interval
<1>2. /\ fill.filled = SumFunctionOnSet(taken, 1 .. n)
      /\ fill.notional = SumFunctionOnSet(cost, 1 .. n)
      /\ fill \in Fill
      /\ \A i \in 1 .. n : /\ taken[i] \in Nat /\ taken[i] <= levels[i].size
                           /\ cost[i] = taken[i] * levels[i].price
  BY WalkTotals
<1>. HIDE DEF fill, taken, cost
<1>3. ASSUME NEW i \in 1 .. n
      PROVE  /\ cost[i] \in Int /\ most[i] \in Int
             /\ IF side = "BUY" THEN cost[i] <= most[i] ELSE cost[i] >= most[i]
  <2>1. /\ levels[i].price \in Nat /\ levels[i].size \in Nat
        /\ taken[i] \in Nat /\ taken[i] <= levels[i].size
        /\ cost[i] = taken[i] * levels[i].price
        /\ most[i] = limit * taken[i]
    BY <1>2, LevelsTyped
  <2>2. CASE taken[i] = 0
    <3>1. \A p \in Nat : 0 * p = 0 /\ p * 0 = 0
      OBVIOUS
    <3>2. cost[i] = 0 /\ most[i] = 0
      BY <2>1, <2>2, <3>1
    <3>. QED
      BY <3>2
  <2>3. CASE taken[i] > 0
    <3>1. IF side = "BUY" THEN levels[i].price <= limit ELSE levels[i].price >= limit
      BY <1>1, <2>1, <2>3 DEF AtLimit
    <3>2. \A t, p, q \in Nat : p <= q => t * p <= q * t
      <4>. SUFFICES ASSUME NEW s \in Nat, NEW p \in Nat, NEW q \in Nat, p <= q
                    PROVE  s * p <= q * s
        OBVIOUS
      <4>1. PICK d \in Nat : q = p + d
        <5>1. q - p \in Nat /\ q = p + (q - p)
          OBVIOUS
        <5>. QED
          BY <5>1
      <4>2. q * s = s * p + d * s /\ d * s \in Nat /\ s * p \in Nat
        BY <4>1
      <4>. QED
        BY <4>2
    <3>3. \A t, p, q \in Nat : t * p = p * t /\ t * p \in Nat
      OBVIOUS
    <3>. QED
      BY <2>1, <3>1, <3>2, <3>3
  <2>. QED
    BY <2>1, <2>2, <2>3
<1>4. SumFunctionOnSet(most, 1 .. n) = limit * SumFunctionOnSet(taken, 1 .. n)
  <2>1. \A i \in 1 .. n : taken[i] \in Int /\ most[i] = limit * taken[i]
    BY <1>2
  <2>2. limit \in Int
    OBVIOUS
  <2>. HIDE DEF most
  <2>. QED
    BY <1>1, <2>1, <2>2, SumScaled
<1>5. limit * fill.filled = fill.filled * limit
  BY <1>2 DEF Fill
<1>. HIDE DEF most
<1>6. CASE side = "BUY"
  <2>1. SumFunctionOnSet(cost, 1 .. n) <= SumFunctionOnSet(most, 1 .. n)
    BY <1>1, <1>3, <1>6, SumMonotone
  <2>. QED
    BY <1>2, <1>4, <1>5, <1>6, <2>1 DEF fill
<1>7. CASE side # "BUY"
  <2>1. SumFunctionOnSet(most, 1 .. n) <= SumFunctionOnSet(cost, 1 .. n)
    <3>1. \A i \in 1 .. n : cost[i] \in Int /\ most[i] \in Int /\ most[i] <= cost[i]
      BY <1>3, <1>7
    <3>. QED
      BY <1>1, <3>1, SumMonotone
  <2>. QED
    BY <1>2, <1>4, <1>5, <1>7, <2>1 DEF fill, Fill
<1>. QED
  BY <1>6, <1>7

-----------------------------------------------------------------------------
\* What the exchange may answer.
Allowed(request, report) ==
  /\ report.status \in {"NEW", "PARTIALLY_FILLED", "FILLED"}
  /\ report.filled \in Nat /\ report.remaining \in Nat /\ report.notional \in Int
  /\ request.type = "LIMIT" =>
       IF request.side = "BUY"
       THEN report.notional <= report.filled * request.limit
       ELSE report.notional >= report.filled * request.limit
  /\ report.rests =>
       /\ report.status \in Cancelable /\ report.remaining > 0
       /\ request.type = "LIMIT"
  /\ report.status = "NEW" => report.rests

LEMMA RequestTyped ==
  ASSUME NEW request \in OrderRequests
  PROVE  /\ request.type \in {"MARKET", "LIMIT"} /\ request.side \in OrderSides
         /\ request.quantity \in Nat /\ request.quantity > 0
         /\ request.limit \in Nat /\ request.reference \in Nat
         /\ request.book.known \in BOOLEAN
         /\ request.book.bids \in Levels /\ request.book.asks \in Levels
<1>1. /\ request.type \in {"MARKET", "LIMIT"} /\ request.side \in OrderSides
      /\ request.quantity \in Quantities /\ request.limit \in Prices
      /\ request.reference \in Prices /\ request.book \in Books
  BY DEF OrderRequests
<1>2. request.book \in [known : BOOLEAN, bids : Levels, asks : Levels]
  BY <1>1, ExchangeAssumption DEF ExchangeAssumption
<1>3. /\ \A q \in Quantities : q \in Nat /\ q > 0
      /\ \A p \in Prices : p \in Nat
  BY ExchangeAssumption DEF ExchangeAssumption
<1>. QED
  BY <1>1, <1>2, <1>3

LEMMA EligibleAtLimit ==
  ASSUME NEW side, NEW limit \in Nat, NEW book,
         book.bids \in Levels, book.asks \in Levels
  PROVE  /\ Eligible(side, limit, book) \in Levels
         /\ AtLimit(side, limit, Eligible(side, limit, book))
<1>. DEFINE levels == IF side = "BUY" THEN book.asks ELSE book.bids
            within(price) == IF side = "BUY" THEN price <= limit ELSE price >= limit
            n == Len(levels)
            seen == [i \in 1 .. n |->
                       [price |-> levels[i].price,
                        size |-> IF within(levels[i].price) THEN levels[i].size ELSE 0]]
<1>1. levels \in Levels
  OBVIOUS
<1>2. /\ n \in Nat /\ DOMAIN levels = 1 .. n
      /\ \A i \in 1 .. n : levels[i].size \in Nat /\ levels[i].price \in Nat
  BY <1>1, LevelsTyped
<1>3. Eligible(side, limit, book) = seen
  BY <1>2 DEF Eligible
<1>. HIDE DEF levels, n
<1>4. \A i \in 1 .. n : /\ seen[i] \in Level /\ seen[i].price = levels[i].price
                        /\ seen[i].size > 0 => within(levels[i].price)
  BY <1>2 DEF Level
<1>5. seen \in Seq(Level) /\ DOMAIN seen = 1 .. n
  BY <1>2, <1>4
<1>6. AtLimit(side, limit, seen)
  BY <1>4, <1>5 DEF AtLimit
<1>. QED
  BY <1>3, <1>5, <1>6 DEF Levels, Level

LEMMA DepthFillTyped ==
  ASSUME NEW request \in OrderRequests
  PROVE  LET fill == DepthFill(request)
         IN /\ fill \in Fill
            /\ request.type = "LIMIT" =>
                 IF request.side = "BUY"
                 THEN fill.notional <= fill.filled * request.limit
                 ELSE fill.notional >= fill.filled * request.limit
<1>. DEFINE seen == Eligible(request.side, request.limit, request.book)
            all == IF request.side = "BUY" THEN request.book.asks ELSE request.book.bids
<1>1. request.quantity \in Nat /\ all \in Levels
  BY RequestTyped
<1>2. seen \in Levels /\ AtLimit(request.side, request.limit, seen)
      /\ request.limit \in Nat
  BY RequestTyped, EligibleAtLimit
<1>3. CASE request.type = "LIMIT"
  <2>1. DepthFill(request) = WalkLevels(seen, request.quantity)
    BY <1>3 DEF DepthFill
  <2>. HIDE DEF seen
  <2>2. WalkLevels(seen, request.quantity) \in Fill
    BY <1>1, <1>2, WalkTotals
  <2>. QED
    BY <1>1, <1>2, <2>1, <2>2, WalkWithinLimit
<1>4. CASE request.type # "LIMIT"
  <2>1. DepthFill(request) = WalkLevels(all, request.quantity)
    BY <1>4 DEF DepthFill
  <2>. HIDE DEF all
  <2>2. WalkLevels(all, request.quantity) \in Fill
    BY <1>1, WalkTotals
  <2>. QED
    BY <1>4, <2>1, <2>2
<1>. QED
  BY <1>3, <1>4

LEMMA PlaceOrderAllowed ==
  ASSUME NEW request \in OrderRequests
  PROVE  Allowed(request, PlaceOrder(request))
<1>. DEFINE fill == DepthFill(request)
            whole == request.quantity
            price == Slipped(request.reference, request.side)
<1>1. /\ request.type \in {"MARKET", "LIMIT"}
      /\ whole \in Nat /\ whole > 0 /\ request.limit \in Nat
      /\ request.reference \in Nat /\ Slippage \in Nat
  BY RequestTyped, ExchangeAssumption DEF ExchangeAssumption
<1>2. /\ fill.remaining \in Nat /\ fill.filled \in Nat /\ fill.notional \in Int
      /\ request.type = "LIMIT" =>
           IF request.side = "BUY"
           THEN fill.notional <= fill.filled * request.limit
           ELSE fill.notional >= fill.filled * request.limit
  BY DepthFillTyped DEF Fill
<1>3. price \in Int
  BY <1>1 DEF Slipped
<1>4. whole * request.limit \in Int /\ whole * price \in Int
  BY <1>1, <1>3
<1>5. 0 * request.limit = 0
  BY <1>1
<1>. HIDE DEF fill, price
<1>6. \/ PlaceOrder(request) =
           Report(IF fill.remaining > 0 THEN "PARTIALLY_FILLED" ELSE "FILLED",
                  fill.filled, fill.remaining, fill.notional,
                  fill.remaining > 0 /\ request.type = "LIMIT")
      \/ request.type = "LIMIT" /\ PlaceOrder(request) = Resting(whole)
      \/ /\ request.type = "LIMIT"
         /\ PlaceOrder(request) = Report("FILLED", whole, 0, whole * request.limit, FALSE)
      \/ /\ request.type # "LIMIT"
         /\ PlaceOrder(request) = Report("FILLED", whole, 0, whole * price, FALSE)
  BY DEF PlaceOrder, fill, price
<1>8. CASE PlaceOrder(request) =
             Report(IF fill.remaining > 0 THEN "PARTIALLY_FILLED" ELSE "FILLED",
                    fill.filled, fill.remaining, fill.notional,
                    fill.remaining > 0 /\ request.type = "LIMIT")
  <2>. DEFINE rests == fill.remaining > 0 /\ request.type = "LIMIT"
              status == IF fill.remaining > 0 THEN "PARTIALLY_FILLED" ELSE "FILLED"
              report == Report(status, fill.filled, fill.remaining, fill.notional, rests)
  <2>1. /\ status \in {"PARTIALLY_FILLED", "FILLED"} /\ rests \in BOOLEAN
        /\ rests => status = "PARTIALLY_FILLED"
    OBVIOUS
  <2>2. /\ report.status = status /\ report.filled = fill.filled
        /\ report.remaining = fill.remaining /\ report.notional = fill.notional
        /\ report.rests = rests
    BY DEF Report
  <2>3. rests => fill.remaining > 0 /\ request.type = "LIMIT"
    OBVIOUS
  <2>4. PlaceOrder(request) = report
    BY <1>8
  <2>. HIDE DEF report, status, rests
  <2>5. report.rests => rests
    BY <2>1, <2>2
  <2>6. report.status # "NEW" /\ report.status \in {"NEW", "PARTIALLY_FILLED", "FILLED"}
    BY <2>1, <2>2
  <2>7. report.rests =>
          /\ report.status \in Cancelable /\ report.remaining > 0
          /\ request.type = "LIMIT"
    BY <2>1, <2>2, <2>3, <2>5 DEF Cancelable
  <2>8. Allowed(request, report)
    BY <1>2, <2>2, <2>5, <2>6, <2>7 DEF Allowed
  <2>. QED
    BY <2>4, <2>8
<1>9. CASE request.type = "LIMIT" /\ PlaceOrder(request) = Resting(whole)
  <2>. DEFINE r == PlaceOrder(request)
  <2>1. /\ r.status = "NEW" /\ r.filled = 0 /\ r.remaining = whole
        /\ r.notional = 0 /\ r.rests
    BY <1>9 DEF Resting, Report
  <2>. HIDE DEF r
  <2>2. Allowed(request, r)
    BY <1>1, <1>5, <1>9, <2>1 DEF Allowed, Cancelable
  <2>. QED
    BY <2>2 DEF r
<1>10. CASE /\ request.type = "LIMIT"
            /\ PlaceOrder(request) = Report("FILLED", whole, 0, whole * request.limit, FALSE)
  <2>. DEFINE r == PlaceOrder(request)
              worth == whole * request.limit
  <2>1. /\ r.status = "FILLED" /\ r.filled = whole /\ r.remaining = 0
        /\ r.notional = worth /\ ~r.rests
    BY <1>10 DEF Report
  <2>2. worth \in Int /\ worth <= worth /\ r.filled * request.limit = worth
    BY <1>4, <2>1
  <2>. HIDE DEF r, worth
  <2>3. Allowed(request, r)
    BY <1>1, <1>10, <2>1, <2>2 DEF Allowed
  <2>. QED
    BY <2>3 DEF r
<1>11. CASE /\ request.type # "LIMIT"
            /\ PlaceOrder(request) = Report("FILLED", whole, 0, whole * price, FALSE)
  <2>. DEFINE r == PlaceOrder(request)
              worth == whole * price
  <2>1. /\ r.status = "FILLED" /\ r.filled = whole /\ r.remaining = 0
        /\ r.notional = worth /\ ~r.rests
    BY <1>11 DEF Report
  <2>2. worth \in Int
    BY <1>4
  <2>. HIDE DEF r, worth
  <2>3. Allowed(request, r)
    BY <1>1, <1>11, <2>1, <2>2 DEF Allowed
  <2>. QED
    BY <2>3 DEF r
<1>. QED
  BY <1>6, <1>8, <1>9, <1>10, <1>11

-----------------------------------------------------------------------------
Statuses == {"NEW", "PARTIALLY_FILLED", "FILLED", "CANCELED"}

LaterStages == {"committed", "canceling", "lost"}

ExchangeRow ==
  [stage : {"none", "placing"} \cup LaterStages,
   process : Processes, status : Statuses,
   filled : Nat, remaining : Nat, notional : Int, request : OrderRequests]

WithinLimit(new) ==
  new.stage # "none" /\ new.request.type = "LIMIT" =>
    IF new.request.side = "BUY" THEN new.notional <= new.filled * new.request.limit
                                ELSE new.notional >= new.filled * new.request.limit

Alive(new) ==
  /\ new.stage \in {"placing", "committed", "lost"}
  /\ new.status \in Cancelable /\ new.remaining > 0
  /\ new.request.type = "LIMIT"

\* Waiting for a fill as far as the database will know.
Waits(new) == new.stage \in {"placing", "committed"} /\ new.status = "NEW"

\* Only the process that placed an order remembers it; as long as nothing has
\* failed one does for every order that waits, already before its commit.
ExchangeInv ==
  /\ order \in [Orders -> ExchangeRow]
  /\ resting \in [Processes -> SUBSET Orders]
  /\ failures \in Nat
  /\ \A o \in Orders : WithinLimit(order[o])
  /\ \A proc \in Processes : \A o \in resting[proc] :
       Alive(order[o]) /\ order[o].process = proc
  /\ failures = 0 => \A o \in Orders :
       Waits(order[o]) => \E proc \in Processes : o \in resting[proc]

LEMMA ExchangeInitInv == ExchangeInit => ExchangeInv
<1>. SUFFICES ASSUME ExchangeInit PROVE ExchangeInv
  OBVIOUS
<1>1. \E p \in Processes : TRUE
  BY ExchangeAssumption DEF ExchangeAssumption
<1>2. \E r \in OrderRequests : TRUE
  <2>1. PICK q \in Quantities, p \in Prices, b \in Books : TRUE
    BY ExchangeAssumption DEF ExchangeAssumption
  <2>2. [type |-> "LIMIT", side |-> "BUY", quantity |-> q, limit |-> p,
         reference |-> p, book |-> b] \in OrderRequests
    BY DEF OrderRequests, OrderSides
  <2>. QED
    BY <2>2
<1>3. NoOrder \in ExchangeRow
  <2>1. (CHOOSE p \in Processes : TRUE) \in Processes
    BY <1>1
  <2>2. (CHOOSE r \in OrderRequests : TRUE) \in OrderRequests
    BY <1>2
  <2>. QED
    BY <2>1, <2>2 DEF NoOrder, ExchangeRow, Statuses
<1>4. NoOrder.stage = "none"
  BY DEF NoOrder
<1>5. order \in [Orders -> ExchangeRow] /\ resting \in [Processes -> SUBSET Orders]
  BY <1>3 DEF ExchangeInit
<1>. QED
  BY <1>4, <1>5 DEF ExchangeInit, ExchangeInv, WithinLimit, Waits

\* One row changes, and with it what its process remembers of it.
LEMMA RowMoves ==
  ASSUME ExchangeInv, NEW o \in Orders, NEW new \in ExchangeRow,
         order' = [order EXCEPT ![o] = new],
         resting' \in [Processes -> SUBSET Orders], failures' \in Nat,
         WithinLimit(new),
         \A proc \in Processes : \A q \in Orders :
           q # o => (q \in resting'[proc] <=> q \in resting[proc]),
         \A proc \in Processes :
           o \in resting'[proc] => Alive(new) /\ new.process = proc,
         failures' = 0 =>
           /\ failures = 0
           /\ Waits(new) => \E proc \in Processes : o \in resting'[proc]
  PROVE  ExchangeInv'
<1>1. /\ order \in [Orders -> ExchangeRow] /\ order' \in [Orders -> ExchangeRow]
      /\ order'[o] = new
      /\ \A q \in Orders : q # o => order'[q] = order[q]
  BY DEF ExchangeInv
<1>2. \A q \in Orders : WithinLimit(order'[q])
  BY <1>1 DEF ExchangeInv
<1>3. ASSUME NEW proc \in Processes, NEW q \in resting'[proc]
      PROVE  Alive(order'[q]) /\ order'[q].process = proc
  <2>1. q \in Orders
    OBVIOUS
  <2>2. CASE q = o
    BY <1>1, <1>3, <2>2
  <2>3. CASE q # o
    <3>1. q \in resting[proc] /\ order'[q] = order[q]
      BY <1>1, <1>3, <2>1, <2>3
    <3>. QED
      BY <3>1 DEF ExchangeInv
  <2>. QED
    BY <2>2, <2>3
<1>4. ASSUME failures' = 0, NEW q \in Orders, Waits(order'[q])
      PROVE  \E proc \in Processes : q \in resting'[proc]
  <2>1. CASE q = o
    BY <1>1, <1>4, <2>1
  <2>2. CASE q # o
    <3>1. Waits(order[q]) /\ failures = 0
      BY <1>1, <1>4, <2>2
    <3>2. PICK proc \in Processes : q \in resting[proc]
      BY <3>1 DEF ExchangeInv
    <3>. QED
      BY <2>2, <3>2
  <2>. QED
    BY <2>1, <2>2
<1>. HIDE DEF Waits, Alive, WithinLimit
<1>5. (\A q \in Orders : WithinLimit(order[q]))'
  BY <1>2 DEF WithinLimit
<1>6. (\A proc \in Processes : \A q \in resting[proc] :
         Alive(order[q]) /\ order[q].process = proc)'
  BY <1>3 DEF Alive, Cancelable
<1>7. (failures = 0 => \A q \in Orders :
         Waits(order[q]) => \E proc \in Processes : q \in resting[proc])'
  BY <1>4 DEF Waits
<1>. QED
  BY <1>1, <1>5, <1>6, <1>7 DEF ExchangeInv

\* What the row of an order is before it changes.
LEMMA RowBefore ==
  ASSUME ExchangeInv, NEW o \in Orders
  PROVE  /\ order[o] \in ExchangeRow /\ WithinLimit(order[o])
         /\ order[o].process \in Processes
         /\ \A proc \in Processes : o \in resting[proc] =>
              Alive(order[o]) /\ order[o].process = proc
         /\ failures = 0 /\ Waits(order[o]) =>
              \E proc \in Processes : o \in resting[proc]
<1>1. order[o] \in ExchangeRow
  BY DEF ExchangeInv
<1>2. /\ WithinLimit(order[o])
      /\ \A proc \in Processes : o \in resting[proc] =>
           Alive(order[o]) /\ order[o].process = proc
      /\ failures = 0 /\ Waits(order[o]) =>
           \E proc \in Processes : o \in resting[proc]
  BY DEF ExchangeInv
<1>3. order[o].process \in Processes
  BY <1>1 DEF ExchangeRow
<1>. QED
  BY <1>1, <1>2, <1>3

\* A row at another stage, in the hands of another process.
Restaged(old, stage, proc, status) ==
  [old EXCEPT !.stage = stage, !.process = proc, !.status = status]

LEMMA LaterMembers ==
  /\ "committed" \in LaterStages /\ "canceling" \in LaterStages
  /\ "lost" \in LaterStages /\ "none" \notin LaterStages /\ "CANCELED" \in Statuses
BY DEF LaterStages, Statuses

LEMMA RowUpdated ==
  ASSUME NEW old \in ExchangeRow,
         NEW stage \in LaterStages,
         NEW status \in Statuses,
         NEW proc \in Processes
  PROVE  LET new == Restaged(old, stage, proc, status)
         IN /\ new \in ExchangeRow
            /\ new.stage = stage /\ new.process = proc /\ new.status = status
            /\ new.remaining = old.remaining /\ new.filled = old.filled
            /\ new.notional = old.notional /\ new.request = old.request
            /\ old.stage # "none" /\ WithinLimit(old) => WithinLimit(new)
<1>. DEFINE new == Restaged(old, stage, proc, status)
<1>1. /\ new \in ExchangeRow
      /\ new.stage = stage /\ new.process = proc /\ new.status = status
      /\ new.remaining = old.remaining /\ new.filled = old.filled
      /\ new.notional = old.notional /\ new.request = old.request
  BY DEF ExchangeRow, Restaged
<1>. HIDE DEF new
<1>2. old.stage # "none" /\ WithinLimit(old) => WithinLimit(new)
  BY <1>1 DEF WithinLimit
<1>. QED
  BY <1>1, <1>2 DEF new

\* [x EXCEPT ...] of one field is that of all three.
LEMMA RowUpdates ==
  ASSUME NEW old \in ExchangeRow, NEW stage, NEW status, NEW proc
  PROVE  /\ [old EXCEPT !.stage = stage]
              = Restaged(old, stage, old.process, old.status)
         /\ [old EXCEPT !.stage = stage, !.process = proc]
              = Restaged(old, stage, proc, old.status)
BY DEF ExchangeRow, Restaged

LEMMA RowFields ==
  ASSUME NEW old \in ExchangeRow
  PROVE  old.status \in Statuses /\ old.process \in Processes
BY DEF ExchangeRow

LEMMA PlaceKeeps ==
  ASSUME ExchangeInv, NEW proc \in Processes, NEW o \in Orders,
         NEW request \in OrderRequests, Place(proc, o, request)
  PROVE  ExchangeInv'
<1>. DEFINE report == PlaceOrder(request)
            new == [stage |-> "placing", process |-> proc,
                    status |-> report.status, filled |-> report.filled,
                    remaining |-> report.remaining,
                    notional |-> report.notional, request |-> request]
<1>1. /\ order[o].stage = "none" /\ failures' = failures /\ failures \in Nat
      /\ order' = [order EXCEPT ![o] = new]
      /\ resting' = [resting EXCEPT ![proc] =
                       IF report.rests THEN @ \cup {o} ELSE @]
      /\ resting \in [Processes -> SUBSET Orders]
  BY DEF Place, ExchangeInv
<1>2. Allowed(request, report)
  BY PlaceOrderAllowed
<1>. HIDE DEF report
<1>3. new \in ExchangeRow
  BY <1>2 DEF ExchangeRow, Allowed, Statuses
<1>4. WithinLimit(new)
  BY <1>2 DEF WithinLimit, Allowed
<1>5. \A p \in Processes : o \notin resting[p]
  BY <1>1, RowBefore DEF Alive
<1>6. /\ resting' \in [Processes -> SUBSET Orders]
      /\ \A p \in Processes : \A q \in Orders :
           q # o => (q \in resting'[p] <=> q \in resting[p])
      /\ \A p \in Processes : o \in resting'[p] => p = proc /\ report.rests
      /\ report.rests => o \in resting'[proc]
  <2>1. CASE report.rests
    <3>1. resting' = [resting EXCEPT ![proc] = @ \cup {o}]
      BY <1>1, <2>1
    <3>. QED
      BY <1>1, <1>5, <2>1, <3>1
  <2>2. CASE ~report.rests
    <3>1. resting' = resting
      BY <1>1, <2>2
    <3>. QED
      BY <1>1, <1>5, <2>2, <3>1
  <2>. QED
    BY <2>1, <2>2
<1>7. report.rests => Alive(new)
  BY <1>2 DEF Alive, Allowed
<1>8. Waits(new) => report.rests
  BY <1>2 DEF Waits, Allowed
<1>9. new.process = proc
  OBVIOUS
<1>. HIDE DEF new
<1>. QED
  BY <1>1, <1>3, <1>4, <1>6, <1>7, <1>8, <1>9, RowMoves

LEMMA CommitPlacedKeeps ==
  ASSUME ExchangeInv, NEW o \in Orders, CommitPlaced(o)
  PROVE  ExchangeInv'
<1>. DEFINE old == order[o]
            new == [old EXCEPT !.stage = "committed"]
<1>1. /\ old.stage = "placing" /\ resting' = resting /\ failures' = failures
      /\ order' = [order EXCEPT ![o] = new]
      /\ failures \in Nat /\ resting \in [Processes -> SUBSET Orders]
  BY DEF CommitPlaced, ExchangeInv
<1>2. /\ old \in ExchangeRow /\ WithinLimit(old)
      /\ \A p \in Processes : o \in resting[p] => Alive(old) /\ old.process = p
      /\ failures = 0 /\ Waits(old) => \E p \in Processes : o \in resting[p]
  BY RowBefore
<1>. HIDE DEF old
<1>3. new = Restaged(old, "committed", old.process, old.status)
  BY <1>2, RowUpdates
<1>. HIDE DEF new
<1>4. /\ new \in ExchangeRow /\ WithinLimit(new)
      /\ new.stage = "committed" /\ new.process = old.process
      /\ new.status = old.status /\ new.remaining = old.remaining
      /\ new.request = old.request
  BY <1>1, <1>2, <1>3, RowUpdated, RowFields, LaterMembers
<1>5. /\ Alive(old) => Alive(new)
      /\ Waits(new) => Waits(old)
  BY <1>1, <1>4 DEF Alive, Waits
<1>. QED
  BY <1>1, <1>2, <1>4, <1>5, RowMoves

LEMMA LosePlacedKeeps ==
  ASSUME ExchangeInv, NEW o \in Orders, LosePlaced(o)
  PROVE  ExchangeInv'
<1>. DEFINE old == order[o]
            new == [old EXCEPT !.stage = "lost"]
<1>1. /\ old.stage = "placing" /\ resting' = resting /\ failures' = failures + 1
      /\ order' = [order EXCEPT ![o] = new]
      /\ failures \in Nat /\ resting \in [Processes -> SUBSET Orders]
  BY DEF LosePlaced, Fail, ExchangeInv
<1>2. /\ old \in ExchangeRow /\ WithinLimit(old)
      /\ \A p \in Processes : o \in resting[p] => Alive(old) /\ old.process = p
  BY RowBefore
<1>. HIDE DEF old
<1>3. new = Restaged(old, "lost", old.process, old.status)
  BY <1>2, RowUpdates
<1>. HIDE DEF new
<1>4. /\ new \in ExchangeRow /\ WithinLimit(new)
      /\ new.stage = "lost" /\ new.process = old.process
      /\ new.status = old.status /\ new.remaining = old.remaining
      /\ new.request = old.request
  BY <1>1, <1>2, <1>3, RowUpdated, RowFields, LaterMembers
<1>5. Alive(old) => Alive(new)
  BY <1>1, <1>4 DEF Alive
<1>6. failures' \in Nat /\ failures' # 0
  BY <1>1
<1>. QED
  BY <1>1, <1>2, <1>4, <1>5, <1>6, RowMoves

\* The process that forgets the order is the only one that knew it.
LEMMA CancelOrderKeeps ==
  ASSUME ExchangeInv, NEW proc \in Processes, NEW o \in Orders, CancelOrder(proc, o)
  PROVE  ExchangeInv'
<1>. DEFINE old == order[o]
            new == [old EXCEPT !.stage = "canceling", !.process = proc]
<1>1. /\ old.stage = "committed" /\ o \in resting[proc] /\ failures' = failures
      /\ resting' = [resting EXCEPT ![proc] = @ \ {o}]
      /\ order' = [order EXCEPT ![o] = new]
      /\ failures \in Nat /\ resting \in [Processes -> SUBSET Orders]
  BY DEF CancelOrder, ExchangeInv
<1>2. /\ old \in ExchangeRow /\ WithinLimit(old)
      /\ \A p \in Processes : o \in resting[p] => old.process = p
  BY RowBefore
<1>. HIDE DEF old
<1>3. new = Restaged(old, "canceling", proc, old.status)
  BY <1>2, RowUpdates
<1>. HIDE DEF new
<1>4. new \in ExchangeRow /\ WithinLimit(new) /\ new.stage = "canceling"
  BY <1>1, <1>2, <1>3, RowUpdated, RowFields, LaterMembers
<1>5. /\ resting' \in [Processes -> SUBSET Orders]
      /\ \A p \in Processes : \A q \in Orders :
           q # o => (q \in resting'[p] <=> q \in resting[p])
      /\ \A p \in Processes : o \notin resting'[p]
  BY <1>1, <1>2
<1>6. ~Waits(new)
  BY <1>4 DEF Waits
<1>. QED
  BY <1>1, <1>4, <1>5, <1>6, RowMoves

LEMMA CommitCanceledKeeps ==
  ASSUME ExchangeInv, NEW o \in Orders, CommitCanceled(o)
  PROVE  ExchangeInv'
<1>. DEFINE old == order[o]
            new == [old EXCEPT !.stage = "committed", !.status = "CANCELED"]
<1>1. /\ old.stage = "canceling" /\ resting' = resting /\ failures' = failures
      /\ order' = [order EXCEPT ![o] = new]
      /\ failures \in Nat /\ resting \in [Processes -> SUBSET Orders]
  BY DEF CommitCanceled, ExchangeInv
<1>2. /\ old \in ExchangeRow /\ WithinLimit(old)
      /\ \A p \in Processes : o \in resting[p] => Alive(old)
  BY RowBefore
<1>. HIDE DEF old
<1>3. new = Restaged(old, "committed", old.process, "CANCELED")
  BY <1>2 DEF ExchangeRow, Restaged
<1>. HIDE DEF new
<1>4. /\ new \in ExchangeRow /\ WithinLimit(new) /\ new.status = "CANCELED"
  BY <1>1, <1>2, <1>3, RowUpdated, RowFields, LaterMembers
<1>5. \A p \in Processes : o \notin resting[p]
  BY <1>1, <1>2 DEF Alive
<1>6. ~Waits(new)
  BY <1>4 DEF Waits
<1>. QED
  BY <1>1, <1>4, <1>5, <1>6, RowMoves

LEMMA LoseCanceledKeeps ==
  ASSUME ExchangeInv, NEW o \in Orders, LoseCanceled(o)
  PROVE  ExchangeInv'
<1>. DEFINE old == order[o]
            new == [old EXCEPT !.stage = "committed"]
<1>1. /\ old.stage = "canceling" /\ resting' = resting /\ failures' = failures + 1
      /\ order' = [order EXCEPT ![o] = new]
      /\ failures \in Nat /\ resting \in [Processes -> SUBSET Orders]
  BY DEF LoseCanceled, Fail, ExchangeInv
<1>2. /\ old \in ExchangeRow /\ WithinLimit(old)
      /\ \A p \in Processes : o \in resting[p] => Alive(old)
  BY RowBefore
<1>. HIDE DEF old
<1>3. new = Restaged(old, "committed", old.process, old.status)
  BY <1>2, RowUpdates
<1>. HIDE DEF new
<1>4. new \in ExchangeRow /\ WithinLimit(new)
  BY <1>1, <1>2, <1>3, RowUpdated, RowFields, LaterMembers
<1>5. \A p \in Processes : o \notin resting[p]
  BY <1>1, <1>2 DEF Alive
<1>6. failures' \in Nat /\ failures' # 0
  BY <1>1
<1>. QED
  BY <1>1, <1>4, <1>5, <1>6, RowMoves

\* A restart forgets what the process knew, and loses what it had not committed.
LEMMA RestartKeeps ==
  ASSUME ExchangeInv, NEW proc \in Processes, Restart(proc)
  PROVE  ExchangeInv'
<1>1. /\ failures \in Nat /\ failures' = failures + 1
      /\ resting \in [Processes -> SUBSET Orders]
      /\ resting' = [resting EXCEPT ![proc] = {}]
  BY DEF Restart, Fail, ExchangeInv
<1>2. ASSUME NEW o \in Orders
      PROVE  /\ order'[o] \in ExchangeRow /\ WithinLimit(order'[o])
             /\ order[o].process # proc => order'[o] = order[o]
  <2>. DEFINE old == order[o]
  <2>1. /\ order'[o] = IF old.process # proc THEN old
                       ELSE IF old.stage = "placing" THEN [old EXCEPT !.stage = "lost"]
                       ELSE IF old.stage = "canceling"
                            THEN [old EXCEPT !.stage = "committed"]
                       ELSE old
    BY DEF Restart
  <2>2. old \in ExchangeRow /\ WithinLimit(old)
    BY RowBefore
  <2>. HIDE DEF old
  <2>3. ASSUME NEW stage \in LaterStages, old.stage # "none"
        PROVE  [old EXCEPT !.stage = stage] \in ExchangeRow
               /\ WithinLimit([old EXCEPT !.stage = stage])
    <3>1. /\ [old EXCEPT !.stage = stage]
               = Restaged(old, stage, old.process, old.status)
          /\ old.status \in Statuses
          /\ old.process \in Processes
      BY <2>2, RowUpdates, RowFields
    <3>2. /\ Restaged(old, stage, old.process, old.status) \in ExchangeRow
          /\ WithinLimit(Restaged(old, stage, old.process, old.status))
      BY <2>2, <2>3, <3>1, RowUpdated
    <3>. QED
      BY <3>1, <3>2
  <2>. QED
    BY <2>1, <2>2, <2>3, LaterMembers DEF old
<1>3. order' \in [Orders -> ExchangeRow]
  BY <1>2 DEF Restart
<1>4. \A p \in Processes : \A o \in resting'[p] :
        p # proc /\ o \in resting[p] /\ o \in Orders
  BY <1>1
<1>5. \A p \in Processes : \A o \in resting'[p] :
        Alive(order'[o]) /\ order'[o].process = p
  BY <1>2, <1>4 DEF ExchangeInv
<1>6. resting' \in [Processes -> SUBSET Orders] /\ failures' \in Nat /\ failures' # 0
  BY <1>1
<1>7. (\A o \in Orders : WithinLimit(order[o]))'
  BY <1>2 DEF WithinLimit
<1>8. (\A p \in Processes : \A o \in resting[p] :
         Alive(order[o]) /\ order[o].process = p)'
  BY <1>5 DEF Alive, Cancelable
<1>. QED
  BY <1>3, <1>6, <1>7, <1>8 DEF ExchangeInv

LEMMA ExchangeStep ==
  ASSUME ExchangeInv, [ExchangeNext]_exchangeVars
  PROVE  ExchangeInv'
<1>1. CASE UNCHANGED exchangeVars
  BY <1>1 DEF exchangeVars, ExchangeInv, WithinLimit, Alive, Waits, Cancelable
<1>. QED
  BY <1>1, PlaceKeeps, CommitPlacedKeeps, LosePlacedKeeps, CancelOrderKeeps,
     CommitCanceledKeeps, LoseCanceledKeeps, RestartKeeps DEF ExchangeNext

\* Rows, fills and memories agree at every step: only the process that placed an
\* order remembers it, what it remembers can be filled, and as long as nothing
\* has failed every waiting order is remembered.
THEOREM ExchangeInvariant == ExchangeSpec => []ExchangeInv
BY ExchangeInitInv, ExchangeStep, PTL DEF ExchangeSpec

\* No walk of any book, however many levels it has, and no fill at a candle's
\* price goes past the limit the order was given.
THEOREM LimitPriceTheorem == ExchangeSpec => []LimitPriceRespected
<1>1. ExchangeInv => LimitPriceRespected
  BY DEF ExchangeInv, LimitPriceRespected, WithinLimit
<1>. QED
  BY <1>1, ExchangeInvariant, PTL

\* _open_orders never keeps an order that is filled, canceled or being canceled,
\* whatever handlers and restarts do between placing and committing it.
THEOREM RestingTheorem == ExchangeSpec => []RestingIsAlive
<1>1. ExchangeInv => RestingIsAlive
  BY DEF ExchangeInv, RestingIsAlive, Alive
<1>. QED
  BY <1>1, ExchangeInvariant, PTL

\* Until a process restarts or a commit fails, every NEW order row can be
\* canceled in some process.
THEOREM CancelableTheorem == ExchangeSpec => []CancelableUntilFailure
<1>1. ExchangeInv => CancelableUntilFailure
  BY DEF ExchangeInv, CancelableUntilFailure, NewOrdersCancelable, Waits
<1>. QED
  BY <1>1, ExchangeInvariant, PTL

-----------------------------------------------------------------------------
\* A walk takes all of every level before one, and nothing of any level after it.
LEMMA WalkHasMargin ==
  ASSUME NEW levels \in Levels, NEW quantity \in Nat, quantity > 0, Len(levels) > 0
  PROVE  \E m \in 1 .. Len(levels) : \A i \in 1 .. Len(levels) :
           /\ i < m => TakenOf(levels, quantity)[i] = levels[i].size
           /\ i > m => TakenOf(levels, quantity)[i] = 0
<1>. DEFINE n == Len(levels)
            W == Walk(levels, quantity)
            taken == TakenOf(levels, quantity)
            K == {k \in 1 .. n : W[1 .. (k - 1)].remaining > 0}
<1>1. n \in Nat /\ 1 \in 1 .. n
  BY LevelsTyped
<1>2. /\ \A k \in 0 .. n : W[1 .. k].remaining > 0 =>
           \A i \in 1 .. k : taken[i] = levels[i].size
      /\ W[1 .. 0].remaining = quantity
  <2>1. W[{}] = Nothing(quantity)
    BY WalkRecurses DEF Recurses
  <2>. HIDE DEF W, taken
  <2>2. 1 .. 0 = {}
    OBVIOUS
  <2>3. W[1 .. 0].remaining = quantity
    BY <2>1, <2>2 DEF Nothing
  <2>. QED
    BY <2>3, WalkUpto DEF W, taken
<1>3. \A k \in 1 .. n :
        /\ W[1 .. (k - 1)].remaining \in Nat /\ levels[k].size \in Nat
        /\ taken[k] = Least(levels[k].size, W[1 .. (k - 1)].remaining)
  BY WalkOne, LevelsTyped DEF Fill
<1>. HIDE DEF W, taken
<1>4. 1 \in K
  <2>1. 1 - 1 = 0
    OBVIOUS
  <2>. QED
    BY <1>1, <1>2, <2>1
<1>5. PICK m \in K : \A k \in K : k <= m
  <2>. DEFINE f == [k \in K |-> k]
  <2>1. IsFiniteSet(1 .. n) /\ K \in SUBSET (1 .. n)
    BY <1>1, FS_Interval
  <2>2. IsFiniteSet(K) /\ K # {}
    BY <1>4, <2>1, FS_Subset
  <2>3. \A k \in K : f[k] \in Int
    BY <1>1
  <2>4. \E m \in K : \A k \in K : f[k] <= f[m]
    <3>. HIDE DEF f, K
    <3>. QED
      BY <2>2, <2>3, LargestExists
  <2>. QED
    BY <2>4
<1>6. ASSUME NEW i \in 1 .. n, i < m
      PROVE  taken[i] = levels[i].size
  <2>1. m - 1 \in 0 .. n /\ W[1 .. (m - 1)].remaining > 0 /\ i \in 1 .. (m - 1)
    BY <1>1, <1>5, <1>6
  <2>. QED
    BY <1>2, <2>1
<1>7. ASSUME NEW i \in 1 .. n, i > m
      PROVE  taken[i] = 0
  <2>1. i \notin K
    BY <1>1, <1>5, <1>7
  <2>2. W[1 .. (i - 1)].remaining = 0
    BY <1>3, <2>1
  <2>. QED
    BY <1>3, <2>2 DEF Least
<1>8. m \in 1 .. n
  BY <1>5
<1>. QED
  BY <1>6, <1>7, <1>8 DEF taken

\* Of two ways of taking the same quantity, the one that takes more of what is
\* cheaper than some level, and less of what is dearer, costs no more.
Cheaper(S, price, greedy, other) ==
  \E m \in S : \A i \in S : i # m =>
    \/ greedy[i] >= other[i] /\ price[i] <= price[m]
    \/ greedy[i] <= other[i] /\ price[i] >= price[m]

Times(S, price, f) == [i \in S |-> f[i] * price[i]]

LEMMA CheaperCostsLess ==
  ASSUME NEW S, IsFiniteSet(S), NEW price, NEW greedy, NEW other,
         \A i \in S : price[i] \in Int /\ greedy[i] \in Int /\ other[i] \in Int,
         SumFunctionOnSet(greedy, S) = SumFunctionOnSet(other, S),
         Cheaper(S, price, greedy, other)
  PROVE  SumFunctionOnSet(Times(S, price, greedy), S)
           <= SumFunctionOnSet(Times(S, price, other), S)
<1>1. PICK m \in S : \A i \in S : i # m =>
        \/ greedy[i] >= other[i] /\ price[i] <= price[m]
        \/ greedy[i] <= other[i] /\ price[i] >= price[m]
  BY DEF Cheaper
<1>. DEFINE past(f) == [i \in S |-> f[i] * (price[i] - price[m])]
            base(f) == [i \in S |-> price[m] * f[i]]
<1>2. price[m] \in Int
  OBVIOUS
<1>3. ASSUME NEW f, \A i \in S : f[i] \in Int
      PROVE  /\ \A i \in S : past(f)[i] \in Int
             /\ SumFunctionOnSet(Times(S, price, f), S)
                  = SumFunctionOnSet(past(f), S) + price[m] * SumFunctionOnSet(f, S)
  <2>1. ASSUME NEW i \in S
        PROVE  /\ past(f)[i] \in Int /\ base(f)[i] \in Int
               /\ base(f)[i] = price[m] * f[i]
               /\ Times(S, price, f)[i] = past(f)[i] + base(f)[i]
    <3>1. f[i] \in Int /\ price[i] \in Int
      BY <1>3
    <3>2. \A x, p, q \in Int : x * p = x * (p - q) + q * x
      OBVIOUS
    <3>. QED
      BY <1>2, <3>1, <3>2 DEF Times
  <2>2. SumFunctionOnSet(Times(S, price, f), S)
          = SumFunctionOnSet(past(f), S) + SumFunctionOnSet(base(f), S)
    <3>. DEFINE a == past(f)
                b == base(f)
    <3>1. \A i \in S : a[i] \in Int /\ b[i] \in Int
                       /\ Times(S, price, f)[i] = a[i] + b[i]
      BY <2>1
    <3>. HIDE DEF a, b
    <3>2. SumFunctionOnSet(Times(S, price, f), S)
            = SumFunctionOnSet(a, S) + SumFunctionOnSet(b, S)
      BY <3>1, SumPlus
    <3>. QED
      BY <3>2 DEF a, b
  <2>3. SumFunctionOnSet(base(f), S) = price[m] * SumFunctionOnSet(f, S)
    <3>. DEFINE b == base(f)
    <3>1. \A i \in S : f[i] \in Int /\ b[i] = price[m] * f[i]
      BY <1>3, <2>1
    <3>. HIDE DEF b
    <3>2. SumFunctionOnSet(b, S) = price[m] * SumFunctionOnSet(f, S)
      BY <1>2, <3>1, SumScaled
    <3>. QED
      BY <3>2 DEF b
  <2>. QED
    BY <2>1, <2>2, <2>3
<1>4. SumFunctionOnSet(past(greedy), S) <= SumFunctionOnSet(past(other), S)
  <2>. DEFINE a == past(greedy)
              b == past(other)
  <2>1. ASSUME NEW i \in S
        PROVE  a[i] \in Int /\ b[i] \in Int /\ a[i] <= b[i]
    <3>1. /\ a[i] = greedy[i] * (price[i] - price[m])
          /\ b[i] = other[i] * (price[i] - price[m])
          /\ greedy[i] \in Int /\ other[i] \in Int /\ price[i] \in Int
      OBVIOUS
    <3>2. \A x, y, d \in Int :
            (x >= y /\ d <= 0) \/ (x <= y /\ d >= 0) => x * d <= y * d
      <4>1. \A x, d \in Int : (x >= 0 /\ d >= 0) => x * d >= 0
        OBVIOUS
      <4>. TAKE x, y, d \in Int
      <4>. HAVE (x >= y /\ d <= 0) \/ (x <= y /\ d >= 0)
      <4>2. CASE x >= y /\ d <= 0
        <5>1. (x - y) * (0 - d) >= 0
          BY <4>1, <4>2
        <5>2. (x - y) * (0 - d) = y * d - x * d
          OBVIOUS
        <5>3. x * d \in Int /\ y * d \in Int
          OBVIOUS
        <5>. QED
          BY <5>1, <5>2, <5>3
      <4>3. CASE x <= y /\ d >= 0
        <5>1. (y - x) * d >= 0
          BY <4>1, <4>3
        <5>2. (y - x) * d = y * d - x * d
          OBVIOUS
        <5>3. x * d \in Int /\ y * d \in Int
          OBVIOUS
        <5>. QED
          BY <5>1, <5>2, <5>3
      <4>. QED
        BY <4>2, <4>3
    <3>. DEFINE d == price[i] - price[m]
    <3>3. d \in Int
      BY <1>2, <3>1
    <3>4. (greedy[i] >= other[i] /\ d <= 0) \/ (greedy[i] <= other[i] /\ d >= 0)
      <4>1. CASE i = m
        <5>1. d = 0
          BY <1>2, <4>1
        <5>. QED
          BY <3>1, <5>1
      <4>2. CASE i # m
        BY <1>1, <1>2, <3>1, <4>2
      <4>. QED
        BY <4>1, <4>2
    <3>5. a[i] = greedy[i] * d /\ b[i] = other[i] * d
      BY <3>1
    <3>. HIDE DEF a, b, d
    <3>6. greedy[i] * d \in Int /\ other[i] * d \in Int
      BY <3>1, <3>3
    <3>. QED
      BY <3>1, <3>2, <3>3, <3>4, <3>5, <3>6
  <2>. HIDE DEF a, b
  <2>2. SumFunctionOnSet(a, S) <= SumFunctionOnSet(b, S)
    BY <2>1, SumMonotone
  <2>. QED
    BY <2>2 DEF a, b
<1>. HIDE DEF past, base
<1>5. /\ SumFunctionOnSet(Times(S, price, greedy), S)
           = SumFunctionOnSet(past(greedy), S) + price[m] * SumFunctionOnSet(greedy, S)
      /\ SumFunctionOnSet(Times(S, price, other), S)
           = SumFunctionOnSet(past(other), S) + price[m] * SumFunctionOnSet(other, S)
      /\ \A i \in S : past(greedy)[i] \in Int /\ past(other)[i] \in Int
  BY <1>3
<1>6. /\ SumFunctionOnSet(past(greedy), S) \in Int
      /\ SumFunctionOnSet(past(other), S) \in Int
      /\ SumFunctionOnSet(other, S) \in Int
  BY <1>5, SumType
<1>7. price[m] * SumFunctionOnSet(other, S) \in Int
  BY <1>2, <1>6
<1>. QED
  BY <1>4, <1>5, <1>6, <1>7

\* The levels of a snapshot are sorted, best first, as the venue sends them:
\* nothing in the code sorts them.
SortedBooks ==
  \A b \in Books :
    /\ \A i, k \in DOMAIN b.asks : i < k => b.asks[i].price <= b.asks[k].price
    /\ \A i, k \in DOMAIN b.bids : i < k => b.bids[i].price >= b.bids[k].price

Sorted(side, levels) ==
  \A i, k \in DOMAIN levels : i < k =>
    IF side = "BUY" THEN levels[i].price <= levels[k].price
                    ELSE levels[i].price >= levels[k].price

LEMMA WalkFillsWhatThereIs ==
  ASSUME NEW levels \in Levels, NEW quantity \in Nat
  PROVE  /\ SumFunctionOnSet(SizeOf(levels), 1 .. Len(levels)) \in Int
         /\ WalkLevels(levels, quantity).filled
              = Least(quantity, SumFunctionOnSet(SizeOf(levels), 1 .. Len(levels)))
<1>. DEFINE n == Len(levels)
            fill == WalkLevels(levels, quantity)
            taken == TakenOf(levels, quantity)
            size == SizeOf(levels)
<1>1. /\ n \in Nat /\ IsFiniteSet(1 .. n) /\ DOMAIN levels = 1 .. n
      /\ \A i \in 1 .. n : levels[i].size \in Nat
  <2>1. n \in Nat /\ DOMAIN levels = 1 .. n /\ \A i \in 1 .. n : levels[i].size \in Nat
    BY LevelsTyped
  <2>2. IsFiniteSet(1 .. n)
    BY <2>1, FS_Interval
  <2>. QED
    BY <2>1, <2>2
<1>2. /\ fill \in Fill /\ fill.filled + fill.remaining = quantity
      /\ fill.filled = SumFunctionOnSet(taken, 1 .. n)
      /\ fill.remaining > 0 => \A i \in 1 .. n : taken[i] = levels[i].size
      /\ \A i \in 1 .. n : taken[i] \in Nat /\ taken[i] <= levels[i].size
  BY WalkTotals
<1>3. \A i \in 1 .. n : size[i] = levels[i].size
  BY <1>1 DEF SizeOf
<1>. HIDE DEF fill, taken, size, n
<1>4. SumFunctionOnSet(size, 1 .. n) \in Int
  <2>1. \A i \in 1 .. n : size[i] \in Int
    BY <1>1, <1>3
  <2>. QED
    BY <1>1, <2>1, SumType
<1>5. SumFunctionOnSet(taken, 1 .. n) <= SumFunctionOnSet(size, 1 .. n)
  <2>1. \A i \in 1 .. n : taken[i] \in Int /\ size[i] \in Int /\ taken[i] <= size[i]
    BY <1>1, <1>2, <1>3
  <2>. QED
    BY <1>1, <2>1, SumMonotone
<1>6. fill.remaining \in Nat /\ fill.filled \in Nat
  BY <1>2 DEF Fill
<1>7. CASE fill.remaining > 0
  <2>1. \A i \in 1 .. n : size[i] \in Int /\ taken[i] = size[i]
    BY <1>1, <1>2, <1>3, <1>7
  <2>2. SumFunctionOnSet(taken, 1 .. n) = SumFunctionOnSet(size, 1 .. n)
    BY <1>1, <2>1, SumSame
  <2>. QED
    BY <1>2, <1>4, <1>6, <1>7, <2>2 DEF Least, fill, taken, size, n
<1>8. CASE fill.remaining = 0
  BY <1>2, <1>4, <1>5, <1>6, <1>8 DEF Least, fill, taken, size, n
<1>. QED
  BY <1>6, <1>7, <1>8

\* The walk of a sorted book is the cheapest taking of what it fills.
LEMMA WalkIsBest ==
  ASSUME NEW side, NEW levels \in Levels, NEW quantity \in Nat, quantity > 0,
         Sorted(side, levels), Len(levels) > 0,
         NEW take, \A i \in 1 .. Len(levels) : take[i] \in Nat /\ take[i] <= levels[i].size,
         SumFunctionOnSet(take, 1 .. Len(levels)) = WalkLevels(levels, quantity).filled
  PROVE  LET spent == WalkLevels(levels, quantity).notional
             cost == SumFunctionOnSet(CostOf(levels, take), 1 .. Len(levels))
         IN IF side = "BUY" THEN spent <= cost ELSE spent >= cost
<1>. DEFINE n == Len(levels)
            fill == WalkLevels(levels, quantity)
            taken == TakenOf(levels, quantity)
            sign == IF side = "BUY" THEN 1 ELSE -1
            price == [i \in 1 .. n |-> sign * levels[i].price]
            S == 1 .. n
<1>1. /\ n \in Nat /\ IsFiniteSet(S) /\ DOMAIN levels = S
      /\ \A i \in S : levels[i].size \in Nat /\ levels[i].price \in Nat
  <2>1. /\ n \in Nat /\ DOMAIN levels = S
        /\ \A i \in S : levels[i].size \in Nat /\ levels[i].price \in Nat
    BY LevelsTyped
  <2>2. IsFiniteSet(S)
    BY <2>1, FS_Interval
  <2>. QED
    BY <2>1, <2>2
<1>2. /\ fill.filled = SumFunctionOnSet(taken, S)
      /\ fill.notional = SumFunctionOnSet(CostOf(levels, taken), S)
      /\ \A i \in S : taken[i] \in Nat
  BY WalkTotals
<1>3. PICK m \in S : \A i \in S :
        /\ i < m => taken[i] = levels[i].size
        /\ i > m => taken[i] = 0
  BY WalkHasMargin
<1>. HIDE DEF taken, fill
<1>4. sign \in Int /\ sign \in {1, -1}
  OBVIOUS
<1>5. \A i \in S : price[i] = sign * levels[i].price /\ price[i] \in Int
  BY <1>1, <1>4
<1>6. \A i, k \in S : i < k => price[i] <= price[k]
  <2>1. ASSUME NEW i \in S, NEW k \in S, i < k
        PROVE  price[i] <= price[k]
    <3>1. IF side = "BUY" THEN levels[i].price <= levels[k].price
                          ELSE levels[i].price >= levels[k].price
      BY <1>1, <2>1 DEF Sorted
    <3>2. levels[i].price \in Nat /\ levels[k].price \in Nat
      BY <1>1
    <3>. QED
      BY <3>1, <3>2
  <2>. QED
    BY <2>1
<1>. HIDE DEF price
<1>7. Cheaper(S, price, taken, take)
  <2>1. ASSUME NEW i \in S, i # m
        PROVE  \/ taken[i] >= take[i] /\ price[i] <= price[m]
               \/ taken[i] <= take[i] /\ price[i] >= price[m]
    <3>1. take[i] \in Nat /\ take[i] <= levels[i].size
      OBVIOUS
    <3>2. CASE i < m
      BY <1>3, <1>6, <3>1, <3>2
    <3>3. CASE i > m
      BY <1>3, <1>5, <1>6, <3>1, <3>3
    <3>. QED
      BY <1>1, <2>1, <3>2, <3>3
  <2>. QED
    BY <2>1 DEF Cheaper
<1>8. SumFunctionOnSet(Times(S, price, taken), S) <= SumFunctionOnSet(Times(S, price, take), S)
  <2>1. \A i \in S : price[i] \in Int /\ taken[i] \in Int /\ take[i] \in Int
    BY <1>2, <1>5
  <2>2. SumFunctionOnSet(taken, S) = SumFunctionOnSet(take, S)
    BY <1>2 DEF fill
  <2>. HIDE DEF S
  <2>. QED
    BY <1>1, <1>7, <2>1, <2>2, CheaperCostsLess
<1>9. ASSUME NEW f, \A i \in S : f[i] \in Nat
      PROVE  /\ SumFunctionOnSet(Times(S, price, f), S)
                  = sign * SumFunctionOnSet(CostOf(levels, f), S)
             /\ SumFunctionOnSet(CostOf(levels, f), S) \in Int
  <2>. DEFINE cost == CostOf(levels, f)
              times == Times(S, price, f)
  <2>1. ASSUME NEW i \in S
        PROVE  cost[i] \in Int /\ times[i] = sign * cost[i]
    <3>1. f[i] \in Nat /\ levels[i].price \in Nat /\ price[i] = sign * levels[i].price
      BY <1>1, <1>5, <1>9
    <3>2. cost[i] = f[i] * levels[i].price /\ times[i] = f[i] * price[i]
      BY <1>1 DEF CostOf, Times
    <3>3. \A x, p, s \in Int : x * (s * p) = s * (x * p) /\ x * p \in Int
      OBVIOUS
    <3>. QED
      BY <1>4, <3>1, <3>2, <3>3
  <2>. HIDE DEF cost, times, S, sign
  <2>2. SumFunctionOnSet(times, S) = sign * SumFunctionOnSet(cost, S)
    BY <1>1, <1>4, <2>1, SumScaled
  <2>3. SumFunctionOnSet(cost, S) \in Int
    BY <1>1, <2>1, SumType
  <2>. QED
    BY <2>2, <2>3 DEF cost, times
<1>. HIDE DEF sign
<1>10. /\ sign * fill.notional <= sign * SumFunctionOnSet(CostOf(levels, take), S)
       /\ fill.notional \in Int /\ SumFunctionOnSet(CostOf(levels, take), S) \in Int
  BY <1>2, <1>8, <1>9
<1>. QED
  BY <1>10 DEF sign, fill

\* A row keeps the fill the exchange answered with.
AnswerKept ==
  \A o \in Orders : order[o].stage # "none" =>
    /\ order[o].request \in OrderRequests
    /\ order[o].filled = PlaceOrder(order[o].request).filled
    /\ order[o].notional = PlaceOrder(order[o].request).notional

LEMMA AnswerStep ==
  ASSUME ExchangeInv, AnswerKept, [ExchangeNext]_exchangeVars
  PROVE  AnswerKept'
<1>1. order \in [Orders -> ExchangeRow]
  BY DEF ExchangeInv
<1>. SUFFICES ASSUME NEW o \in Orders, order'[o].stage # "none"
              PROVE  /\ order'[o].request \in OrderRequests
                     /\ order'[o].filled = PlaceOrder(order'[o].request).filled
                     /\ order'[o].notional = PlaceOrder(order'[o].request).notional
  BY DEF AnswerKept, PlaceOrder, DepthFill, Crosses, Slipped, Report, Resting
<1>. DEFINE Kept == /\ order[o].stage # "none"
                    /\ order'[o].request = order[o].request
                    /\ order'[o].filled = order[o].filled
                    /\ order'[o].notional = order[o].notional
<1>2. CASE Kept
  BY <1>2 DEF AnswerKept
<1>3. order[o] \in ExchangeRow
  BY <1>1
<1>4. ASSUME NEW q \in Orders, NEW stage, NEW proc, NEW status,
             order[q].stage # "none",
             order' = [order EXCEPT ![q] = Restaged(order[q], stage, proc, status)]
      PROVE  Kept
  <2>1. CASE q = o
    <3>1. order'[o] = Restaged(order[o], stage, proc, status)
      BY <1>1, <1>4, <2>1
    <3>2. ASSUME NEW old \in ExchangeRow
          PROVE  /\ Restaged(old, stage, proc, status).request = old.request
                 /\ Restaged(old, stage, proc, status).filled = old.filled
                 /\ Restaged(old, stage, proc, status).notional = old.notional
      BY DEF Restaged, ExchangeRow
    <3>. QED
      BY <1>3, <1>4, <2>1, <3>1, <3>2
  <2>2. CASE q # o
    BY <1>1, <1>4, <2>2
  <2>. QED
    BY <2>1, <2>2
<1>5. ASSUME NEW q \in Orders
      PROVE  order[q] \in ExchangeRow
  BY <1>1
<1>. HIDE DEF Kept
<1>6. CASE UNCHANGED exchangeVars
  BY <1>2, <1>6 DEF exchangeVars, Kept
<1>7. ASSUME NEW proc \in Processes, NEW q \in Orders, NEW request \in OrderRequests,
             Place(proc, q, request)
      PROVE  /\ order'[o].request \in OrderRequests
             /\ order'[o].filled = PlaceOrder(order'[o].request).filled
             /\ order'[o].notional = PlaceOrder(order'[o].request).notional
  <2>. DEFINE report == PlaceOrder(request)
              new == [stage |-> "placing", process |-> proc,
                      status |-> report.status, filled |-> report.filled,
                      remaining |-> report.remaining,
                      notional |-> report.notional, request |-> request]
  <2>1. order' = [order EXCEPT ![q] = new]
    BY <1>7 DEF Place
  <2>. HIDE DEF report
  <2>2. new.request = request /\ new.filled = report.filled /\ new.notional = report.notional
    OBVIOUS
  <2>. HIDE DEF new
  <2>3. CASE q = o
    <3>1. order'[o] = new
      BY <1>1, <2>1, <2>3
    <3>. QED
      BY <2>2, <3>1 DEF report
  <2>4. CASE q # o
    <3>1. order'[o] = order[o]
      BY <1>1, <2>1, <2>4
    <3>. QED
      BY <1>2, <3>1 DEF Kept
  <2>. QED
    BY <2>3, <2>4
<1>8. ASSUME NEW q \in Orders, CommitPlaced(q) \/ LosePlaced(q) \/ LoseCanceled(q)
      PROVE  Kept
  <2>1. PICK stage : /\ order[q].stage # "none"
                     /\ order' = [order EXCEPT ![q] = [order[q] EXCEPT !.stage = stage]]
    BY <1>8 DEF CommitPlaced, LosePlaced, LoseCanceled
  <2>2. [order[q] EXCEPT !.stage = stage]
          = Restaged(order[q], stage, order[q].process, order[q].status)
    BY <1>5, RowUpdates
  <2>. QED
    BY <1>4, <2>1, <2>2
<1>9. ASSUME NEW proc \in Processes, NEW q \in Orders, CancelOrder(proc, q)
      PROVE  Kept
  <2>1. /\ order[q].stage # "none"
        /\ order' = [order EXCEPT ![q] =
                       [order[q] EXCEPT !.stage = "canceling", !.process = proc]]
    BY <1>9 DEF CancelOrder
  <2>2. [order[q] EXCEPT !.stage = "canceling", !.process = proc]
          = Restaged(order[q], "canceling", proc, order[q].status)
    BY <1>5, RowUpdates
  <2>. QED
    BY <1>4, <2>1, <2>2
<1>10. ASSUME NEW q \in Orders, CommitCanceled(q)
       PROVE  Kept
  <2>1. /\ order[q].stage # "none"
        /\ order' = [order EXCEPT ![q] =
                       [order[q] EXCEPT !.stage = "committed", !.status = "CANCELED"]]
    BY <1>10 DEF CommitCanceled
  <2>. DEFINE new == [order[q] EXCEPT !.stage = "committed", !.status = "CANCELED"]
  <2>2. /\ new.request = order[q].request
        /\ new.filled = order[q].filled
        /\ new.notional = order[q].notional
    BY <1>5 DEF ExchangeRow
  <2>3. order' = [order EXCEPT ![q] = new]
    BY <2>1
  <2>. HIDE DEF new
  <2>4. CASE q = o
    <3>1. order'[o] = new
      BY <1>1, <2>3, <2>4
    <3>. QED
      BY <2>1, <2>2, <2>4, <3>1 DEF Kept
  <2>5. CASE q # o
    <3>1. order'[o] = order[o]
      BY <1>1, <2>3, <2>5
    <3>. QED
      BY <3>1 DEF Kept
  <2>. QED
    BY <2>4, <2>5
<1>11. ASSUME NEW proc \in Processes, Restart(proc)
       PROVE  Kept
  <2>1. \/ order'[o] = order[o]
        \/ order[o].stage = "placing" /\ order'[o] = [order[o] EXCEPT !.stage = "lost"]
        \/ order[o].stage = "canceling"
           /\ order'[o] = [order[o] EXCEPT !.stage = "committed"]
    BY <1>11 DEF Restart
  <2>2. ASSUME NEW old \in ExchangeRow, NEW stage
        PROVE  /\ [old EXCEPT !.stage = stage].request = old.request
               /\ [old EXCEPT !.stage = stage].filled = old.filled
               /\ [old EXCEPT !.stage = stage].notional = old.notional
    BY DEF ExchangeRow
  <2>3. \/ order'[o] = order[o] /\ order[o].stage # "none"
        \/ /\ order[o].stage # "none"
           /\ \E stage : order'[o] = [order[o] EXCEPT !.stage = stage]
    BY <2>1
  <2>4. ASSUME NEW stage, order[o].stage # "none",
               order'[o] = [order[o] EXCEPT !.stage = stage]
        PROVE  Kept
    BY <1>3, <2>2, <2>4 DEF Kept
  <2>. QED
    BY <2>3, <2>4 DEF Kept
<1>. QED
  BY <1>2, <1>6, <1>7, <1>8, <1>9, <1>10, <1>11 DEF ExchangeNext

\* What the exchange answers to a market order on a sorted book.
LEMMA MarketFill ==
  ASSUME SortedBooks, NEW request \in OrderRequests, request.type = "MARKET"
  PROVE  LET levels == IF request.side = "BUY" THEN request.book.asks
                                               ELSE request.book.bids
             size == [i \in DOMAIN levels |-> levels[i].size]
             offered == FoldFunction(+, 0, size)
             report == PlaceOrder(request)
         IN offered > 0 =>
              /\ report.filled = Least(request.quantity, offered)
              /\ \A take \in Takings(levels, report.filled) :
                   IF request.side = "BUY" THEN report.notional <= Cost(levels, take)
                                           ELSE report.notional >= Cost(levels, take)
<1>. DEFINE levels == IF request.side = "BUY" THEN request.book.asks
                                              ELSE request.book.bids
            n == Len(levels)
            offered == FoldFunction(+, 0, [i \in DOMAIN levels |-> levels[i].size])
            fill == WalkLevels(levels, request.quantity)
            report == PlaceOrder(request)
<1>. SUFFICES ASSUME offered > 0
              PROVE  /\ report.filled = Least(request.quantity, offered)
                     /\ \A take \in Takings(levels, report.filled) :
                          IF request.side = "BUY"
                          THEN report.notional <= Cost(levels, take)
                          ELSE report.notional >= Cost(levels, take)
  OBVIOUS
<1>1. /\ levels \in Levels /\ request.quantity \in Nat /\ request.quantity > 0
      /\ request.side \in OrderSides
  BY RequestTyped
<1>2. n \in Nat /\ DOMAIN levels = 1 .. n
  BY <1>1, LevelsTyped
<1>3. offered = SumFunctionOnSet(SizeOf(levels), 1 .. n)
  <2>1. DOMAIN [i \in DOMAIN levels |-> levels[i].size] = 1 .. n
    BY <1>2
  <2>. QED
    BY <2>1 DEF FoldFunction, SumFunctionOnSet, SizeOf
<1>4. Sorted(request.side, levels)
  <2>1. request.book \in Books
    BY DEF OrderRequests
  <2>. QED
    BY <2>1 DEF SortedBooks, Sorted
<1>5. DepthFill(request) = fill
  BY DEF DepthFill
<1>. HIDE DEF fill, offered
<1>6. /\ request.book.known
      /\ n > 0
  <2>1. n # 0
    <3>. HIDE DEF n
    <3>. SUFFICES ASSUME n = 0
                  PROVE  offered = 0
      OBVIOUS
    <3>1. 1 .. 0 = {}
      OBVIOUS
    <3>2. 1 .. n = {}
      BY <3>1
    <3>. QED
      BY <1>3, <3>2, SumEmpty
  <2>2. request.book # NoBook
    <3>. SUFFICES ASSUME request.book = NoBook
                  PROVE  FALSE
      OBVIOUS
    <3>1. request.book.asks = <<>> /\ request.book.bids = <<>>
      BY DEF NoBook
    <3>2. levels = <<>>
      BY <3>1
    <3>. HIDE DEF levels
    <3>3. Len(<<>>) = 0
      OBVIOUS
    <3>4. n = 0
      BY <3>2, <3>3
    <3>. QED
      BY <2>1, <3>4
  <2>3. request.book \in Books
    BY DEF OrderRequests
  <2>4. request.book.known
    BY <2>2, <2>3, ExchangeAssumption DEF ExchangeAssumption
  <2>. HIDE DEF n
  <2>. QED
    BY <1>2, <2>1, <2>4
<1>. HIDE DEF levels, n
<1>7. /\ offered \in Int /\ fill.filled = Least(request.quantity, offered)
      /\ fill.filled > 0
  <2>1. offered \in Int /\ fill.filled = Least(request.quantity, offered)
    BY <1>1, <1>3, WalkFillsWhatThereIs DEF fill, n
  <2>. QED
    BY <1>1, <2>1 DEF Least
<1>8. report.filled = fill.filled /\ report.notional = fill.notional
  BY <1>5, <1>6, <1>7 DEF PlaceOrder, Report
<1>9. ASSUME NEW take \in Takings(levels, report.filled)
      PROVE  IF request.side = "BUY" THEN report.notional <= Cost(levels, take)
                                     ELSE report.notional >= Cost(levels, take)
  <2>1. /\ take \in [DOMAIN levels -> 0 .. report.filled]
        /\ \A i \in DOMAIN levels : take[i] <= levels[i].size
        /\ FoldFunction(+, 0, take) = report.filled
    BY DEF Takings
  <2>2. DOMAIN take = 1 .. n
    BY <1>2, <2>1
  <2>3. SumFunctionOnSet(take, 1 .. n) = fill.filled
    BY <1>8, <2>1, <2>2 DEF FoldFunction, SumFunctionOnSet
  <2>4. \A i \in 1 .. n : take[i] \in Nat /\ take[i] <= levels[i].size
    <3>. DEFINE most == report.filled
    <3>1. take \in [1 .. n -> 0 .. most]
      BY <1>2, <2>1
    <3>2. \A i \in 1 .. n : take[i] <= levels[i].size
      BY <1>2, <2>1
    <3>3. \A x \in 0 .. most : x \in Nat
      <4>. HIDE DEF most
      <4>. QED
        OBVIOUS
    <3>. HIDE DEF most
    <3>. QED
      BY <3>1, <3>2, <3>3
  <2>5. Cost(levels, take) = SumFunctionOnSet(CostOf(levels, take), 1 .. n)
    BY <1>2 DEF Cost, CostOf, SumFunctionOnSet
  <2>6. IF request.side = "BUY"
        THEN fill.notional <= SumFunctionOnSet(CostOf(levels, take), 1 .. n)
        ELSE fill.notional >= SumFunctionOnSet(CostOf(levels, take), 1 .. n)
    BY <1>1, <1>4, <1>6, <2>3, <2>4, WalkIsBest DEF fill, n
  <2>. QED
    BY <1>8, <2>5, <2>6
<1>. QED
  BY <1>7, <1>8, <1>9

\* On books sorted as the venue sorts them, no other way of taking what a market
\* order fills would have been cheaper, and it fills all that is offered of what
\* it asks for (_walk_levels).
THEOREM BestExecutionTheorem ==
  ASSUME SortedBooks
  PROVE  ExchangeSpec => []BestExecution
<1>1. ExchangeInit => AnswerKept
  BY DEF ExchangeInit, AnswerKept, NoOrder
<1>2. ExchangeInv /\ AnswerKept /\ [ExchangeNext]_exchangeVars => AnswerKept'
  BY AnswerStep
<1>3. AnswerKept => BestExecution
  <2>. SUFFICES ASSUME AnswerKept, NEW o \in Orders, order[o].stage # "none",
                       order[o].request.type = "MARKET"
                PROVE  LET request == order[o].request
                           levels == IF request.side = "BUY" THEN request.book.asks
                                                             ELSE request.book.bids
                           size == [i \in DOMAIN levels |-> levels[i].size]
                           offered == FoldFunction(+, 0, size)
                       IN offered > 0 =>
                            /\ order[o].filled = Least(request.quantity, offered)
                            /\ \A take \in Takings(levels, order[o].filled) :
                                 IF request.side = "BUY"
                                 THEN order[o].notional <= Cost(levels, take)
                                 ELSE order[o].notional >= Cost(levels, take)
    BY DEF BestExecution
  <2>1. /\ order[o].request \in OrderRequests
        /\ order[o].filled = PlaceOrder(order[o].request).filled
        /\ order[o].notional = PlaceOrder(order[o].request).notional
    BY DEF AnswerKept
  <2>. QED
    BY <2>1, MarketFill
<1>. QED
  BY <1>1, <1>2, <1>3, ExchangeInvariant, PTL DEF ExchangeSpec

=============================================================================
