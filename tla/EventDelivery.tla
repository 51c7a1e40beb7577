---------------------------- MODULE EventDelivery ----------------------------
(***************************************************************************)
(* What the follower of /ws/events can rely on (app/main.py): the rows of  *)
(* the event log reach it in the order of their ids, each at most once per *)
(* connection, and the only rows it is ever passed over are rows that were *)
(* committed late, after a row with a greater id.                          *)
(***************************************************************************)
EXTENDS Naturals

CONSTANTS
  Clients,          \* the websocket clients
  Ids               \* ids of the rows of event_logs

VARIABLES
  committed,        \* the ids of the rows a reader can see
  late,             \* those committed after a row with a greater id
  sent              \* the ids the connection of each client was sent

deliveryVars == <<committed, late, sent>>

DeliveryInit ==
  /\ committed = {} /\ late = {}
  /\ sent = [c \in Clients |-> {}]

\* A transaction commits the row with id n.
Publish(n) ==
  /\ n \notin committed
  /\ committed' = committed \cup {n}
  /\ late' = IF \E m \in committed : n < m THEN late \cup {n} ELSE late
  /\ UNCHANGED sent

\* The next row is sent: the log up to n is known to the client, but for
\* rows that came late.
Deliver(c, n) ==
  /\ n \in committed
  /\ \A m \in sent[c] : m < n
  /\ \A m \in committed \ sent[c] : m < n => m \in late
  /\ sent' = [sent EXCEPT ![c] = @ \cup {n}]
  /\ UNCHANGED <<committed, late>>

\* A new connection is sent the log from its beginning.
Begin(c) ==
  /\ sent' = [sent EXCEPT ![c] = {}]
  /\ UNCHANGED <<committed, late>>

DeliveryNext ==
  \/ \E n \in Ids : Publish(n)
  \/ \E c \in Clients, n \in Ids : Deliver(c, n)
  \/ \E c \in Clients : Begin(c)

DeliverySpec == DeliveryInit /\ [][DeliveryNext]_deliveryVars

=============================================================================
