--------------------------- MODULE OrdersService ---------------------------
(***************************************************************************)
(* The orders service of api-gateway/: HTTP handlers that place and read   *)
(* orders, and the outbox thread that forwards payment requests, all of    *)
(* them sharing ONE PostgreSQL connection (class Database).                *)
(*                                                                         *)
(* A step is one call into libpqxx, librabbitmq or httplib.  Threads meet  *)
(* in three places:                                                        *)
(*  - the connection accepts one transaction object at a time (`guest`):   *)
(*    constructing a pqxx::work or nontransaction while another one is     *)
(*    registered throws, and nothing waits;                                *)
(*  - the committed tables `db`, and their image `tx` inside the open      *)
(*    transaction;                                                         *)
(*  - the queue payment.requests (`published` counts its messages).        *)
(*                                                                         *)
(* An exception between begin_transaction() and commit() leaves the work   *)
(* object registered: Database keeps it in transaction_ and nobody calls   *)
(* Database::rollback().  Such a transaction is an orphan: its owner has   *)
(* returned, and the connection stays taken until the process ends.        *)
(*                                                                         *)
(* Outside the model: request bodies (a request is `Malformed`, `Rejected` *)
(* by a column constraint, or fine), descriptions and order fields, the    *)
(* instructions inside libpqxx between a transaction's test and set of the *)
(* connection's guest, and update_order_status, which nothing calls.       *)
(***************************************************************************)
EXTENDS Naturals, FiniteSets

CONSTANTS
    Requests,      \* POST /api/orders requests; a request names its order and its event
    Malformed,     \* requests whose body does not parse (json::parse, at, get throw)
    Rejected,      \* requests whose row PostgreSQL refuses (DECIMAL(10,2), VARCHAR(255))
    Readers,       \* GET /api/orders requests, one HTTP thread each
    Outbox,        \* the outbox thread
    Nobody,        \* no transaction is registered on the connection
    BatchLimit,    \* LIMIT 10 of the outbox query
    MaxFaults,     \* bound: database calls that fail for an outside reason
    MaxCrashes,    \* bound: times the process dies
    MaxTime        \* bound: seconds that pass (created_at has one-second resolution)

ASSUME RequestsAssumption ==
    /\ Malformed \subseteq Requests
    /\ Rejected \subseteq Requests
    /\ Outbox \notin Requests \cup Readers
    /\ Nobody \notin Requests \cup Readers \cup {Outbox}
    /\ Requests \cap Readers = {}

ASSUME BoundsAssumption ==
    /\ BatchLimit \in Nat \ {0}
    /\ MaxFaults \in Nat
    /\ MaxCrashes \in Nat
    /\ MaxTime \in Nat

VARIABLES
    up,            \* the process runs
    mqUp,          \* its RabbitMQ connection works
    guest,         \* whose transaction object is registered on the connection
    failed,        \* the open PostgreSQL transaction is in the aborted state
    db,            \* committed tables: rows of orders, PENDING and PROCESSED events
    tx,            \* the same tables as the open transaction sees them
    pc,            \* where each thread is
    reply,         \* HTTP status each request got, 0 while there is none
    created,       \* created_at of each event
    now,           \* the clock, in seconds
    batch,         \* events the outbox pass selected and has not handled
    current,       \* the event the outbox pass is handling
    published,     \* copies of each payment request put on payment.requests
    lost,          \* requests whose publish returned although nothing was delivered
    faults,        \* database calls that failed for an outside reason
    crashes        \* times the process died

dbVars == <<db, tx, guest, failed>>
mqVars == <<mqUp, published, lost>>
outboxVars == <<batch, current>>
envVars == <<faults, crashes, now>>
vars == <<up, dbVars, mqVars, outboxVars, envVars, pc, reply, created>>

Threads == Requests \cup Readers \cup {Outbox}

(* Tables.  orders holds an order by the request that placed it; an event is *)
(* known by the order its payload carries.                                   *)
EmptyTables == [orders |-> {}, pending |-> {}, processed |-> {}]

HandlerSteps == {"order", "event", "commit", "reply"}
OutboxSteps == {"select", "publish", "mark"}

(* Steps a thread is at only between begin_transaction() and its commit().   *)
InTransaction == {"order", "event", "commit", "query", "select", "publish", "mark"}

(* The registered transaction belongs to a thread that has left it behind.   *)
Orphaned == guest # Nobody /\ pc[guest] \notin InTransaction

-----------------------------------------------------------------------------
Init ==
    /\ up = TRUE
    /\ mqUp = TRUE
    /\ guest = Nobody
    /\ failed = FALSE
    /\ db = EmptyTables
    /\ tx = EmptyTables
    /\ pc = [t \in Threads |-> IF t = Outbox THEN "sleep" ELSE "idle"]
    /\ reply = [r \in Requests \cup Readers |-> 0]
    /\ created = [r \in Requests |-> 0]
    /\ now = 0
    /\ batch = {}
    /\ current = Nobody
    /\ published = [r \in Requests |-> 0]
    /\ lost = {}
    /\ faults = 0
    /\ crashes = 0

-----------------------------------------------------------------------------
(* The connection.                                                           *)

(* Mutant: the connection does not check for a registered transaction.       *)
Register_NoGuestCheck(t) ==
    /\ guest' = t
    /\ failed' = FALSE
    /\ tx' = db
    /\ UNCHANGED db

(* The constructor of pqxx::work or nontransaction: registers, then BEGIN.   *)
Register(t) ==
    /\ guest = Nobody
    /\ guest' = t
    /\ failed' = FALSE
    /\ tx' = db
    /\ UNCHANGED db

(* A statement of the open transaction that PostgreSQL executes.             *)
Statement(tables) ==
    /\ tx' = tables
    /\ UNCHANGED <<db, guest, failed>>

(* A statement that throws: PostgreSQL discards what the transaction did and *)
(* refuses its further statements; the object stays registered.              *)
StatementThrows ==
    /\ failed' = TRUE
    /\ tx' = db
    /\ UNCHANGED <<db, guest>>

(* tx.commit(): COMMIT of an aborted transaction rolls back and reports no   *)
(* error, and tx is then the image of db.  The object unregisters itself.    *)
CommitTransaction ==
    /\ db' = tx
    /\ guest' = Nobody
    /\ failed' = FALSE
    /\ UNCHANGED tx

(* tx.commit() that throws: the server may or may not have committed, and    *)
(* the object stays registered.                                              *)
CommitThrows ==
    /\ \E outcome \in {db, tx} : db' = outcome /\ tx' = outcome
    /\ failed' = TRUE
    /\ UNCHANGED guest

(* One database call fails for a reason outside the program.                 *)
Fault ==
    /\ faults < MaxFaults
    /\ faults' = faults + 1
    /\ UNCHANGED <<crashes, now>>

-----------------------------------------------------------------------------
(* POST /api/orders: create_order in an HTTP thread.                         *)

(* The body parses and begin_transaction() succeeds.                         *)
PostBegin(r) ==
    /\ up
    /\ pc[r] = "idle"
    /\ r \notin Malformed
    /\ Register(r)
    /\ pc' = [pc EXCEPT ![r] = "order"]
    /\ UNCHANGED <<up, mqVars, outboxVars, envVars, reply, created>>

(* The body does not parse, or the connection is taken: 400 at once.         *)
PostRefused(r) ==
    /\ up
    /\ pc[r] = "idle"
    /\ r \in Malformed \/ guest # Nobody
    /\ pc' = [pc EXCEPT ![r] = "done"]
    /\ reply' = [reply EXCEPT ![r] = 400]
    /\ UNCHANGED <<up, dbVars, mqVars, outboxVars, envVars, created>>

(* Mutant: the order is inserted in a transaction of its own.                *)
InsertOrder_OwnTransaction(r) ==
    /\ up
    /\ pc[r] = "order"
    /\ r \notin Rejected
    /\ db' = [db EXCEPT !.orders = @ \cup {r}]
    /\ tx' = db'
    /\ pc' = [pc EXCEPT ![r] = "event"]
    /\ UNCHANGED <<up, guest, failed, mqVars, outboxVars, envVars, reply, created>>

InsertOrder(r) ==
    /\ up
    /\ pc[r] = "order"
    /\ r \notin Rejected
    /\ Statement([tx EXCEPT !.orders = @ \cup {r}])
    /\ pc' = [pc EXCEPT ![r] = "event"]
    /\ UNCHANGED <<up, mqVars, outboxVars, envVars, reply, created>>

(* Mutant: the handler publishes the request itself, before the commit.      *)
InsertEvent_Publishes(r) ==
    /\ up
    /\ pc[r] = "event"
    /\ mqUp
    /\ published' = [published EXCEPT ![r] = @ + 1]
    /\ Statement([tx EXCEPT !.pending = @ \cup {r}])
    /\ created' = [created EXCEPT ![r] = now]
    /\ pc' = [pc EXCEPT ![r] = "commit"]
    /\ UNCHANGED <<up, mqUp, lost, outboxVars, envVars, reply>>

InsertEvent(r) ==
    /\ up
    /\ pc[r] = "event"
    /\ Statement([tx EXCEPT !.pending = @ \cup {r}])
    /\ created' = [created EXCEPT ![r] = now]
    /\ pc' = [pc EXCEPT ![r] = "commit"]
    /\ UNCHANGED <<up, mqVars, outboxVars, envVars, reply>>

CommitOrder(r) ==
    /\ up
    /\ pc[r] = "commit"
    /\ CommitTransaction
    /\ pc' = [pc EXCEPT ![r] = "reply"]
    /\ UNCHANGED <<up, mqVars, outboxVars, envVars, reply, created>>

Reply201(r) ==
    /\ up
    /\ pc[r] = "reply"
    /\ pc' = [pc EXCEPT ![r] = "done"]
    /\ reply' = [reply EXCEPT ![r] = 201]
    /\ UNCHANGED <<up, dbVars, mqVars, outboxVars, envVars, created>>

(* Mutant: the exception is swallowed and the handler answers 201.           *)
PostThrows_Says201(r) ==
    /\ up
    /\ pc[r] = "order"
    /\ r \in Rejected
    /\ StatementThrows
    /\ pc' = [pc EXCEPT ![r] = "done"]
    /\ reply' = [reply EXCEPT ![r] = 201]
    /\ UNCHANGED <<up, mqVars, outboxVars, envVars, created>>

(* An exception inside create_order: the handler answers 400 and returns,    *)
(* and its transaction stays registered.                                     *)
PostThrows(r) ==
    /\ up
    /\ \/ /\ pc[r] = "order"
          /\ r \in Rejected
          /\ StatementThrows
          /\ UNCHANGED envVars
       \/ /\ pc[r] \in {"order", "event"}
          /\ Fault
          /\ StatementThrows
       \/ /\ pc[r] = "commit"
          /\ Fault
          /\ CommitThrows
    /\ pc' = [pc EXCEPT ![r] = "done"]
    /\ reply' = [reply EXCEPT ![r] = 400]
    /\ UNCHANGED <<up, mqVars, outboxVars, created>>

-----------------------------------------------------------------------------
(* GET /api/orders and GET /api/orders/{id}: one query in a nontransaction   *)
(* on the handler's stack, which its destructor unregisters.  Which user or  *)
(* order the request names, if any, is left open.                            *)

GetBegin(g) ==
    /\ up
    /\ pc[g] = "idle"
    /\ Register(g)
    /\ pc' = [pc EXCEPT ![g] = "query"]
    /\ UNCHANGED <<up, mqVars, outboxVars, envVars, reply, created>>

(* The list needs a user_id; a taken connection is an exception.             *)
GetRefused(g) ==
    /\ up
    /\ pc[g] = "idle"
    /\ \/ reply' = [reply EXCEPT ![g] = 400]
       \/ guest # Nobody /\ reply' = [reply EXCEPT ![g] = 500]
    /\ pc' = [pc EXCEPT ![g] = "done"]
    /\ UNCHANGED <<up, dbVars, mqVars, outboxVars, envVars, created>>

GetEnd(g) ==
    /\ up
    /\ pc[g] = "query"
    /\ guest' = Nobody
    /\ failed' = FALSE
    /\ \/ /\ \E status \in {200, 404} : reply' = [reply EXCEPT ![g] = status]
          /\ UNCHANGED envVars
       \/ reply' = [reply EXCEPT ![g] = 500] /\ Fault
    /\ pc' = [pc EXCEPT ![g] = "done"]
    /\ UNCHANGED <<up, db, tx, mqVars, outboxVars, created>>

-----------------------------------------------------------------------------
(* The outbox thread: run() calls process_pending_events() once a second.    *)
(* A pass that finds the connection taken throws, is caught and sleeps       *)
(* again, which changes nothing.                                             *)

PassBegin ==
    /\ up
    /\ pc[Outbox] = "sleep"
    /\ Register(Outbox)
    /\ pc' = [pc EXCEPT ![Outbox] = "select"]
    /\ UNCHANGED <<up, mqVars, outboxVars, envVars, reply, created>>

(* Mutant: the query has no ORDER BY.                                        *)
OldestFirst_Any(selected, rows) == TRUE

(* ORDER BY created_at ASC LIMIT 10; events of one second come in any order. *)
OldestFirst(selected, rows) ==
    \A e \in selected, f \in rows \ selected : created[e] <= created[f]

(* Mutant: the loop over the rows starts at the second one.                  *)
SelectPending_SkipsFirst ==
    /\ up
    /\ pc[Outbox] = "select"
    /\ \E selected \in SUBSET tx.pending, first \in Requests :
          /\ \/ selected = tx.pending /\ Cardinality(selected) <= BatchLimit
             \/ Cardinality(selected) = BatchLimit
          /\ OldestFirst(selected, tx.pending)
          /\ selected # {} => first \in selected /\ OldestFirst({first}, selected)
          /\ batch' = selected \ {first}
    /\ pc' = [pc EXCEPT ![Outbox] = "publish"]
    /\ UNCHANGED <<up, dbVars, mqVars, envVars, current, reply, created>>

SelectPending ==
    /\ up
    /\ pc[Outbox] = "select"
    /\ \E selected \in SUBSET tx.pending :
          /\ \/ selected = tx.pending /\ Cardinality(selected) <= BatchLimit
             \/ Cardinality(selected) = BatchLimit
          /\ OldestFirst(selected, tx.pending)
          /\ batch' = selected
    /\ pc' = [pc EXCEPT ![Outbox] = "publish"]
    /\ UNCHANGED <<up, dbVars, mqVars, envVars, current, reply, created>>

(* Mutant: the result of publish is not looked at.                           *)
Publish_IgnoresFailure ==
    /\ up
    /\ pc[Outbox] = "publish"
    /\ \E e \in batch :
          /\ OldestFirst({e}, batch)
          /\ batch' = batch \ {e}
          /\ published' = IF mqUp THEN [published EXCEPT ![e] = @ + 1] ELSE published
          /\ current' = e
    /\ pc' = [pc EXCEPT ![Outbox] = "mark"]
    /\ UNCHANGED <<up, mqUp, lost, dbVars, envVars, reply, created>>

(* Next row of the result, then MessageQueue::publish, which returns (the    *)
(* message reached the queue), returns although the connection broke after   *)
(* queue_declare answered (no publisher confirms), or throws.                *)
Publish ==
    /\ up
    /\ pc[Outbox] = "publish"
    /\ \E e \in batch :
          /\ OldestFirst({e}, batch)
          /\ batch' = batch \ {e}
          /\ \/ /\ mqUp
                /\ published' = [published EXCEPT ![e] = @ + 1]
                /\ current' = e
                /\ pc' = [pc EXCEPT ![Outbox] = "mark"]
                /\ UNCHANGED <<mqUp, lost>>
             \/ /\ mqUp
                /\ mqUp' = FALSE
                /\ lost' = lost \cup {e}
                /\ current' = e
                /\ pc' = [pc EXCEPT ![Outbox] = "mark"]
                /\ UNCHANGED published
             \/ /\ ~mqUp
                /\ UNCHANGED <<mqVars, current, pc>>
    /\ UNCHANGED <<up, dbVars, envVars, reply, created>>

(* Mutant: the event keeps its status PENDING.                               *)
MarkProcessed_NoUpdate ==
    /\ up
    /\ pc[Outbox] = "mark"
    /\ current' = Nobody
    /\ pc' = [pc EXCEPT ![Outbox] = "publish"]
    /\ UNCHANGED <<up, dbVars, envVars, mqVars, batch, reply, created>>

(* UPDATE outbox_events SET status = 'PROCESSED'; an exception is caught per *)
(* event and the loop goes on.                                               *)
MarkProcessed ==
    /\ up
    /\ pc[Outbox] = "mark"
    /\ \/ /\ ~failed
          /\ Statement([tx EXCEPT !.pending = @ \ {current},
                                  !.processed = @ \cup {current}])
          /\ UNCHANGED envVars
       \/ failed /\ StatementThrows /\ UNCHANGED envVars
       \/ ~failed /\ Fault /\ StatementThrows
    /\ current' = Nobody
    /\ pc' = [pc EXCEPT ![Outbox] = "publish"]
    /\ UNCHANGED <<up, mqVars, batch, reply, created>>

PassCommit ==
    /\ up
    /\ pc[Outbox] = "publish"
    /\ batch = {}
    /\ CommitTransaction
    /\ pc' = [pc EXCEPT ![Outbox] = "sleep"]
    /\ UNCHANGED <<up, mqVars, outboxVars, envVars, reply, created>>

(* The SELECT or the final commit throws: run() catches it and sleeps, and   *)
(* the transaction stays registered.                                         *)
PassThrows ==
    /\ up
    /\ \/ pc[Outbox] = "select" /\ StatementThrows
       \/ pc[Outbox] = "publish" /\ batch = {} /\ CommitThrows
    /\ Fault
    /\ pc' = [pc EXCEPT ![Outbox] = "sleep"]
    /\ UNCHANGED <<up, mqVars, outboxVars, reply, created>>

-----------------------------------------------------------------------------
(* The environment.                                                          *)

Tick ==
    /\ now < MaxTime
    /\ now' = now + 1
    /\ UNCHANGED <<up, dbVars, mqVars, outboxVars, faults, crashes, pc, reply, created>>

(* The RabbitMQ connection breaks; MessageQueue never opens another one.     *)
MqBreak ==
    /\ up
    /\ mqUp
    /\ mqUp' = FALSE
    /\ UNCHANGED <<up, dbVars, published, lost, outboxVars, envVars, pc, reply, created>>

(* The process dies: PostgreSQL rolls the open transaction back, the clients *)
(* of running handlers get no answer.                                        *)
Crash ==
    /\ up
    /\ crashes < MaxCrashes
    /\ crashes' = crashes + 1
    /\ up' = FALSE
    /\ guest' = Nobody
    /\ failed' = FALSE
    /\ tx' = db
    /\ batch' = {}
    /\ current' = Nobody
    /\ pc' = [t \in Threads |->
                 CASE t = Outbox -> "sleep"
                   [] t # Outbox /\ pc[t] = "idle" -> "idle"
                   [] OTHER -> "done"]
    /\ UNCHANGED <<db, mqVars, faults, now, reply, created>>

(* main() connects to PostgreSQL and RabbitMQ; initialize_schema() keeps the *)
(* tables that exist.                                                        *)
Restart ==
    /\ ~up
    /\ up' = TRUE
    /\ mqUp' = TRUE
    /\ UNCHANGED <<dbVars, published, lost, outboxVars, envVars, pc, reply, created>>

-----------------------------------------------------------------------------
(* Steps a thread of the program takes once its request has arrived.         *)
HandlerStep(r) ==
    \/ InsertOrder(r)
    \/ InsertEvent(r)
    \/ CommitOrder(r)
    \/ Reply201(r)
    \/ PostThrows(r)

OutboxStep ==
    \/ PassBegin
    \/ SelectPending
    \/ Publish
    \/ MarkProcessed
    \/ PassCommit
    \/ PassThrows

Next ==
    \/ \E r \in Requests : PostBegin(r) \/ PostRefused(r) \/ HandlerStep(r)
    \/ \E g \in Readers : GetBegin(g) \/ GetRefused(g) \/ GetEnd(g)
    \/ OutboxStep
    \/ Tick
    \/ MqBreak
    \/ Crash
    \/ Restart

(* Threads are scheduled; that requests arrive, the connection breaks or the *)
(* process is restarted is never assumed.                                    *)
Fairness ==
    /\ \A r \in Requests : WF_vars(HandlerStep(r))
    /\ \A g \in Readers : WF_vars(GetEnd(g))
    /\ WF_vars(OutboxStep)

Spec == Init /\ [][Next]_vars

FairSpec == Spec /\ Fairness
-----------------------------------------------------------------------------
(* Properties.                                                               *)

Tables == [orders : SUBSET Requests, pending : SUBSET Requests,
           processed : SUBSET Requests]

ControlType ==
    /\ up \in BOOLEAN
    /\ pc \in [Threads -> {"idle", "sleep", "done", "query"} \cup HandlerSteps \cup OutboxSteps]
    /\ reply \in [Requests \cup Readers -> {0, 200, 201, 400, 404, 500}]
    /\ \A r \in Requests : reply[r] \in {0, 201, 400}
    /\ \A g \in Readers : reply[g] \in {0, 200, 400, 404, 500}
    /\ batch \subseteq Requests
    /\ current \in Requests \cup {Nobody}
    /\ pc[Outbox] = "mark" <=> current # Nobody

ConnectionType ==
    /\ guest \in Threads \cup {Nobody}
    /\ failed \in BOOLEAN
    /\ db \in Tables
    /\ tx \in Tables

MessagesType ==
    /\ mqUp \in BOOLEAN
    /\ published \in [Requests -> Nat]
    /\ lost \subseteq Requests
    /\ created \in [Requests -> Nat]
    /\ now \in Nat
    /\ faults \in Nat
    /\ crashes \in Nat

(* Every variable keeps its type; POST answers only 201 or 400 and GET never *)
(* 201.                                                                      *)
TypeOK == ControlType /\ ConnectionType /\ MessagesType

(* HTTP threads and the outbox thread share one connection without a lock,   *)
(* and still at most one of them is ever between begin_transaction() (or the *)
(* start of a query) and its end: the others were thrown out by libpqxx.     *)
SingleTransaction ==
    \A t \in Threads : pc[t] \in InTransaction => guest = t

(* create_order writes both rows or none: after any failure, crash or        *)
(* interleaving a committed order has exactly one committed event, and a     *)
(* committed event has its order.                                            *)
OutboxAtomicity ==
    /\ db.orders = db.pending \cup db.processed
    /\ db.pending \cap db.processed = {}

(* process_pending_events publishes from inside its own open transaction,    *)
(* yet a payment is never requested for an order that is not committed.      *)
NoPhantomRequests ==
    \A r \in Requests : published[r] > 0 \/ r \in lost => r \in db.orders

(* No request is forgotten: an event is PROCESSED only when its publish      *)
(* returned, and then the message is on the queue unless the RabbitMQ        *)
(* connection broke under it.                                                *)
ProcessedWasPublished ==
    \A r \in db.processed : published[r] > 0 \/ r \in lost

(* The client can rely on the status: 201 means the order is committed, and, *)
(* as long as no database call failed for an outside reason, 400 means it is *)
(* not and never will be.                                                    *)
AnswersAreTrue ==
    /\ \A r \in Requests : reply[r] = 201 => r \in db.orders
    /\ faults = 0 => \A r \in Requests : reply[r] = 400 => r \notin db.orders

(* The outbox delivers at least once; each further copy of a request costs a *)
(* crash or a failed database call of the pass that published it.            *)
DuplicatesNeedFailures ==
    \A r \in Requests : published[r] <= 1 + faults + crashes

(* Requests leave in the order of their created_at: an event is published    *)
(* for the first time only when every pending event of an earlier second has *)
(* been published, whatever batches, failures and restarts came between.     *)
OldestPublishedFirst ==
    [][\A r \in Requests :
          published[r] = 0 /\ published'[r] > 0 =>
             \A s \in db.pending : created[s] < created[r] => published[s] > 0]_vars

(* A transaction that an exception left registered blocks the service: until *)
(* the process ends no order is committed, no request is published and the   *)
(* connection stays taken.                                                   *)
OrphanBlocksService ==
    [][Orphaned /\ up' => UNCHANGED <<guest, db, published, lost>>]_vars

(* A pending event is eventually PROCESSED, for any interleaving with HTTP   *)
(* threads and any batch limit, unless the connection is orphaned, RabbitMQ  *)
(* is gone or the process is down.                                           *)
PendingIsForwarded ==
    \A r \in Requests \ Rejected :
        r \in db.pending ~> (r \in db.processed \/ Orphaned \/ ~mqUp \/ ~up)

(* The service implements the abstract OrderPlacement.                       *)
Placement == INSTANCE OrderPlacement
    WITH placed <- db.orders,
         confirmed <- {r \in Requests : reply[r] = 201},
         requested <- {r \in Requests : published[r] > 0}

(* Connections, failed transactions, crashes and repeated publishes look     *)
(* from outside like placing, confirming and requesting each order once.     *)
ImplementsPlacement == Placement!PlacementSpec
=============================================================================
