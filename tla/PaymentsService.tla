-------------------------- MODULE PaymentsService --------------------------
(***************************************************************************)
(* The payments service of api-gateway/: the inbox thread that turns        *)
(* payment requests into verdicts, the outbox thread that publishes them,  *)
(* and the HTTP threads that open accounts, deposit and read balances, all *)
(* over ONE PostgreSQL connection and ONE Database::transaction_ slot.     *)
(*                                                                         *)
(* A step is one call into libpqxx, librabbitmq or httplib.  What makes    *)
(* this service different from the orders service is that its threads end  *)
(* a transaction twice: tx.commit() on their own reference, then           *)
(* db_->commit() (or rollback()) on whatever the slot holds by then, which *)
(* is a commit() and a reset().  Before each of the two another thread may *)
(* have begun its transaction and put it in the slot, and the commit()     *)
(* ends it, or the reset() rolls it back, under its owner.  The variable   *)
(* `raced` remembers that this has happened.                               *)
(*                                                                         *)
(* The owner of a freed transaction goes on with a dangling reference,     *)
(* which is undefined behaviour.  The build can produce three outcomes:    *)
(* the call throws, the process dies, or the allocator has given the same  *)
(* block to the transaction now in the slot and the call acts on that one. *)
(*                                                                         *)
(* Outside the model: the instructions inside one library call, fractions  *)
(* of a cent (amounts are whole cents), created_at (rows of one second     *)
(* have no order), and bodies that do not parse.                           *)
(***************************************************************************)
EXTENDS Integers, FiniteSets, Functions

CONSTANTS
    Users, Orders,
    Messages,        \* messages of payment.requests, copies included
    Request(_),      \* [order, user, amount] a message carries
    Deposits,        \* POST /api/accounts/{user}/deposit requests
    Deposit(_),      \* [user, amount] of a deposit
    Openings,        \* POST /api/accounts requests
    Owner(_),        \* the user an opening or a reading is for
    Readers,         \* GET /api/accounts/{user}/balance requests
    Inbox, Outbox,   \* the two worker threads
    Pay,             \* the transaction object of process_payment
    Nobody,
    Limit,           \* largest value a DECIMAL(10,2) balance can hold
    BatchLimit,      \* LIMIT 10 of the outbox query
    MaxFaults,       \* bound: database calls that fail for an outside reason
    MaxCrashes       \* bound: times the process is killed

Threads == {Inbox, Outbox} \cup Deposits \cup Openings \cup Readers

ASSUME NamesAssumption ==
    /\ Inbox # Outbox
    /\ {Inbox, Outbox} \cap (Deposits \cup Openings \cup Readers) = {}
    /\ Deposits \cap (Openings \cup Readers) = {}
    /\ Openings \cap Readers = {}
    /\ Pay \notin Threads
    /\ Nobody \notin Threads \cup {Pay} \cup Messages

ASSUME DataAssumption ==
    /\ \A m \in Messages : Request(m) \in [order : Orders, user : Users, amount : Int]
    /\ \A d \in Deposits : Deposit(d) \in [user : Users, amount : Int]
    /\ \A c \in Openings \cup Readers : Owner(c) \in Users
    /\ Limit \in Nat
    /\ BatchLimit \in Nat \ {0}
    /\ MaxFaults \in Nat
    /\ MaxCrashes \in Nat

VARIABLES
    up,            \* the process runs
    mqUp,          \* the outbox thread's RabbitMQ connection works
    slot,          \* whose transaction object Database::transaction_ holds
    state,         \* its state, "none" when the slot is empty
    stack,         \* thread with a transaction object on its stack (query, execute)
    failed,        \* the slot's transaction is aborted in PostgreSQL
    db,            \* committed tables
    tx,            \* the tables as the slot's transaction sees them
    pc,            \* where each thread is
    reply,         \* HTTP status of each request, 0 while there is none
    mq,            \* where each message of payment.requests is
    msg,           \* message the inbox thread handles
    success,       \* verdict process_payment returned
    seen,          \* account.version process_payment read
    batch,         \* results the outbox pass selected and has not handled
    current,       \* the result the outbox pass is handling
    published,     \* copies of each result put on payment.results
    lost,          \* results whose publish returned although nothing was delivered
    raced,         \* a thread ended a transaction that another one was using
    faults,        \* database calls that failed for an outside reason
    crashes        \* times the process died

connVars == <<slot, state, stack, failed, db, tx>>
inboxVars == <<mq, msg, success, seen>>
mqVars == <<mqUp, published, lost>>
outboxVars == <<mqVars, batch, current>>
envVars == <<faults, crashes>>
vars == <<up, connVars, inboxVars, outboxVars, envVars, pc, reply, raced>>

(* accounts (users, balance, version), inbox_events by order, outbox_events  *)
(* by the message they answer.  credits and debits are the deposits and the  *)
(* payments whose UPDATE the tables contain.                                 *)
EmptyTables ==
    [users |-> {}, balance |-> [u \in Users |-> 0], version |-> [u \in Users |-> 0],
     inbox |-> [o \in Orders |-> "none"],
     event |-> [m \in Messages |-> "none"], verdict |-> [m \in Messages |-> FALSE],
     credits |-> {}, debits |-> {}]

Init ==
    /\ up = TRUE
    /\ mqUp = TRUE
    /\ slot = Nobody
    /\ state = "none"
    /\ stack = Nobody
    /\ failed = FALSE
    /\ db = EmptyTables
    /\ tx = EmptyTables
    /\ pc = [t \in Threads |-> IF t = Inbox THEN "consume" ELSE IF t = Outbox THEN "sleep" ELSE "idle"]
    /\ reply = [t \in Deposits \cup Openings \cup Readers |-> 0]
    /\ mq = [m \in Messages |-> "queued"]
    /\ msg = Nobody
    /\ success = FALSE
    /\ seen = 0
    /\ batch = {}
    /\ current = Nobody
    /\ published = [m \in Messages |-> 0]
    /\ lost = {}
    /\ raced = FALSE
    /\ faults = 0
    /\ crashes = 0

-----------------------------------------------------------------------------
(* The connection and the slot.                                              *)

(* No transaction object is registered: constructing one succeeds.  A commit *)
(* that threw leaves its object registered ("broken").                       *)
Free == state \notin {"active", "broken"} /\ stack = Nobody

(* Mutant: begin_transaction() does not fail on a taken connection.          *)
Begin_NoFreeTest(object) ==
    /\ slot' = object
    /\ state' = "active"
    /\ failed' = FALSE
    /\ tx' = db
    /\ UNCHANGED <<stack, db>>

(* begin_transaction(): the new object replaces, and frees, the one in the   *)
(* slot.                                                                     *)
Begin(object) ==
    /\ Free
    /\ slot' = object
    /\ state' = "active"
    /\ failed' = FALSE
    /\ tx' = db
    /\ UNCHANGED <<stack, db>>

(* A statement through `object`'s reference reaches the slot's transaction:  *)
(* the slot holds that object, or the reference dangles into its block.      *)
Reaches == slot # Nobody /\ state = "active" /\ ~failed

Executes(tables) ==
    /\ Reaches
    /\ tx' = tables
    /\ UNCHANGED <<slot, state, stack, failed, db>>

(* PostgreSQL refuses the statement: the transaction is aborted on the       *)
(* server, its object stays as it is.                                        *)
Refuses ==
    /\ Reaches
    /\ failed' = TRUE
    /\ tx' = db
    /\ UNCHANGED <<slot, state, stack, db>>

Fault ==
    /\ faults < MaxFaults
    /\ faults' = faults + 1
    /\ UNCHANGED crashes

(* A statement or commit through `object`'s reference throws at once: the    *)
(* reference dangles, or its transaction has ended or been aborted.          *)
ThrowsAtOnce(object) ==
    /\ slot # object \/ state # "active" \/ failed
    /\ UNCHANGED <<connVars, envVars>>

StatementThrows(object) ==
    \/ ThrowsAtOnce(object)
    \/ Refuses /\ Fault

(* tx.commit().  COMMIT of a transaction aborted on the server rolls back    *)
(* and reports no error; a second commit is only noted.                      *)
Commits ==
    /\ slot # Nobody
    /\ \/ /\ state = "active"
          /\ db' = tx
          /\ state' = "committed"
          /\ failed' = FALSE
          /\ UNCHANGED <<slot, stack, tx>>
       \/ /\ state = "committed"
          /\ UNCHANGED connVars

CommitFails ==
    /\ state = "active"
    /\ \E outcome \in {db, tx} : db' = outcome /\ tx' = outcome
    /\ state' = "broken"
    /\ failed' = FALSE
    /\ UNCHANGED <<slot, stack>>
    /\ Fault

CommitThrows(object) ==
    \/ /\ slot # object \/ state \in {"aborted", "broken"}
       /\ UNCHANGED <<connVars, envVars>>
    \/ CommitFails

(* tx.abort(): ends an active transaction, throws on a committed one, does   *)
(* nothing on one that has failed.                                           *)
Aborts ==
    /\ slot # Nobody
    /\ \/ /\ state = "active"
          /\ state' = "aborted"
          /\ failed' = FALSE
          /\ tx' = db
          /\ UNCHANGED <<slot, stack, db>>
       \/ /\ state \in {"aborted", "broken"}
          /\ UNCHANGED connVars

AbortThrows(object) ==
    /\ slot # object \/ state = "committed"
    /\ UNCHANGED connVars

(* Another thread's transaction is in the slot and not over.                 *)
Steals(object) ==
    raced' = (raced \/ (slot \notin {object, Nobody} /\ state # "committed"))

EmptySlot == slot' = Nobody /\ state' = "none" /\ failed' = FALSE

(* transaction_.reset(): what the slot holds by now, if anything, is freed,  *)
(* and rolled back if it is not over.                                        *)
Resets(object) ==
    /\ Steals(object)
    /\ tx' = db
    /\ EmptySlot
    /\ UNCHANGED <<stack, db>>

(* Database::commit(), called after tx.commit(), is transaction_->commit()   *)
(* and Resets.  Called at once, the commit() finds a transaction that is     *)
(* over and does nothing: it is then no step of its own.  Called late, it    *)
(* commits the transaction another thread has begun meanwhile, or throws.    *)
DbCommits(object) == state = "active" /\ Steals(object) /\ Commits

DbCommitThrows(object) ==
    /\ Steals(object)
    /\ \/ state \in {"aborted", "broken"} /\ UNCHANGED <<connVars, envVars>>
       \/ CommitFails

(* Database::rollback(), called after tx.abort(), in the same way.           *)
DbAborts(object) == state = "active" /\ Steals(object) /\ Aborts

DbAbortThrows(object) ==
    /\ Steals(object)
    /\ state = "committed"
    /\ UNCHANGED connVars

(* The object of a query or of Database::execute lives on the stack.         *)
PushQuery(t) == Free /\ stack' = t /\ UNCHANGED <<slot, state, failed, db, tx>>
PopQuery == stack' = Nobody /\ UNCHANGED <<slot, state, failed, db, tx>>

-----------------------------------------------------------------------------
(* The inbox thread: consume() delivers with automatic acknowledgement, so a *)
(* message the client has buffered is gone for RabbitMQ.                     *)

Deliver(m) ==
    /\ up
    /\ mq[m] = "queued"
    /\ mq' = [mq EXCEPT ![m] = "buffered"]
    /\ UNCHANGED <<up, connVars, msg, success, seen, outboxVars, envVars, pc, reply, raced>>

Goto(t, step) == pc' = [pc EXCEPT ![t] = step]

(* handle_payment_request returns, normally or by its catch; the request is  *)
(* not seen again.                                                           *)
InboxDone ==
    /\ Goto(Inbox, "consume")
    /\ msg' = Nobody
    /\ success' = FALSE
    /\ seen' = 0
    /\ UNCHANGED mq

(* Takes a message and starts the query for its inbox row.                   *)
InboxTake(m) ==
    /\ up
    /\ pc[Inbox] = "consume"
    /\ mq[m] = "buffered"
    /\ mq' = [mq EXCEPT ![m] = "taken"]
    /\ \/ /\ PushQuery(Inbox)
          /\ Goto(Inbox, "check")
          /\ msg' = m
       \/ /\ ~Free
          /\ UNCHANGED <<connVars, pc, msg>>
    /\ UNCHANGED <<up, success, seen, outboxVars, envVars, reply, raced>>

order == Request(msg).order
user == Request(msg).user
amount == Request(msg).amount

(* The query returns: an order with an inbox row is done with.               *)
InboxCheck ==
    /\ up
    /\ pc[Inbox] = "check"
    /\ PopQuery
    /\ \/ /\ db.inbox[order] = "none"
          /\ Goto(Inbox, "begin")
          /\ UNCHANGED <<inboxVars, envVars>>
       \/ db.inbox[order] # "none" /\ InboxDone /\ UNCHANGED envVars
       \/ Fault /\ InboxDone
    /\ UNCHANGED <<up, outboxVars, reply, raced>>

InboxBegin ==
    /\ up
    /\ pc[Inbox] = "begin"
    /\ \/ /\ Begin(Inbox)
          /\ Goto(Inbox, "insert")
          /\ UNCHANGED inboxVars
       \/ ~Free /\ InboxDone /\ UNCHANGED connVars
    /\ UNCHANGED <<up, outboxVars, envVars, reply, raced>>

(* Mutant: the inbox row is inserted in a transaction of its own.            *)
InboxInsert_OwnTransaction ==
    /\ up
    /\ pc[Inbox] = "insert"
    /\ Reaches
    /\ tx.inbox[order] = "none"
    /\ tx' = [tx EXCEPT !.inbox[order] = "PENDING"]
    /\ db' = tx'
    /\ state' = "committed"
    /\ Goto(Inbox, "pay")
    /\ UNCHANGED <<up, slot, stack, failed, inboxVars, outboxVars, envVars, reply, raced>>

(* INSERT INTO inbox_events, whose primary key is the order.                 *)
InboxInsert ==
    /\ up
    /\ pc[Inbox] = "insert"
    /\ \/ /\ tx.inbox[order] = "none"
          /\ Executes([tx EXCEPT !.inbox[order] = "PENDING"])
          /\ Goto(Inbox, "pay")
          /\ UNCHANGED <<inboxVars, envVars>>
       \/ tx.inbox[order] # "none" /\ Refuses /\ InboxDone /\ UNCHANGED envVars
       \/ StatementThrows(Inbox) /\ InboxDone
    /\ UNCHANGED <<up, outboxVars, reply, raced>>

(* process_payment returns its verdict.                                      *)
Verdict(v) ==
    /\ Goto(Inbox, "update")
    /\ success' = v
    /\ seen' = 0
    /\ UNCHANGED <<mq, msg>>

(* process_payment: the amount test, then get_account, whose query needs a   *)
(* connection with no registered transaction.  Any exception is FALSE.       *)
PayQuery ==
    /\ up
    /\ pc[Inbox] = "pay"
    /\ \/ (amount <= 0 \/ ~Free) /\ Verdict(FALSE) /\ UNCHANGED connVars
       \/ /\ amount > 0
          /\ PushQuery(Inbox)
          /\ Goto(Inbox, "payRead")
          /\ UNCHANGED inboxVars
    /\ UNCHANGED <<up, outboxVars, envVars, reply, raced>>

PayRead ==
    /\ up
    /\ pc[Inbox] = "payRead"
    /\ PopQuery
    /\ \/ /\ user \in db.users
          /\ seen' = db.version[user]
          /\ Goto(Inbox, "payBegin")
          /\ UNCHANGED <<mq, msg, success, envVars>>
       \/ user \notin db.users /\ Verdict(FALSE) /\ UNCHANGED envVars
       \/ Fault /\ Verdict(FALSE)
    /\ UNCHANGED <<up, outboxVars, reply, raced>>

PayBegin ==
    /\ up
    /\ pc[Inbox] = "payBegin"
    /\ \/ Begin(Pay) /\ Goto(Inbox, "payUpdate") /\ UNCHANGED inboxVars
       \/ ~Free /\ Verdict(FALSE) /\ UNCHANGED connVars
    /\ UNCHANGED <<up, outboxVars, envVars, reply, raced>>

(* Mutant: the UPDATE does not test the balance.                             *)
PayUpdate_NoBalanceTest ==
    /\ up
    /\ pc[Inbox] = "payUpdate"
    /\ user \in tx.users
    /\ Executes([tx EXCEPT !.balance[user] = tx.balance[user] - amount,
                           !.version[user] = tx.version[user] + 1,
                           !.debits = tx.debits \cup {msg}])
    /\ Goto(Inbox, "payCommit")
    /\ UNCHANGED <<up, inboxVars, outboxVars, envVars, reply, raced>>

(* UPDATE ... WHERE balance >= amount AND version = seen RETURNING.          *)
PayUpdate ==
    /\ up
    /\ pc[Inbox] = "payUpdate"
    /\ LET covered == user \in tx.users /\ tx.balance[user] >= amount /\ tx.version[user] = seen
       IN \/ /\ covered
             /\ Executes([tx EXCEPT !.balance[user] = tx.balance[user] - amount,
                                    !.version[user] = tx.version[user] + 1,
                                    !.debits = tx.debits \cup {msg}])
             /\ Goto(Inbox, "payCommit")
             /\ UNCHANGED <<inboxVars, envVars>>
          \/ /\ ~covered
             /\ Executes(tx)
             /\ Goto(Inbox, "payAbort")
             /\ UNCHANGED <<inboxVars, envVars>>
          \/ StatementThrows(Pay) /\ Verdict(FALSE)
    /\ UNCHANGED <<up, outboxVars, reply, raced>>

PayCommit ==
    /\ up
    /\ pc[Inbox] = "payCommit"
    /\ \/ Commits /\ Goto(Inbox, "payDbCommit") /\ UNCHANGED <<inboxVars, envVars>>
       \/ CommitThrows(Pay) /\ Verdict(FALSE)
    /\ UNCHANGED <<up, outboxVars, reply, raced>>

PayDbCommit ==
    /\ up
    /\ pc[Inbox] = "payDbCommit"
    /\ \/ Resets(Pay) /\ Verdict(TRUE) /\ UNCHANGED envVars
       \/ DbCommits(Pay) /\ Goto(Inbox, "payReset") /\ UNCHANGED <<inboxVars, envVars>>
       \/ DbCommitThrows(Pay) /\ Verdict(FALSE)
    /\ UNCHANGED <<up, outboxVars, reply>>

PayAbort ==
    /\ up
    /\ pc[Inbox] = "payAbort"
    /\ \/ Aborts /\ Goto(Inbox, "payDbRollback") /\ UNCHANGED inboxVars
       \/ AbortThrows(Pay) /\ Verdict(FALSE)
    /\ UNCHANGED <<up, outboxVars, envVars, reply, raced>>

PayDbRollback ==
    /\ up
    /\ pc[Inbox] = "payDbRollback"
    /\ \/ (Resets(Pay) \/ DbAbortThrows(Pay)) /\ Verdict(FALSE)
       \/ DbAborts(Pay) /\ Goto(Inbox, "payUndo") /\ UNCHANGED inboxVars
    /\ UNCHANGED <<up, outboxVars, envVars, reply>>

PayReset ==
    /\ up
    /\ pc[Inbox] \in {"payReset", "payUndo"}
    /\ Resets(Pay)
    /\ Verdict(pc[Inbox] = "payReset")
    /\ UNCHANGED <<up, outboxVars, envVars, reply>>

(* Mutant: the inbox row keeps its status PENDING.                           *)
InboxUpdate_Skipped ==
    /\ up
    /\ pc[Inbox] = "update"
    /\ Goto(Inbox, "result")
    /\ UNCHANGED <<up, connVars, inboxVars, outboxVars, envVars, reply, raced>>

(* Back in handle_payment_request: UPDATE inbox_events.                      *)
InboxUpdate ==
    /\ up
    /\ pc[Inbox] = "update"
    /\ \/ /\ Executes(IF tx.inbox[order] = "none" THEN tx
                      ELSE [tx EXCEPT !.inbox[order] = IF success THEN "PROCESSED" ELSE "FAILED"])
          /\ Goto(Inbox, "result")
          /\ UNCHANGED <<inboxVars, envVars>>
       \/ StatementThrows(Inbox) /\ InboxDone
    /\ UNCHANGED <<up, outboxVars, reply, raced>>

(* INSERT INTO outbox_events, with the verdict in the payload.               *)
InboxResult ==
    /\ up
    /\ pc[Inbox] = "result"
    /\ \/ /\ Executes([tx EXCEPT !.event[msg] = "PENDING", !.verdict[msg] = success])
          /\ Goto(Inbox, "commit")
          /\ UNCHANGED <<inboxVars, envVars>>
       \/ StatementThrows(Inbox) /\ InboxDone
    /\ UNCHANGED <<up, outboxVars, reply, raced>>

InboxCommit ==
    /\ up
    /\ pc[Inbox] = "commit"
    /\ \/ Commits /\ Goto(Inbox, "dbCommit") /\ UNCHANGED <<inboxVars, envVars>>
       \/ CommitThrows(Inbox) /\ InboxDone
    /\ UNCHANGED <<up, outboxVars, reply, raced>>

InboxDbCommit ==
    /\ up
    /\ pc[Inbox] = "dbCommit"
    /\ \/ Resets(Inbox) /\ InboxDone /\ UNCHANGED envVars
       \/ DbCommits(Inbox) /\ Goto(Inbox, "reset") /\ UNCHANGED <<inboxVars, envVars>>
       \/ DbCommitThrows(Inbox) /\ InboxDone
    /\ UNCHANGED <<up, outboxVars, reply>>

InboxReset ==
    /\ up
    /\ pc[Inbox] = "reset"
    /\ Resets(Inbox)
    /\ InboxDone
    /\ UNCHANGED <<up, outboxVars, envVars, reply>>

InboxStep ==
    \/ \E m \in Messages : InboxTake(m)
    \/ InboxCheck \/ InboxBegin \/ InboxInsert
    \/ PayQuery \/ PayRead \/ PayBegin \/ PayUpdate
    \/ PayCommit \/ PayDbCommit \/ PayAbort \/ PayDbRollback \/ PayReset
    \/ InboxUpdate \/ InboxResult \/ InboxCommit \/ InboxDbCommit \/ InboxReset

-----------------------------------------------------------------------------
(* The outbox thread.  A pass that finds the connection taken changes        *)
(* nothing.                                                                  *)

PassBegin ==
    /\ up
    /\ pc[Outbox] = "sleep"
    /\ Begin(Outbox)
    /\ Goto(Outbox, "select")
    /\ UNCHANGED <<up, inboxVars, outboxVars, envVars, reply, raced>>

PendingEvents(tables) == {m \in Messages : tables.event[m] = "PENDING"}

(* Mutant: the limit is exclusive.                                           *)
SelectPending_OffByOne ==
    /\ up
    /\ pc[Outbox] = "select"
    /\ \/ /\ Executes(tx)
          /\ \E selected \in SUBSET PendingEvents(tx) :
                /\ \/ selected = PendingEvents(tx) /\ Cardinality(selected) < BatchLimit
                   \/ Cardinality(selected) = BatchLimit - 1
                /\ batch' = selected
          /\ Goto(Outbox, "publish")
          /\ UNCHANGED envVars
       \/ /\ StatementThrows(Outbox)
          /\ Goto(Outbox, "sleep")
          /\ UNCHANGED batch
    /\ UNCHANGED <<up, inboxVars, mqVars, current, reply, raced>>

SelectPending ==
    /\ up
    /\ pc[Outbox] = "select"
    /\ \/ /\ Executes(tx)
          /\ \E selected \in SUBSET PendingEvents(tx) :
                /\ \/ selected = PendingEvents(tx) /\ Cardinality(selected) <= BatchLimit
                   \/ Cardinality(selected) = BatchLimit
                /\ batch' = selected
          /\ Goto(Outbox, "publish")
          /\ UNCHANGED envVars
       \/ /\ StatementThrows(Outbox)
          /\ Goto(Outbox, "sleep")
          /\ UNCHANGED batch
    /\ UNCHANGED <<up, inboxVars, mqVars, current, reply, raced>>

(* Next row, then publish, which returns (the result reached the queue),     *)
(* returns although the connection broke after queue_declare answered (no    *)
(* publisher confirms), or throws.                                           *)
Publish ==
    /\ up
    /\ pc[Outbox] = "publish"
    /\ \E m \in batch :
          /\ batch' = batch \ {m}
          /\ \/ /\ mqUp
                /\ \/ published' = [published EXCEPT ![m] = @ + 1] /\ UNCHANGED <<mqUp, lost>>
                   \/ lost' = lost \cup {m} /\ mqUp' = FALSE /\ UNCHANGED published
                /\ current' = m
                /\ Goto(Outbox, "mark")
             \/ ~mqUp /\ UNCHANGED <<mqVars, current, pc>>
    /\ UNCHANGED <<up, connVars, inboxVars, envVars, reply, raced>>

(* Mutant: the event is deleted once it is published.                        *)
MarkProcessed_Deletes ==
    /\ up
    /\ pc[Outbox] = "mark"
    /\ Executes([tx EXCEPT !.event[current] = "none"])
    /\ current' = Nobody
    /\ Goto(Outbox, "publish")
    /\ UNCHANGED <<up, inboxVars, mqVars, batch, envVars, reply, raced>>

(* UPDATE outbox_events; an exception is caught per event.                   *)
MarkProcessed ==
    /\ up
    /\ pc[Outbox] = "mark"
    /\ \/ /\ Executes(IF tx.event[current] = "none" THEN tx
                      ELSE [tx EXCEPT !.event[current] = "PROCESSED"])
          /\ UNCHANGED envVars
       \/ StatementThrows(Outbox)
    /\ current' = Nobody
    /\ Goto(Outbox, "publish")
    /\ UNCHANGED <<up, inboxVars, mqVars, batch, reply, raced>>

PassCommit ==
    /\ up
    /\ pc[Outbox] = "publish"
    /\ batch = {}
    /\ \/ Commits /\ Goto(Outbox, "dbCommit") /\ UNCHANGED envVars
       \/ CommitThrows(Outbox) /\ Goto(Outbox, "sleep")
    /\ UNCHANGED <<up, inboxVars, outboxVars, reply, raced>>

PassDbCommit ==
    /\ up
    /\ pc[Outbox] = "dbCommit"
    /\ \/ Resets(Outbox) /\ Goto(Outbox, "sleep") /\ UNCHANGED envVars
       \/ DbCommits(Outbox) /\ Goto(Outbox, "reset") /\ UNCHANGED envVars
       \/ DbCommitThrows(Outbox) /\ Goto(Outbox, "sleep")
    /\ UNCHANGED <<up, inboxVars, outboxVars, reply>>

PassReset ==
    /\ up
    /\ pc[Outbox] = "reset"
    /\ Resets(Outbox)
    /\ Goto(Outbox, "sleep")
    /\ UNCHANGED <<up, inboxVars, outboxVars, envVars, reply>>

OutboxStep ==
    \/ PassBegin \/ SelectPending \/ Publish \/ MarkProcessed
    \/ PassCommit \/ PassDbCommit \/ PassReset

-----------------------------------------------------------------------------
(* HTTP threads.                                                             *)

Answer(t, status) ==
    /\ Goto(t, "done")
    /\ reply' = [reply EXCEPT ![t] = status]

(* deposit(): a non-positive amount, or a taken connection, is a 400.        *)
DepositBegin(d) ==
    /\ up
    /\ pc[d] = "idle"
    /\ \/ /\ Deposit(d).amount > 0
          /\ Begin(d)
          /\ Goto(d, "update")
          /\ UNCHANGED reply
       \/ /\ Deposit(d).amount <= 0 \/ ~Free
          /\ Answer(d, 400)
          /\ UNCHANGED connVars
    /\ UNCHANGED <<up, inboxVars, outboxVars, envVars, raced>>

(* Mutant: the column takes any sum.                                         *)
DepositUpdate_NoLimit(d) ==
    /\ up
    /\ pc[d] = "update"
    /\ Deposit(d).user \in tx.users
    /\ Executes([tx EXCEPT !.balance[Deposit(d).user] = tx.balance[Deposit(d).user] + Deposit(d).amount,
                           !.version[Deposit(d).user] = tx.version[Deposit(d).user] + 1,
                           !.credits = tx.credits \cup {d}])
    /\ Goto(d, "commit")
    /\ UNCHANGED <<up, inboxVars, outboxVars, envVars, reply, raced>>

(* UPDATE accounts ... RETURNING; a sum that does not fit the column is      *)
(* refused.                                                                  *)
DepositUpdate(d) ==
    /\ up
    /\ pc[d] = "update"
    /\ LET u == Deposit(d).user
           sum == tx.balance[u] + Deposit(d).amount
       IN \/ /\ u \in tx.users
             /\ sum <= Limit
             /\ Executes([tx EXCEPT !.balance[u] = sum,
                                    !.version[u] = tx.version[u] + 1,
                                    !.credits = tx.credits \cup {d}])
             /\ Goto(d, "commit")
             /\ UNCHANGED <<reply, envVars>>
          \/ /\ u \notin tx.users
             /\ Executes(tx)
             /\ Goto(d, "abort")
             /\ UNCHANGED <<reply, envVars>>
          \/ u \in tx.users /\ sum > Limit /\ Refuses /\ Answer(d, 400) /\ UNCHANGED envVars
          \/ StatementThrows(d) /\ Answer(d, 400)
    /\ UNCHANGED <<up, inboxVars, outboxVars, raced>>

DepositCommit(d) ==
    /\ up
    /\ pc[d] = "commit"
    /\ \/ Commits /\ Goto(d, "dbCommit") /\ UNCHANGED <<reply, envVars>>
       \/ CommitThrows(d) /\ Answer(d, 400)
    /\ UNCHANGED <<up, inboxVars, outboxVars, raced>>

DepositDbCommit(d) ==
    /\ up
    /\ pc[d] = "dbCommit"
    /\ \/ Resets(d) /\ Answer(d, 200) /\ UNCHANGED envVars
       \/ DbCommits(d) /\ Goto(d, "reset") /\ UNCHANGED <<reply, envVars>>
       \/ DbCommitThrows(d) /\ Answer(d, 400)
    /\ UNCHANGED <<up, inboxVars, outboxVars>>

DepositAbort(d) ==
    /\ up
    /\ pc[d] = "abort"
    /\ \/ Aborts /\ Goto(d, "dbRollback") /\ UNCHANGED reply
       \/ AbortThrows(d) /\ Answer(d, 400)
    /\ UNCHANGED <<up, inboxVars, outboxVars, envVars, raced>>

DepositDbRollback(d) ==
    /\ up
    /\ pc[d] = "dbRollback"
    /\ \/ (Resets(d) \/ DbAbortThrows(d)) /\ Answer(d, 400)
       \/ DbAborts(d) /\ Goto(d, "undo") /\ UNCHANGED reply
    /\ UNCHANGED <<up, inboxVars, outboxVars, envVars>>

DepositReset(d) ==
    /\ up
    /\ pc[d] \in {"reset", "undo"}
    /\ Resets(d)
    /\ Answer(d, IF pc[d] = "reset" THEN 200 ELSE 400)
    /\ UNCHANGED <<up, inboxVars, outboxVars, envVars>>

DepositStep(d) ==
    \/ DepositUpdate(d) \/ DepositCommit(d) \/ DepositDbCommit(d)
    \/ DepositAbort(d) \/ DepositDbRollback(d) \/ DepositReset(d)

(* create_account() and get_balance() make queries one after another, each   *)
(* with a transaction object of its own; a taken connection fails them.      *)
QueryFailed(t) == IF t \in Readers THEN 404 ELSE 400

QueryBegin(t) ==
    /\ up
    /\ \/ pc[t] = "idle" /\ Goto(t, "lookup")
       \/ pc[t] = "toInsert" /\ Goto(t, "insert")
       \/ pc[t] = "toRead" /\ Goto(t, "read")
    /\ PushQuery(t)
    /\ UNCHANGED <<up, inboxVars, outboxVars, envVars, reply, raced>>

QueryRefused(t) ==
    /\ up
    /\ pc[t] \in {"idle", "toInsert", "toRead"}
    /\ ~Free
    /\ Answer(t, QueryFailed(t))
    /\ UNCHANGED <<up, connVars, inboxVars, outboxVars, envVars, raced>>

QueryFault(t) ==
    /\ up
    /\ pc[t] \in {"lookup", "insert", "read"}
    /\ PopQuery
    /\ Fault
    /\ Answer(t, QueryFailed(t))
    /\ UNCHANGED <<up, inboxVars, outboxVars, raced>>

OpeningLookup(c) ==
    /\ up
    /\ pc[c] = "lookup"
    /\ PopQuery
    /\ \/ Owner(c) \in db.users /\ Answer(c, 400)
       \/ Owner(c) \notin db.users /\ Goto(c, "toInsert") /\ UNCHANGED reply
    /\ UNCHANGED <<up, inboxVars, outboxVars, envVars, raced>>

(* Mutant: an existing account is opened again.                              *)
OpeningInsert_NoKey(c) ==
    /\ up
    /\ pc[c] = "insert"
    /\ stack' = Nobody
    /\ db' = [db EXCEPT !.users = @ \cup {Owner(c)}]
    /\ tx' = db'
    /\ Goto(c, "toRead")
    /\ UNCHANGED <<up, slot, state, failed, inboxVars, outboxVars, envVars, reply, raced>>

(* Database::execute: its own transaction, committed in the same call; a     *)
(* user who has got an account meanwhile violates the primary key.           *)
OpeningInsert(c) ==
    /\ up
    /\ pc[c] = "insert"
    /\ stack' = Nobody
    /\ \/ /\ Owner(c) \notin db.users
          /\ db' = [db EXCEPT !.users = @ \cup {Owner(c)}]
          /\ tx' = db'
          /\ Goto(c, "toRead")
          /\ UNCHANGED reply
       \/ /\ Owner(c) \in db.users
          /\ Answer(c, 400)
          /\ UNCHANGED <<db, tx>>
    /\ UNCHANGED <<up, slot, state, failed, inboxVars, outboxVars, envVars, raced>>

OpeningRead(c) ==
    /\ up
    /\ pc[c] = "read"
    /\ PopQuery
    /\ Answer(c, 201)
    /\ UNCHANGED <<up, inboxVars, outboxVars, envVars, raced>>

ReaderRead(g) ==
    /\ up
    /\ pc[g] = "lookup"
    /\ PopQuery
    /\ Answer(g, IF Owner(g) \in db.users THEN 200 ELSE 404)
    /\ UNCHANGED <<up, inboxVars, outboxVars, envVars, raced>>

OpeningStep(c) ==
    \/ pc[c] # "idle" /\ (QueryBegin(c) \/ QueryRefused(c))
    \/ QueryFault(c) \/ OpeningLookup(c) \/ OpeningInsert(c) \/ OpeningRead(c)

-----------------------------------------------------------------------------
(* The environment.                                                          *)

MqBreak ==
    /\ up
    /\ mqUp
    /\ mqUp' = FALSE
    /\ UNCHANGED <<up, connVars, inboxVars, batch, current, published, lost, envVars, pc, reply, raced>>

(* The process ends: PostgreSQL rolls back, buffered messages are lost.      *)
ProcessDies ==
    /\ up
    /\ up' = FALSE
    /\ crashes' = crashes + 1
    /\ stack' = Nobody
    /\ EmptySlot
    /\ tx' = db
    /\ pc' = [t \in Threads |-> IF t = Inbox THEN "consume" ELSE IF t = Outbox THEN "sleep"
                                ELSE IF pc[t] = "idle" THEN "idle" ELSE "done"]
    /\ mq' = [m \in Messages |-> IF mq[m] = "buffered" THEN "taken" ELSE mq[m]]
    /\ msg' = Nobody
    /\ success' = FALSE
    /\ seen' = 0
    /\ batch' = {}
    /\ current' = Nobody
    /\ UNCHANGED <<db, mqVars, faults, reply, raced>>

(* Killed, or the inbox thread's RabbitMQ connection broke: consume() throws *)
(* out of its thread, which ends the process.                                *)
Crash == crashes < MaxCrashes /\ ProcessDies

(* The object whose reference a thread is about to use.                      *)
InUse(t) ==
    IF pc[t] \in {"payUpdate", "payCommit", "payAbort"} THEN Pay
    ELSE IF \/ pc[t] \in {"select", "mark", "update", "commit", "abort"}
            \/ t = Inbox /\ pc[t] \in {"insert", "result"}
            \/ t = Outbox /\ pc[t] = "publish" /\ batch = {}
    THEN t
    ELSE Nobody

(* Database::commit() and rollback() test transaction_ before they call it.  *)
Tested(t) == pc[t] \in {"payDbCommit", "payDbRollback", "dbCommit", "dbRollback"}

(* The call through a dangling reference ends the process, or the one        *)
(* through a transaction_ that was reset after it was tested.                *)
DanglingDeath ==
    /\ \E t \in Threads : InUse(t) \notin {Nobody, slot} \/ (Tested(t) /\ slot = Nobody)
    /\ ProcessDies

Restart ==
    /\ ~up
    /\ up' = TRUE
    /\ mqUp' = TRUE
    /\ UNCHANGED <<connVars, inboxVars, batch, current, published, lost, envVars, pc, reply, raced>>

-----------------------------------------------------------------------------
Next ==
    \/ \E m \in Messages : Deliver(m)
    \/ InboxStep
    \/ OutboxStep
    \/ \E d \in Deposits : DepositBegin(d) \/ DepositStep(d)
    \/ \E c \in Openings : (pc[c] = "idle" /\ (QueryBegin(c) \/ QueryRefused(c))) \/ OpeningStep(c)
    \/ \E g \in Readers : QueryBegin(g) \/ QueryRefused(g) \/ QueryFault(g) \/ ReaderRead(g)
    \/ MqBreak
    \/ Crash
    \/ DanglingDeath
    \/ Restart

(* Threads are scheduled; arrivals, breaks and restarts are not assumed.     *)
Fairness ==
    /\ WF_vars(InboxStep)
    /\ WF_vars(OutboxStep)
    /\ \A d \in Deposits : WF_vars(DepositStep(d))
    /\ \A c \in Openings : WF_vars(OpeningStep(c))
    /\ \A g \in Readers : WF_vars(ReaderRead(g))

Spec == Init /\ [][Next]_vars

FairSpec == Spec /\ Fairness

-----------------------------------------------------------------------------
(* Properties.                                                               *)

HttpThreads == Deposits \cup Openings \cup Readers

Tables ==
    [users : SUBSET Users, balance : [Users -> Int], version : [Users -> Nat],
     inbox : [Orders -> {"none", "PENDING", "PROCESSED", "FAILED"}],
     event : [Messages -> {"none", "PENDING", "PROCESSED"}],
     verdict : [Messages -> BOOLEAN],
     credits : SUBSET Deposits, debits : SUBSET Messages]

InboxSteps == {"consume", "check", "begin", "insert", "pay", "payRead", "payBegin", "payUpdate",
               "payCommit", "payDbCommit", "payAbort", "payDbRollback", "payReset", "payUndo",
               "update", "result", "commit", "dbCommit", "reset"}
OutboxSteps == {"sleep", "select", "publish", "mark", "dbCommit", "reset"}
DepositSteps == {"idle", "update", "commit", "dbCommit", "reset", "abort", "dbRollback", "undo", "done"}
QuerySteps == {"idle", "lookup", "toInsert", "insert", "toRead", "read", "done"}

ThreadsType ==
    /\ up \in BOOLEAN
    /\ pc \in [Threads -> InboxSteps \cup OutboxSteps \cup DepositSteps \cup QuerySteps]
    /\ pc[Inbox] \in InboxSteps
    /\ pc[Outbox] \in OutboxSteps
    /\ \A d \in Deposits : pc[d] \in DepositSteps
    /\ \A q \in Openings \cup Readers : pc[q] \in QuerySteps

RepliesType ==
    /\ reply \in [HttpThreads -> {0, 200, 201, 400, 404}]
    /\ \A d \in Deposits : reply[d] \in {0, 200, 400}
    /\ \A c \in Openings : reply[c] \in {0, 201, 400}
    /\ \A g \in Readers : reply[g] \in {0, 200, 404}

ConnectionType ==
    /\ slot \in Threads \cup {Pay, Nobody}
    /\ state \in {"none", "active", "broken", "committed", "aborted"}
    /\ slot = Nobody <=> state = "none"
    /\ stack \in Threads \cup {Nobody}
    /\ failed \in BOOLEAN
    /\ raced \in BOOLEAN

TablesType ==
    /\ db \in Tables
    /\ tx \in Tables

InboxType ==
    /\ mq \in [Messages -> {"queued", "buffered", "taken"}]
    /\ msg \in Messages \cup {Nobody}
    /\ pc[Inbox] # "consume" => msg \in Messages
    /\ seen \in Nat

OutboxType ==
    /\ batch \subseteq Messages
    /\ current \in Messages \cup {Nobody}
    /\ pc[Outbox] = "mark" => current \in Messages

ScalarsType ==
    /\ mqUp \in BOOLEAN
    /\ published \in [Messages -> Nat]
    /\ lost \subseteq Messages
    /\ faults \in Nat
    /\ crashes \in Nat

(* Every variable keeps its type, every thread its own steps, and each HTTP  *)
(* endpoint answers only with its own statuses.                              *)
TypeOK ==
    /\ ThreadsType
    /\ RepliesType
    /\ ConnectionType
    /\ TablesType
    /\ InboxType
    /\ OutboxType
    /\ ScalarsType
    /\ success \in BOOLEAN

(* As long as no thread has ended a transaction another one was using, each  *)
(* thread that is inside a transaction finds its own object in the slot: no  *)
(* reference dangles.                                                        *)
ReferencesValid ==
    ~raced => \A t \in Threads : InUse(t) \in {Nobody, slot}

(* handle_payment_request keeps its transaction open while process_payment   *)
(* queries the same connection, so process_payment always fails: unless a    *)
(* thread ended the inbox thread's transaction under it, no account is ever  *)
(* debited and no result says the payment succeeded.                         *)
NoPaymentSucceeds ==
    ~raced => db.debits = {} /\ \A m \in Messages : ~db.verdict[m]

(* The books balance in every committed state, races included: an account    *)
(* holds what was deposited less what was paid, its version counts both, and *)
(* it is never negative nor beyond its column.                               *)
BooksBalance ==
    \A u \in Users :
        LET in == {d \in db.credits : Deposit(d).user = u}
            out == {m \in db.debits : Request(m).user = u}
        IN /\ db.balance[u] = SumFunction([d \in in |-> Deposit(d).amount])
                                - SumFunction([m \in out |-> Request(m).amount])
           /\ db.version[u] = Cardinality(in) + Cardinality(out)
           /\ db.balance[u] \in 0 .. Limit

(* What the endpoints answer is true.  200 and 400 for a deposit hold as     *)
(* long as no transaction was ended under its owner (and, for 400, no        *)
(* database call failed); 201 for an opening always holds, and although      *)
(* create_account tests and inserts in two transactions, only one of two     *)
(* concurrent openings for a user gets it.                                   *)
AnswersAreTrue ==
    /\ ~raced => \A d \in Deposits :
          /\ reply[d] = 200 => d \in db.credits
          /\ faults = 0 /\ reply[d] = 400 => d \notin db.credits
    /\ \A c \in Openings : reply[c] = 201 => Owner(c) \in db.users
    /\ \A b, c \in Openings :
          b # c /\ Owner(b) = Owner(c) => ~(reply[b] = 201 /\ reply[c] = 201)

(* The service keeps the promise of PaymentVerdicts until the first race:    *)
(* through copies of a request, failed calls and crashes an order gets one   *)
(* result, its row and its result appear together and agree, and nothing is  *)
(* announced that is not on record.                                          *)
RecordedResult(m) == [request |-> m, order |-> Request(m).order, success |-> db.verdict[m]]

Abstract ==
    INSTANCE PaymentVerdicts
    WITH Answers <- [request : Messages, order : {Request(m).order : m \in Messages},
                     success : BOOLEAN],
         trusted <- ~raced,
         row <- [o \in {Request(m).order : m \in Messages} |-> db.inbox[o]],
         results <- {RecordedResult(m) : m \in {n \in Messages : db.event[n] # "none"}},
         announced <- {RecordedResult(m) : m \in {n \in Messages : published[n] > 0}}

ImplementsVerdicts == Abstract!VerdictsSpec

(* A committed verdict is final: no later step, race or restart takes back   *)
(* an event, returns it to PENDING or changes its verdict.  An event that is *)
(* PROCESSED was published, whatever pass marked it, unless the RabbitMQ     *)
(* connection broke under its publish.                                       *)
VerdictsAreFinal ==
    [][\A m \in Messages :
          /\ db.event[m] # "none" => db'.event[m] # "none" /\ db'.verdict[m] = db.verdict[m]
          /\ db.event[m] = "PROCESSED" => db'.event[m] = "PROCESSED"
          /\ db'.event[m] = "PROCESSED" => published'[m] > 0 \/ m \in lost']_vars

(* A transaction is registered and every thread is outside of any.           *)
Orphaned ==
    /\ state \in {"active", "broken"}
    /\ \A t \in Threads :
          pc[t] \in {"consume", "begin", "sleep", "idle", "toInsert", "toRead", "done"}

(* A transaction an exception left registered blocks the service once the    *)
(* threads that could still end it by db_->commit() or db_->rollback() are   *)
(* past these calls: until the process ends nothing is committed or          *)
(* published and the slot keeps the transaction.                             *)
OrphanBlocksService ==
    [][Orphaned /\ up' => UNCHANGED <<slot, state, db, published, lost>>]_vars

(* A committed result is eventually published and PROCESSED, whatever the    *)
(* threads do to each other's transactions, unless one is orphaned, RabbitMQ *)
(* is gone or the process is down.                                           *)
ResultsAreForwarded ==
    \A m \in Messages :
        db.event[m] = "PENDING" ~> (db.event[m] = "PROCESSED" \/ Orphaned \/ ~mqUp \/ ~up)
=============================================================================
