# Verification of HomeworkKPO2 in TLA+

The repository holds three independent programs:

| program | directory | kind |
|---|---|---|
| Shop | `src/api-gateway/` | three C++ services (orders, payments, websocket), PostgreSQL, RabbitMQ, a React page |
| Antiplagiat | `src/AntiplagiatSystem/` | three C++ services (files, analysis, gateway), PostgreSQL, nginx |
| Finance | `src/FinanceAccountingSystem/.vscode/` | a single-threaded C++ library with a demonstration and tests |

This directory holds TLA+ modules that model them, TLC configurations that check
the modules on small instances, and TLAPS proofs.  `PROJECT.json` maps each
definition to the lines of code it stands for.

## 1. Inventory

### Orders service (`src/api-gateway/orders-service`)

* State: tables `orders` and `outbox_events`; one `pqxx::connection`; the member
  `Database::transaction_`; one RabbitMQ channel.
* Operations: `POST /api/orders` (insert an order and an outbox event in one
  transaction), `GET /api/orders`, `GET /api/orders/{id}`, and an outbox thread
  that once a second selects ten PENDING events, publishes each to
  `payment.requests` and marks it PROCESSED, all in one transaction.
* Interaction: HTTP threads of httplib and the outbox thread use one connection
  and one `transaction_` without a lock.  What separates them is libpqxx: a
  connection refuses a second transaction object by throwing.
* Hard: exceptions between `begin_transaction()` and `commit()` leave the object
  registered for good; publishing from inside an uncommitted transaction;
  commits in doubt; crashes; a broken RabbitMQ connection that is never reopened.
* Correct means: an order is committed together with its event; a payment is
  requested only for a committed order, at least once unless something broke;
  the client's status is true; older events leave first.

### Payments service (`src/api-gateway/payments-service`)

* State: tables `accounts` (balance, version), `inbox_events`, `outbox_events`;
  one connection and one `transaction_` slot; two RabbitMQ channels.
* Operations: inbox thread (`handle_payment_request`, which calls
  `process_payment` in the middle of its own transaction), outbox thread, HTTP
  threads (`create_account`, `deposit`, `get_balance`).
* Interaction: every thread ends its transaction twice, `tx.commit()` on its own
  reference and then `db_->commit()` on whatever the slot holds.  Between the two
  another thread can begin; its transaction is then committed and freed under it
  and its reference dangles.
* Hard: that race and the use after free, exactly-one result for duplicated
  requests, the optimistic balance update, the column's limit, automatic
  acknowledgement.
* Correct means: the books balance; one verdict per order, final and published;
  deposit statuses are true.

### Websocket service (`src/api-gateway/websocket-service`)

* State: subscriptions order -> sessions, one write queue per session.
* Operations: subscribe, unsubscribe, notify; a consumer of `payment.results`
  calls notify.
* Interaction: the io thread runs the acceptor and all sessions, a consumer thread
  calls notify; they meet in the manager's mutex and in each session's strand.
* Hard: reuse of one socket for several orders, weak pointers to sessions that are
  dead or dying, failed writes, closing while notifying, results that arrive before
  the subscription.
* Correct means: a subscribed, connected client gets each result of its order
  once and in order and none of an order it has left.

### Page of the shop (`src/api-gateway/src/src/App.tsx`)

* State: the user id in the input field, the list of orders, the map from orders to
  sockets (`socketsRef`).
* Operations: loading the list (at each change of the user id), creating an order,
  the effect that opens and closes sockets when the list or the user changes, the
  sockets' `onopen`, `onmessage`, `onclose`.
* Interaction: HTTP to the orders service, one WebSocket per order to the websocket
  service; between them stand the two queues and the payments service.
* Hard: answers that overtake each other and all write the list; a close event that
  comes after the order has got another socket; updates that meet a list that has
  changed; sockets that nothing reopens.
* Correct means: the list is the user's; a status is the verdict on record; an update
  that has come is shown; no socket is forgotten.

### Antiplagiat file and analysis services

* State: tables `works` (unique hash) and `reports`, the upload directory; each
  process has one connection for all its HTTP threads.
* Operations: upload (write the file, hash it, `save_work`), read file, list
  works and reports; analyze (`get_work_info`, `find_similar_works`,
  `save_report`), read a report.
* Interaction: both services use one database and one upload directory; inside a
  service the HTTP threads share a connection that refuses a second transaction.
* Hard: three separate transactions per analysis while uploads go on, two uploads
  on one path within a millisecond, a write nobody checks, files without rows, a
  connection that breaks, constraints that make statements fail (the unique hash,
  and -1 as a foreign key).
* Correct means: a work's file has its hash; copying is flagged and stays
  flagged; an analysis leaves a report.

### Antiplagiat gateway

* No data of its own; routes by path, rewrites some paths, forwards, waits.
* Interaction: listener and HTTP clients share one pool of threads, and a handler
  waits on a thread of the pool for events another thread of it has to process.
* Hard: the pool at its limit; three lists of paths that have to agree.
* Correct means: a forwarded request is answered, once.

### Finance

* State: in-memory repositories of accounts, categories and operations; one
  number generator per facade and per importer.
* Operations: create, update balance, remove, import, analytics, export.
* Hard: identifiers drawn from several generators; balances that must follow the
  operations through edits and removals.
* Correct means: identifiers do not collide; a balance is the initial one plus
  the operations on record.

`PROJECT.json` lists every component with its status and every hazard with the
line where it bites and the properties that cover it.

## 2. Modules

| module | models | checked by | proved in |
|---|---|---|---|
| `OrderPlacement` | what the orders service promises: place, confirm, request | refined by `OrdersService` | `OrdersServiceProofs` |
| `OrdersService` | the orders service | `MCOrdersService` | `OrdersServiceProofs` |
| `PaymentVerdicts` | what the payments service promises: decide, announce | refined by `PaymentsService` | `PaymentsServiceProofs` |
| `PaymentsService` | the payments service | `MCPaymentsService` | `PaymentsServiceProofs` |
| `Notifications` | what the websocket service promises: join, leave, push, deliver | refined by `WebSocketNotifier` | `WebSocketNotifierProofs` |
| `WebSocketNotifier` | the websocket service | `MCWebSocketNotifier` | `WebSocketNotifierProofs` |
| `OrderPage` | the page in the browser | `MCShop` | - |
| `Shop` | the page, the three promises and the two queues, composed | `MCShop` | `ShopProofs` |
| `FinanceApp` | repositories, facades, importers, analytics | `MCFinanceApp` | `FinanceAppProofs` |
| `Antiplagiat` | file and analysis services, database, directory | `MCAntiplagiat` | `AntiplagiatProofs` |
| `AntiplagiatGateway` | routing and the thread pool of the gateway | `MCAntiplagiatGateway` | `AntiplagiatGatewayProofs` |
| `DataTheorems` | naturals, finite sets, sums: lemmas the proofs share | - | itself |

The three programs share nothing, so their modules are independent.  Inside the shop
each service is modelled twice.  The detailed module shows every call and lets its
environment put any message on the queue it reads; the abstract one is what the others
may rely on, and the detailed one is shown to implement it.  `Shop` composes the
abstract ones with the page:

    OrderPage ---------------------------- Shop
       |              |              |
    OrderPlacement   PaymentVerdicts   Notifications      promises
       ^              ^              ^                    ImplementsPlacement, ImplementsVerdicts,
    OrdersService    PaymentsService   WebSocketNotifier  ImplementsNotifications

### OrdersService

A step is one call into libpqxx, librabbitmq or httplib.  `pc[t]` is the next
such call of thread `t`; there is one thread per request and the outbox thread.

| variable | code |
|---|---|
| `guest` | the transaction object registered on the `pqxx::connection`, by its owner |
| `db`, `tx` | committed tables; the tables as the open transaction sees them |
| `failed` | PostgreSQL has aborted the open transaction |
| `batch`, `current` | the rows of `process_pending_events` still to do, the one in hand |
| `published`, `lost` | copies on `payment.requests`; publishes that returned although nothing was delivered (no publisher confirms) |
| `reply` | the HTTP status each client got |

`POST` is `PostBegin`/`PostRefused`, `InsertOrder`, `InsertEvent`, `CommitOrder`,
`Reply201`, with `PostThrows` for an exception at each of these calls.  A pass of
the outbox thread is `PassBegin`, `SelectPending`, then `Publish` and
`MarkProcessed` for each row, then `PassCommit`; `PassThrows` is the exception that
leaves the pass.  The environment may make a database call fail (`Fault`), break
the RabbitMQ connection, kill and restart the process, and let a second pass.

An exception leaves the transaction object in `Database::transaction_`, still
registered: nothing calls `Database::rollback()`.  `Orphaned` is that state, and
`OrphanBlocksService` says what it costs.  The amount of a request alone can
cause it: a value that does not fit `DECIMAL(10,2)` throws at the INSERT.

### PaymentsService

The same granularity.  `slot` and `state` are the object in
`Database::transaction_` and its state; `stack` is a transaction object on some
thread's stack (`query`, `execute`).  `tx.commit()` (`Commits`) needs the thread's
own object; `Database::commit()` takes whatever is in the slot, commits it and, as a
second step, empties the slot.  Called at once, its commit finds the thread's own
transaction over and does nothing, so only `Resets` is a step.  Called late, it may find
the transaction of a thread that has begun meanwhile: `DbCommits` commits that, and the
reset follows in an action of its own (`PayReset`, `InboxReset`, `PassReset`,
`DepositReset`), before which yet another transaction can come into the slot; `Resets`
then rolls it back.  `Database::rollback()` is the same with an abort (`DbAborts`).
`Steals` notices when what was ended was another thread's live transaction
(variable `raced`).  From then on the victim holds a dangling reference, whose use
is undefined; the model lets it throw (`ThrowsAtOnce`), end the process
(`DanglingDeath`) or act on the transaction that is now in the slot
(`Reaches` does not ask whose it is: the allocator reuses the block).

What does not mention `raced` holds in spite of these races: `BooksBalance`,
`VerdictsAreFinal`, `OrphanBlocksService`, `ResultsAreForwarded`, the openings in
`AnswersAreTrue`.  The others hold until the first race; so does
`ImplementsVerdicts`, the refinement of `PaymentVerdicts`, whose `trusted` is
`~raced`: one result per order, committed together with the row of the inbox that
says the same, and announced only when it is on record.

`NoPaymentSucceeds` deserves a word.  `handle_payment_request` holds its
transaction open when it calls `process_payment`, whose first act is a query in a
transaction object of its own on the same connection.  libpqxx refuses it,
`catch (...)` returns false, and the order is reported as failed.  So no payment is
ever taken, except when another thread has just ended the inbox thread's
transaction under it.

### WebSocketNotifier

A step is what one thread does between two meetings with the other: a lock of the
manager's mutex, a `post` to a strand, a handler's end.

| variable | code |
|---|---|
| `handling` | the `on_read` handler the io thread is in the middle of: before `subscribe()`, before the answer |
| `phase`, `net`, `reading` | a session from accept to its end; its connection; whether an `async_read` is pending |
| `orderId` | `order_id_` |
| `posted`, `queue`, `writing`, `writes` | messages posted to the strand, `write_queue_`, `writing_`, `async_write` operations pending |
| `subs` | `subscriptions_`, with the dead entries of its weak pointers |
| `taken`, `consumer` | results consumed; where the consumer thread is |
| `running`, `ioStopped`, `exited` | the flag of `main()`, `ioc.stop()`, the end of `main()` |

`Alive` says when a weak pointer locks: while a read, a write, a posted message or a
running handler holds the session.  `on_read` is `ReadSubscribe`, `Subscribe`,
`Answer`, with `ReadMalformed`, `ReadClosed` and `ReadFails` for its other paths;
`enqueue_write`, `do_write` and `on_write` are `RunPosted`, `WriteDone` and
`WriteFails`; the consumer is `ConsumerChecks`, `ConsumerTimesOut`, `Notify` and
`ConsumerThrows`; `Signal` and `Exit` are `main()`.  A failed write leaves `writing_`
set, so that nothing is written to that session again.  A read that fails other than
by an orderly close does not unsubscribe: `ListsAreTrue` says that this is the only
way a dead session stays on the list of an order.

`ImplementsNotifications` forgets all of this: a session follows the order whose list
it is on while it is alive, its box is what is posted, queued or being written, and
the consumer's lock section is one push to every follower.

### OrderPage and Shop

A step of `OrderPage` is one callback of the page.

| variable | code |
|---|---|
| `user` | `userId` |
| `list`, `queued` | `orders` with the updates React has not rendered; whether there are any |
| `shown` | `orders` of the last render, which is what the effects see |
| `sockets` | `socketsRef.current` |
| `conn`, `closing` | each live socket's order and `readyState`; close events still to come, by order |
| `loads`, `post`, `owner` | requests to the orders service and where they are |

`Render` and `EditUser` run the effect (`Effect`: close what is not listed, open what is
missing), in the second case after `closeAllSockets()` and with the orders of the last
render.  The effect would also close and reopen an entry whose socket is CLOSING or
CLOSED (App.tsx:76).  That never finds one, and the model leaves it out: the websocket
service starts no closing handshake, what the page closes it deletes from the map at
once, and a socket becomes CLOSED in the task that runs its `onclose`, which deletes the
entry of its order.  `LoadArrives` replaces the list, `PostArrives` puts its order in front of
whatever is there, `MessageArrives` is `onmessage`, `Opens` is `onopen`, `Closes` and
`Breaks` are `onclose`, which deletes the map's entry of its order without a look at
the socket in it.

`Shop` adds the variables of the three promises and lets each of the page's steps do
what it does to the services: an opened socket joins, a closed one ends, a read of the
list takes the placed orders of its user, a 201 confirms.  A result may be consumed
late, twice (`MaxCopies`) or not at all.  `alone` and `disowned` are history: no two
requests were ever under way together and none failed; sockets whose map entry was
taken by the close of another socket of the same order.

Two things the runs of `Shop` say by what they do not say.  A result consumed before
the page's subscription is dropped for good, and the list the page loads says NEW for
every order (`update_order_status` has no caller), so `VerdictIsShown` starts when the
update is on its way to the page's socket, and speaks only of the socket in the map.
And the page reaches the services at the paths they serve, `/api/...` and `/ws`;
`nginx.conf` routes `/orders/`, `/payments/` and `/ws/`, which neither the page nor the
services use.

### FinanceApp

Repositories are functions from identifiers to objects (`Stored`, `Erased`); `nextId`
has a counter for each `DomainFactory`: one static in each facade's `create()`, one
in each importer.  There is an action for each call that changes a repository, taken
only if the call does not throw before its first change.  Removing an account leaves
its operations on record; removing one of these later changes no balance, or that of
another account which has come under the identifier; and an import adds under numbers
that may be taken.
Nothing tests the name or the balance of a new account, although
`tests/test_core.cpp` expects both to throw; the model accepts them as the code does.

### Antiplagiat

A step is the begin or the end of a transaction, or one use of a file.  What a
transaction does is shown at its end.  A work is named by the upload that inserted
its row.

| variable | code |
|---|---|
| `conn` | the transaction registered on each service's `pqxx::connection`, or `Lost` once it has broken |
| `works`, `reports` | the tables |
| `files`, `path` | the upload directory; the path of each upload, `<milliseconds>_<name>` |
| `seen` | `file_hash` of an upload, the bytes a reader sends |
| `target`, `found` | the work id a request is about, the match of an analysis |
| `short` | history: uploads whose write failed, which the code does not notice |

`handle_upload` is `Open`, `Write`/`WriteFails`, `Hash`, `BeginSave`, `CommitSave`; a
commit in doubt is `CommitInDoubt`.  `handle_analyze` is `BeginLookup`, `EndLookup`,
`BeginFind`, `EndFind`, `BeginReport`, `EndReport`.  A list of works or reports is
`BeginList`, `EndList`; a request for a report is `BeginCheck`, `EndCheck`, and never gets
beyond them.  These change nothing but hold the connection, so that others are refused
meanmeanwhile.  A reader's file is there when its row is, because nothing removes a file;
`ReadFails` is the answer 500 when it cannot be opened.  `Refused` is a transaction begun
while another is registered, `Fails` a statement that throws or the connection
breaking, `Crash` the death of a process.  What becomes of an exception differs
(`Caught`): `find_similar_works` takes it for no match and `report_exists` for no report,
so that a connection taken at that moment makes the client of `GET /reports/{id}` get a
404; everywhere else it is a 500.

Two uploads of one student and file name within a millisecond open the same path;
`Shared` says so, and a file written by both is `Garbled`.  A second upload of known
content inserts no row, so `find_similar_works`, which looks for another row with the
same unique hash, never finds one; and a report without a match stores -1 in a column
that references `works`.  Together: no analysis reports anything, ever,
and no client of the analysis service gets a 200.  That is not what the program is for,
so it is not one of the properties checked; `AnalysesAreReported` states what the README
says instead, and its run shows the counterexample.

### AntiplagiatGateway

`IsFileServiceRequest`, `IsAnalysisServiceRequest`, `Target`, `TargetPath` and
`Endpoints` are the three lists of paths, over a representative of each; `waiting` is
what the handler of a request waits for, and every step needs a thread of the pool.
`Exhausted` is the pool with no thread left, in which no step is possible: a handler in
`get()` leaves only when another thread has processed what it waits for.  That is a
premise of the model, since the pool is cpprest's and external, and no property.  Uploads by way of the gateway
are forwarded to `/api/upload`, which the file service does not know: the model
answers them 404, as the code does.

## 3. Runs

| run | instance | time |
|---|---|---|
| `orders` | 2 ordinary orders and 1 rejected, 1 reader, batch limit 2, 1 failed call, 1 crash, 1 second; also liveness | ~3 min |
| `payments` | 2 copies of one request, 1 deposit, 1 opening; or 2 deposits that together exceed the column, 2 openings of one account and 1 reader; 1 failed call, 1 crash; until the first race; the refinement | ~2.5 min |
| `payments_races` | 1 request, 1 deposit, 1 opening, no other failures; races and the deaths they cause; also liveness | ~3 min |
| `notifier` | 1 client that asks three times, results for orders 1, 2 and 1 again | ~1 min |
| `notifier_live` | 2 clients that ask once, 2 orders, 1 result; the refinement and liveness | ~3 min |
| `shop` | 2 users, 2 orders of which 1 goes to payment, 5 sockets, a result consumed once, one change of the user or one broken connection; also liveness | ~2 min |
| `finance` | 2 accounts, 2 operations, 1 category, 2 names, both importers, 2 dates | ~2 min |
| `finance_ids` | the same with 1 name; finds the divergence below | seconds |
| `antiplagiat` | 3 uploads; 1 reader of a file or a list, or 1 analysis or request for a report; 2 milliseconds, 1 failure or crash | ~1 min |
| `antiplagiat_plagiarism` | 2 uploads of the same content, 1 analysis, no failures; finds the divergence below | seconds |
| `antiplagiat_reports` | 1 upload, 1 analysis, no failures; finds the divergence below | seconds |
| `gateway` | 7 requests, one of each kind, 3 threads | ~6 s |

Bounds.  The orders of a run against a batch limit of two make a pass take two events
or one, and leave the latecomer for the next pass; one second makes `created_at` equal
for some events and different for others.  One failed call and one crash reach every
error path, each from every state, and the combination of both; the theorems cover any
number.  In the payments service a race takes two
threads that end a transaction and one that begins: inbox, outbox and one HTTP
thread are three, and the two messages of one order are the duplicate.  Two
deposits of 2 against a limit of 3 are the overflow.  The run `payments` has a CONSTRAINT,
`UntilRaced`: no step is taken from a state in which a thread has ended another one's
transaction, and the second deposit, the second opening and the reader do not come
together with a message.  What is conditional on `~raced` says nothing of the states this
cuts off; what holds there as well is checked in `payments_races`, with fewer threads and
without the constraint, and proved without bounds.  In the websocket service a
stale update takes an order left and asked for again, hence three requests; what one
client does to another takes two, and one result.  In Antiplagiat three uploads are a
work, another student's copy, and another content under the name of the first, which
meets it on one path when the clock stands still.  (A student's own retry with the same
content is outside the instance; the theorems cover it.)  A reader and an analysis are not both sent
(CONSTRAINT `OneAsks`): they are on different connections, and neither reads what the
other one writes, since what a list says is not modelled.  In the gateway three threads are
fewer than the five requests that block one.  In `shop` two orders are one that is
listed and one that comes or goes; `MaxWaiting` 1 lets a second request be sent while
one is under way, which is what overtaking takes; one upset (`MaxUpsets`) is a change
of the user, with a list of its own, sockets closed and their late close events, or a
broken connection; five sockets are enough that the page never runs out
of free ones (TLC confirms that).

`CHECK_DEADLOCK FALSE`: requests are finite and a process with an orphaned
transaction, or with everything done, really has nothing to do but sleep; passes
that find the connection taken change nothing; a library nobody calls does nothing.

No run uses symmetry: those that could all check liveness.

`TypeOK` of the orders, payments and websocket services and of Antiplagiat is not run:
`TypeCorrect` of their proof modules establishes it for every instance.  It is run
where it says more than types (`finance`: the identifiers; `shop`: the
socket map; `gateway`: that a request is answered exactly once).

### What the properties say

* Orders: `OutboxAtomicity`, `ProcessedWasPublished`, `AnswersAreTrue`,
  `DuplicatesNeedFailures`, `OldestPublishedFirst`, `OrphanBlocksService`,
  `PendingIsForwarded`, `ImplementsPlacement` (refinement of `OrderPlacement`, which
  contains that a payment is requested only for a committed order).
* Payments: `ReferencesValid`, `NoPaymentSucceeds`, `BooksBalance`, `AnswersAreTrue`,
  `ImplementsVerdicts` (refinement of `PaymentVerdicts`), `VerdictsAreFinal`,
  `OrphanBlocksService`, `ResultsAreForwarded`.
* Websocket: `ListsAreTrue`, `AckedIsSubscribed`, `NoStaleUpdates`, `UpdatesInOrder`,
  `ImplementsNotifications` (refinement of `Notifications`), `UpdatesArrive`.
* Shop: `ListIsRight`, `StatusIsVerdict`, `SocketsAreOwned`, `VerdictIsShown`.
* Finance: `AnalyticsAgree`, `IdsAreFresh` (until an import), and
  `BalanceFollowsOperations`.
* Antiplagiat: `FilesMatchHashes`, `AcknowledgedIsServed`, `NoFalseAccusation`,
  `CopiesAreFlagged`.
* Gateway: `ForwardedIsAnswered` (unless the pool is exhausted).

Each is explained where it is defined.  Definitions named `<Action>_<Change>` are
mutants: the action with a plausible bug, kept next to it to show that the
property can fail.

### What the properties do not say

Some properties cover less than the hazard they are listed under, because the code does
not promise more or because the instance is small.

* `OldestPublishedFirst`, `PendingIsForwarded`: in the run at most two events are
  pending and a batch holds two, so LIMIT never cuts a batch.  `OldestFirstHolds` is
  proved for any limit; liveness with more events than a batch is not checked.
* `ReferencesValid`, and of `AnswersAreTrue` the part on deposits, hold until one thread
  ends another one's transaction.  Afterwards references dangle and a deposit answered
  200 may be undone: that is what the code does, and `BooksBalance`, `VerdictsAreFinal`
  and `ResultsAreForwarded` say what survives it.
* `AckedIsSubscribed` is checked with one client that asks three times and with two
  that ask once, of which one may be dead or dying; both at once is only proved.
* `IdsAreFresh` ends with the first import, after which identifiers do collide
  (`finance_ids`).
* `NoFalseAccusation`: a student's own retry with the same content is outside the
  instance and in the theorem.
* `CopiesAreFlagged` holds as long as `save_report` cannot store a report, since what
  would take a mark away is the status it sets; with the foreign key gone it fails, which
  is its mutant.
* `ForwardedIsAnswered` excepts the exhausted pool, from which nothing recovers.
* `ListIsRight` speaks of the page while no request has met another one
  (`alone`).  Two that overlap can lose an order or show it twice, and
  nothing in the page prevents it.
* `StatusIsVerdict` allows NEW at any time: a list that arrives late takes FINISHED back
  to NEW, since the orders service never learns of results.
* `SocketsAreOwned` names the one way a socket is orphaned (`disowned`), and
  excludes others.
* `VerdictIsShown` lets a load or a POST that is under way take the update back.

### What the code does and its documents do not say

* `finance_ids`: `NothingIsReplaced` states what the finance README says, that
  identifiers are managed centrally.  After a CSV import the first account created
  through the facade has the imported account's identifier and replaces it.
* `antiplagiat_plagiarism`: `PlagiarismIsFound` states what the Antiplagiat README
  says (line 24), that an identical hash at another student is plagiarism found.  No
  analysis ever finds a match.
* `antiplagiat_reports`: `AnalysesAreReported` states what it says next (lines 25 and
  4), that a report is formed.  An analysis without a match, undisturbed, ends with a 500
  and no report, because -1 is no identifier of a work.

### Fairness

Weak fairness of each request's handler once it has begun and of the worker
threads: the operating system schedules threads, and each of these steps is a call
that returns or throws.  That a request arrives, that RabbitMQ delivers, breaks or
comes back, or that the process is restarted is never assumed.  A pass that meets
a taken connection sleeps; weak fairness of the outbox thread is enough for the
liveness properties because the requests of a run are finite, so that in the end
the connection is free or orphaned.  A service whose traffic never pauses could
starve the outbox thread, and nothing in the code prevents that.

Shop: the browser renders what is queued and dispatches messages that have come;
nothing is assumed of users, services, queues and connections.

Websocket: the system schedules the consumer, the `io_context` runs every handler
that is due, and a write on a connection that is up completes, which takes a client
that reads.  Gateway: a service answers, refuses the connection or is timed out after
30 seconds, and a free thread of the pool processes that.  Nothing is assumed of a
client, not even that it sends the body it has announced: a client that does not
blocks a thread, and enough of them exhaust the pool.

## 4. Proofs

`OrdersServiceProofs` proves, for any sets of requests and readers and any bounds:
`TypeOK`, `SingleTransaction`, `OutboxAtomicity`, `NoPhantomRequests` (with
`ProcessedWasPublished`), `AnswersAreTrue`, `DuplicatesNeedFailures`,
`OrphanBlocksService`, `OldestPublishedFirst` and `ImplementsPlacement`.  None of them is inductive.  The
strengthening adds what the open transaction has done at each program counter:
`tx` is `db` plus exactly the rows of the owner's completed statements, an aborted
transaction's `tx` is `db`, the batch is a subset of the pending rows, and a
handler's answer and its order agree.  Refinement then follows step by step: commits
map to Place, answers to Confirm, first publishes to RequestPayment, everything
else to a stutter.  For `OldestPublishedFirst` the batch is followed through a pass:
while RabbitMQ is up, what is left of it is older than every pending event that was never
published (`AheadInv`); a broken connection comes back only with a new process, which
starts without a batch (`DownInv`).

`PaymentsServiceProofs` proves `TypeOK` and every property of the payments service but
its liveness.  For `ReferencesValid` and `NoPaymentSucceeds` the invariant ties each thread's program counter to the state of its object in the
slot as long as no race has happened (`OwnerInv`), and follows the verdict from
`process_payment` to the event row (`VerdictInv`).

`OrphanBlocksService` needs only the types: no
thread that waits outside a transaction can take the connection back.
`VerdictsAreFinal` holds through races because what is committed stays in every open
transaction (`EventsKept`), a message is handled once (`HandledOnce`), and a result is
marked only by a pass that sent it (`MarkedWasSent`).  `ImplementsVerdicts` is about the
time until the first race: no step but the inbox thread's own changes a row or the set of
results, and its open transaction is at most one row and one result ahead of the committed
tables (`InsideInv`), both of an order that has no row yet (`UndecidedInv`); so its commit
is Decide, the first publish of a result is Announce, and all else is a stutter.

`BooksBalance` is proved of both versions of the tables, the committed one and the one of
the open transaction (`BooksInv`): a commit or a rollback, by whichever thread, makes one
of them the other.  A deposit or a payment is entered into an account once because
its thread is not yet on the books while it may still get there (`CreditsInv`,
`DebitsInv`); the bounds of a balance are those the UPDATEs test, on the row as it is when
they execute.  `AnswersAreTrue` follows each request to
its answer (`DepositsInv`, `OpeningsInv`): until the first race a deposit is in the open
transaction at its commit and in the committed tables at the second one; of two openings
that both passed the test only one INSERT finds no row, whatever is raced.

`WebSocketNotifierProofs` proves `TypeOK`, which contains that a session has at most
one write pending and a queue that holds what it writes, and all
properties but liveness.  `ListsAreTrue` needs that a session on a list is still reading, or being
subscribed, or was reset (`ReaderInv`), and that one whose write failed is on no list
and is not being subscribed (`FailedInv`): otherwise its death would leave it behind.
The others speak of what a client got; the proof speaks of the session's `Stream`, what
it got and is going to get, which steps only ever extend at its end (`StreamStep`).
`UpdatesInOrder` follows because a result has a larger number than all in the stream;
`NoStaleUpdates` from counting answers against requests (`AnswersInv`) and from the list
naming the last request (`NamesLastInv`); `AckedIsSubscribed` from the last request being
in force or in its handler (`HeldInv`) and from the count, by which a client with all its
answers has no handler running.

`ImplementsNotifications` needs that a session is alive for as long as it matters
(`LifeInv`): one that is open reads or is in its handler, so a finished write does
not end it; one that is young or about to be subscribed is on no list, so taking it up
changes nothing and Subscribe is a Join.  Every other end of a read or write is a Leave,
or a stutter where the dead session stays on its list; a finished write is Deliver if it wrote
an update; Notify is Push, whose followers are the sessions `Told`, so that the result is in all
their boxes at once.  What moves between strand and queue, and every acknowledgement,
leaves the updates among the messages waiting as they are (`QuietBoxes`).

`FinanceAppProofs` proves the three invariants and `BalanceFollowsOperations`.  `TypeOK`
contains that every object sits under an identifier some factory has issued;
`IdsAreFresh` follows from the fact that before the
first import operations name only accounts the facade has issued (`FacadeInv`).
`AnalyticsAgree` is arithmetic over any finite set of operations: a sum of signed amounts
is the sum over the categories of each one's part (`SumOfParts`).
`BalanceFollowsOperations` splits each change of the operations from the rest of the sum, and
needs to know that an account the facade creates replaces only what an import has left there
(`NamesInv`).

`AntiplagiatProofs` proves `TypeOK` and all four safety properties.  `Inv1` is about
control: types, who holds a connection, what each program counter implies about files
and rows, uniqueness of hashes, and that no report is ever stored
(`NothingIsReported`, on which `CopiesAreFlagged` rests).  `Inv2` is about contents: what an upload in progress
knows of its file, what a row says of it, what was answered.  Most actions touch
neither files nor rows nor answers; `Quiet` names what they leave alone, and each part
of the invariant is proved once for all of these and then for the few others.

`ShopProofs` proves `TypeOK` and the three safety properties of `Shop` for any users, orders, sockets
and bounds.

* `TypeOK` needs what `FollowsInv` says: a session follows the order of its connection or
  none, so a verdict pushed to it is of an order the list may hold.
* `StatusIsVerdict` follows a verdict from the inbox row to the page: what was announced
  is on record, what lies in a session's box was announced, and what the list shows other
  than NEW came out of a box; steps of the page and of the other services keep each link.
* `ListIsRight` needs to know what `alone` says of the requests under way
  (`OneRequest`): there is at most one, it is for the user of the page, and a list that
  was read is still the right one when it arrives.  As long as none is under way the
  page has the orders whose 201 it has received, each once (`Heard`, `Lists`).
* `SocketsAreOwned` rests on what the effect does (`EffectDoes`, which needs that it can
  choose a free socket for each order, and so that `Sockets` is finite) and on the two
  maps agreeing both ways (`SocketsInv`).  Its second half says what happens before the
  first upset (`UndisturbedInv`): there is one list; until it arrives the page only has
  orders with a 201; what it takes away does not come back, so a late close event never
  meets an order that is shown.

`AntiplagiatGatewayProofs` proves `TypeOK` (no handler replies twice or not at all) and
that waiting handlers never outnumber the threads
(`PoolIsNeverExceeded`): each step needs a free thread and makes at most one more wait.

All of them rest only on the ASSUMEs of the modules, which TLC evaluates in each run:
thread names are distinct, bounds are naturals, data have their types, connections are
finitely many.

Several of these properties speak of data of any size: sums over sets, what is left of a
queue when acknowledgements are taken out.  The induction theorems of the library take a
predicate, which the installed provers cannot be given; `DataTheorems` states induction
over naturals and over the subsets of a finite set with a set in place of the predicate, and
proves from it that the recursive definitions behind `SumFunction` have a value and what it
is when an element is added, removed or changed, or the set is split by a key.
`UpdatesAmong` of `WebSocketNotifier` is written as such a recursive function and treated the
same way (`Collected`, `UpdatesAppended`, `UpdatesHeadOff`).

Only model-checked: liveness, since the prover knows no fairness: `PendingIsForwarded`,
`ResultsAreForwarded`, `UpdatesArrive`, `ForwardedIsAnswered`, `VerdictIsShown`.  Every other property
of a run that passes is a theorem for every value of the constants.

## 5. Not modelled

* Instructions inside one library call, including the data race between libpqxx's
  test and set of the registered transaction.
* Bodies, descriptions, formatting, logging; `update_order_status`, which has no
  caller; fractions of a cent.
* The PostgreSQL connection breaking for good (a failed call stands for each single
  failure) and network partitions.
* Page: the test for CLOSING and CLOSED sockets in the effect, which finds none (see
  OrderPage above).
* Websocket: exceptions while the process starts, clients that stay and never read,
  the orderly end of `main()` as a property (its steps are modelled).
* Page: the balance and its two buttons, toasts, order fields; the page being closed or
  reloaded; `nginx.conf` and the development proxy, which is why `Shop` assumes a proxy
  that reaches the services.  The shop's data models are records and their conversion
  from and to JSON: `Shop` has the fields that carry control (order, user, success).
* Antiplagiat: what the lists of works and reports say; `get_report`, which is never
  reached; functions nobody calls (`hash_exists`, `calculate_similarity`, the file service's
  `save_report`); nginx.
* Finance: exports, commands, the container, `SimpleCachedRepository` (the same map).

## 6. Plan

Done: the modules above, the most important services first, and their composition.
What would come next:

1. A page that is reloaded while its orders are paid, and the order in which the
   websocket service acknowledges a result and pushes it.
2. The theorems about composition: that what `Shop` assumes of a service follows from the
   detailed one under the environment `Shop` gives it.
