------------------------ MODULE OrdersServiceProofs ------------------------
(***************************************************************************)
(* Proofs about OrdersService, for every set of requests and readers and   *)
(* every bound.  The invariants build on one another: types, the           *)
(* connection, the tables and their image in the open transaction, the     *)
(* messages, and the count of copies.                                      *)
(***************************************************************************)
EXTENDS OrdersService, TLAPS

-----------------------------------------------------------------------------
(* Which steps a thread of each kind goes through.                           *)
PcInv ==
    /\ \A r \in Requests : pc[r] \in {"idle", "done"} \cup HandlerSteps
    /\ \A g \in Readers : pc[g] \in {"idle", "query", "done"}
    /\ pc[Outbox] \in {"sleep"} \cup OutboxSteps
    /\ \A r \in Requests : reply[r] # 0 => pc[r] = "done"

(* The connection: one transaction, and an image that differs from the       *)
(* committed tables only inside it.                                          *)
ConnectionInv ==
    /\ SingleTransaction
    /\ guest = Nobody => ~failed
    /\ guest = Nobody \/ failed => tx = db
    /\ \A t \in Threads : pc[t] \in {"order", "event", "commit", "query", "select"} => ~failed
    /\ \A t \in Threads : pc[t] \in {"order", "query", "select"} => tx = db

Atomic(tables) ==
    /\ tables.orders = tables.pending \cup tables.processed
    /\ tables.pending \cap tables.processed = {}

(* What the open transaction did to the tables, by where its owner is.       *)
FreshInv ==
    \A r \in Requests :
        pc[r] \in {"idle", "order", "event", "commit"} => r \notin db.orders

HandlerImage ==
    \A r \in Requests :
        /\ pc[r] = "event" =>
              /\ tx.orders = db.orders \cup {r}
              /\ tx.pending = db.pending
              /\ tx.processed = db.processed
        /\ pc[r] = "commit" =>
              /\ tx.orders = db.orders \cup {r}
              /\ tx.pending = db.pending \cup {r}
              /\ tx.processed = db.processed

PassImage ==
    pc[Outbox] \in {"publish", "mark"} =>
        /\ Atomic(tx)
        /\ tx.orders = db.orders
        /\ batch \subseteq tx.pending
        /\ batch \subseteq db.pending
        /\ current \notin batch
        /\ current # Nobody => current \in db.pending
        /\ current # Nobody /\ ~failed => current \in tx.pending

BatchInv == pc[Outbox] \in {"sleep", "select"} => batch = {}

RepliedInv == \A r \in Requests : pc[r] = "reply" => r \in db.orders

TablesInv ==
    /\ Atomic(db)
    /\ FreshInv
    /\ HandlerImage
    /\ PassImage
    /\ BatchInv
    /\ RepliedInv

(* What was published, against both images of the tables.                    *)
Sent(r) == published[r] > 0 \/ r \in lost

SentInv ==
    /\ \A r \in db.processed \cup tx.processed : Sent(r)
    /\ current # Nobody => Sent(current)

MessagesInv == NoPhantomRequests /\ SentInv /\ AnswersAreTrue

(* Copies of a request.  A pass that lost its transaction has paid for the   *)
(* copies it makes with the fault that failed it.                            *)
Failures == faults + crashes
Paid == IF failed THEN Failures ELSE Failures + 1
CopiesInv ==
    /\ DuplicatesNeedFailures
    /\ pc[Outbox] \notin {"publish", "mark"} =>
          \A r \in db.pending : published[r] <= Failures
    /\ pc[Outbox] \in {"publish", "mark"} =>
          /\ \A r \in batch : published[r] < Paid
          /\ \A r \in db.pending : published[r] <= Paid
          /\ ~failed => \A r \in tx.pending : r # current => published[r] <= Failures

IInv == TypeOK /\ PcInv /\ ConnectionInv /\ TablesInv /\ MessagesInv /\ CopiesInv

-----------------------------------------------------------------------------
(* The groups of variables in UNCHANGED and the library calls are always     *)
(* expanded.                                                                 *)
USE DEF vars, dbVars, mqVars, outboxVars, envVars
USE DEF Register, Statement, StatementThrows, CommitTransaction, CommitThrows, Fault

LEMMA ThreadKinds ==
    /\ Outbox \in Threads
    /\ Requests \subseteq Threads
    /\ Readers \subseteq Threads
    /\ Nobody \notin Threads
    /\ \A r \in Requests : r # Outbox /\ r \notin Readers
    /\ \A g \in Readers : g # Outbox
BY RequestsAssumption DEF Threads

LEMMA TypeInit == Init => TypeOK
<1> SUFFICES ASSUME Init PROVE TypeOK
    OBVIOUS
<1> USE RequestsAssumption DEF Init
<1>1. ControlType
    BY ThreadKinds DEF ControlType
<1>2. ConnectionType
    BY DEF ConnectionType, Tables, EmptyTables
<1>3. MessagesType
    BY DEF MessagesType
<1>4. QED
    BY <1>1, <1>2, <1>3 DEF TypeOK

LEMMA ControlTypeStep == TypeOK /\ [Next]_vars => ControlType'
<1> SUFFICES ASSUME TypeOK, [Next]_vars PROVE ControlType'
    OBVIOUS
<1> USE RequestsAssumption, ThreadKinds DEF TypeOK, ControlType, HandlerSteps, OutboxSteps, ConnectionType, Tables
<1>1. ASSUME NEW r \in Requests, PostBegin(r) PROVE ControlType'
    BY <1>1 DEF PostBegin
<1>2. ASSUME NEW r \in Requests, PostRefused(r) PROVE ControlType'
    BY <1>2 DEF PostRefused
<1>3. ASSUME NEW r \in Requests, InsertOrder(r) PROVE ControlType'
    BY <1>3 DEF InsertOrder
<1>4. ASSUME NEW r \in Requests, InsertEvent(r) PROVE ControlType'
    BY <1>4 DEF InsertEvent
<1>5. ASSUME NEW r \in Requests, CommitOrder(r) PROVE ControlType'
    BY <1>5 DEF CommitOrder
<1>6. ASSUME NEW r \in Requests, Reply201(r) PROVE ControlType'
    BY <1>6 DEF Reply201
<1>7. ASSUME NEW r \in Requests, PostThrows(r) PROVE ControlType'
    BY <1>7 DEF PostThrows
<1>8. ASSUME NEW g \in Readers, GetBegin(g) PROVE ControlType'
    BY <1>8 DEF GetBegin
<1>9. ASSUME NEW g \in Readers, GetRefused(g) PROVE ControlType'
    BY <1>9 DEF GetRefused
<1>10. ASSUME NEW g \in Readers, GetEnd(g) PROVE ControlType'
    BY <1>10 DEF GetEnd
<1>11. CASE PassBegin
    BY <1>11 DEF PassBegin
<1>12. CASE SelectPending
    BY <1>12 DEF SelectPending
<1>13. CASE Publish
    BY <1>13 DEF Publish
<1>14. CASE MarkProcessed
    BY <1>14 DEF MarkProcessed
<1>15. CASE PassCommit
    BY <1>15 DEF PassCommit
<1>16. CASE PassThrows
    BY <1>16 DEF PassThrows
<1>17. CASE Tick
    BY <1>17 DEF Tick
<1>18. CASE MqBreak
    BY <1>18 DEF MqBreak
<1>19. CASE Crash
    <2>1. (pc \in [Threads -> {"idle", "sleep", "done", "query"} \cup HandlerSteps \cup OutboxSteps])'
        BY <1>19 DEF Crash
    <2>2. pc'[Outbox] = "sleep"
        BY <1>19 DEF Crash
    <2>3. up' = FALSE /\ reply' = reply /\ batch' = {} /\ current' = Nobody
        BY <1>19 DEF Crash
    <2>4. (batch \subseteq Requests)' /\ (current \in Requests \cup {Nobody})'
        BY <2>3
    <2>5. (pc[Outbox] = "mark" <=> current # Nobody)'
        BY <2>2, <2>3
    <2>6. (up \in BOOLEAN)'
        BY <2>3
    <2>7. /\ (reply \in [Requests \cup Readers -> {0, 200, 201, 400, 404, 500}])'
          /\ (\A r \in Requests : reply[r] \in {0, 201, 400})'
          /\ (\A g \in Readers : reply[g] \in {0, 200, 400, 404, 500})'
        BY <2>3
    <2>8. QED
        BY <2>1, <2>4, <2>5, <2>6, <2>7 DEF ControlType
<1>20. CASE Restart
    BY <1>20 DEF Restart
<1>21. CASE UNCHANGED vars
    BY <1>21
<1>22. QED
    BY <1>1, <1>2, <1>3, <1>4, <1>5, <1>6, <1>7, <1>8, <1>9, <1>10, <1>11,
       <1>12, <1>13, <1>14, <1>15, <1>16, <1>17, <1>18, <1>19, <1>20, <1>21
       DEF Next, HandlerStep, OutboxStep

LEMMA ConnectionTypeStep == TypeOK /\ [Next]_vars => ConnectionType'
<1> SUFFICES ASSUME TypeOK, [Next]_vars PROVE ConnectionType'
    OBVIOUS
<1> USE RequestsAssumption, ThreadKinds DEF TypeOK, ConnectionType
<1>1. ASSUME NEW r \in Requests, PostBegin(r) PROVE ConnectionType'
    BY <1>1 DEF PostBegin
<1>2. ASSUME NEW r \in Requests, PostRefused(r) PROVE ConnectionType'
    BY <1>2 DEF PostRefused
<1>3. ASSUME NEW r \in Requests, InsertOrder(r) PROVE ConnectionType'
    BY <1>3 DEF InsertOrder, Tables
<1>4. ASSUME NEW r \in Requests, InsertEvent(r) PROVE ConnectionType'
    BY <1>4 DEF InsertEvent, Tables
<1>5. ASSUME NEW r \in Requests, CommitOrder(r) PROVE ConnectionType'
    BY <1>5 DEF CommitOrder
<1>6. ASSUME NEW r \in Requests, Reply201(r) PROVE ConnectionType'
    BY <1>6 DEF Reply201
<1>7. ASSUME NEW r \in Requests, PostThrows(r) PROVE ConnectionType'
    <2>1. StatementThrows => ConnectionType'
        OBVIOUS
    <2>2. CommitThrows => ConnectionType'
        BY DEF Tables
    <2>3. QED
        BY <1>7, <2>1, <2>2 DEF PostThrows
<1>8. ASSUME NEW g \in Readers, GetBegin(g) PROVE ConnectionType'
    BY <1>8 DEF GetBegin
<1>9. ASSUME NEW g \in Readers, GetRefused(g) PROVE ConnectionType'
    BY <1>9 DEF GetRefused
<1>10. ASSUME NEW g \in Readers, GetEnd(g) PROVE ConnectionType'
    BY <1>10 DEF GetEnd
<1>11. CASE PassBegin
    BY <1>11 DEF PassBegin
<1>12. CASE SelectPending
    BY <1>12 DEF SelectPending
<1>13. CASE Publish
    BY <1>13 DEF Publish
<1>14. CASE MarkProcessed
    <2>1. CASE /\ tx' = [tx EXCEPT !.pending = @ \ {current}, !.processed = @ \cup {current}]
               /\ UNCHANGED <<db, guest, failed>>
        <3>1. current \in Requests
            BY <1>14 DEF MarkProcessed, ControlType
        <3>2. QED
            BY <2>1, <3>1 DEF Tables
    <2>2. CASE StatementThrows
        BY <2>2
    <2>3. QED
        BY <1>14, <2>1, <2>2 DEF MarkProcessed
<1>15. CASE PassCommit
    BY <1>15 DEF PassCommit
<1>16. CASE PassThrows
    <2>1. StatementThrows => ConnectionType'
        OBVIOUS
    <2>2. CommitThrows => ConnectionType'
        BY DEF Tables
    <2>3. QED
        BY <1>16, <2>1, <2>2 DEF PassThrows
<1>17. CASE Tick
    BY <1>17 DEF Tick
<1>18. CASE MqBreak
    BY <1>18 DEF MqBreak
<1>19. CASE Crash
    BY <1>19 DEF Crash
<1>20. CASE Restart
    BY <1>20 DEF Restart
<1>21. CASE UNCHANGED vars
    BY <1>21
<1>22. QED
    BY <1>1, <1>2, <1>3, <1>4, <1>5, <1>6, <1>7, <1>8, <1>9, <1>10, <1>11,
       <1>12, <1>13, <1>14, <1>15, <1>16, <1>17, <1>18, <1>19, <1>20, <1>21
       DEF Next, HandlerStep, OutboxStep

LEMMA MessagesTypeStep == TypeOK /\ [Next]_vars => MessagesType'
<1> SUFFICES ASSUME TypeOK, [Next]_vars PROVE MessagesType'
    OBVIOUS
<1> USE BoundsAssumption DEF TypeOK, MessagesType, ControlType
<1>1. ASSUME NEW r \in Requests, PostBegin(r) PROVE MessagesType'
    BY <1>1 DEF PostBegin
<1>2. ASSUME NEW r \in Requests, PostRefused(r) PROVE MessagesType'
    BY <1>2 DEF PostRefused
<1>3. ASSUME NEW r \in Requests, InsertOrder(r) PROVE MessagesType'
    BY <1>3 DEF InsertOrder
<1>4. ASSUME NEW r \in Requests, InsertEvent(r) PROVE MessagesType'
    BY <1>4 DEF InsertEvent
<1>5. ASSUME NEW r \in Requests, CommitOrder(r) PROVE MessagesType'
    BY <1>5 DEF CommitOrder
<1>6. ASSUME NEW r \in Requests, Reply201(r) PROVE MessagesType'
    BY <1>6 DEF Reply201
<1>7. ASSUME NEW r \in Requests, PostThrows(r) PROVE MessagesType'
    BY <1>7 DEF PostThrows
<1>8. ASSUME NEW g \in Readers, GetBegin(g) PROVE MessagesType'
    BY <1>8 DEF GetBegin
<1>9. ASSUME NEW g \in Readers, GetRefused(g) PROVE MessagesType'
    BY <1>9 DEF GetRefused
<1>10. ASSUME NEW g \in Readers, GetEnd(g) PROVE MessagesType'
    BY <1>10 DEF GetEnd
<1>11. CASE PassBegin
    BY <1>11 DEF PassBegin
<1>12. CASE SelectPending
    BY <1>12 DEF SelectPending
<1>13. CASE Publish
    <2>1. PICK e \in batch :
              /\ \/ published' = published
                 \/ published' = [published EXCEPT ![e] = @ + 1]
              /\ lost' = lost \/ lost' = lost \cup {e}
              /\ mqUp' = mqUp \/ mqUp' = FALSE
        BY <1>13 DEF Publish
    <2>2. UNCHANGED <<created, now, faults, crashes>>
        BY <1>13 DEF Publish
    <2>3. mqUp' \in BOOLEAN
        <3>1. CASE mqUp' = mqUp
            BY <3>1
        <3>2. CASE mqUp' = FALSE
            BY <3>2
        <3>3. QED
            BY <2>1, <3>1, <3>2
    <2>4. (published \in [Requests -> Nat])' /\ (lost \subseteq Requests)'
        BY <2>1
    <2>5. QED
        BY <2>2, <2>3, <2>4
<1>14. CASE MarkProcessed
    BY <1>14 DEF MarkProcessed
<1>15. CASE PassCommit
    BY <1>15 DEF PassCommit
<1>16. CASE PassThrows
    BY <1>16 DEF PassThrows
<1>17. CASE Tick
    BY <1>17 DEF Tick
<1>18. CASE MqBreak
    BY <1>18 DEF MqBreak
<1>19. CASE Crash
    BY <1>19 DEF Crash
<1>20. CASE Restart
    BY <1>20 DEF Restart
<1>21. CASE UNCHANGED vars
    BY <1>21
<1>22. QED
    BY <1>1, <1>2, <1>3, <1>4, <1>5, <1>6, <1>7, <1>8, <1>9, <1>10, <1>11,
       <1>12, <1>13, <1>14, <1>15, <1>16, <1>17, <1>18, <1>19, <1>20, <1>21
       DEF Next, HandlerStep, OutboxStep

(* The orders service keeps every variable's type, for every set of requests *)
(* and readers and every bound.                                              *)
THEOREM TypeCorrect == Spec => []TypeOK
<1>1. QED
    BY TypeInit, ControlTypeStep, ConnectionTypeStep, MessagesTypeStep, PTL DEF Spec, TypeOK
-----------------------------------------------------------------------------
(* The strengthening, part by part.                                          *)

LEMMA SafetyInit ==
    Init => PcInv /\ ConnectionInv /\ TablesInv /\ MessagesInv /\ CopiesInv
<1> SUFFICES ASSUME Init
             PROVE  PcInv /\ ConnectionInv /\ TablesInv /\ MessagesInv /\ CopiesInv
    OBVIOUS
<1> USE RequestsAssumption, ThreadKinds DEF Init, EmptyTables
<1>1. \A t \in Threads : pc[t] \in {"idle", "sleep"}
    OBVIOUS
<1>2. PcInv
    BY DEF PcInv
<1>3. ConnectionInv
    BY <1>1 DEF ConnectionInv, SingleTransaction, InTransaction
<1>4. TablesInv
    BY DEF TablesInv, Atomic, FreshInv, HandlerImage, PassImage, BatchInv, RepliedInv
<1>5. MessagesInv
    BY DEF MessagesInv, NoPhantomRequests, SentInv, AnswersAreTrue
<1>6. CopiesInv
    BY DEF CopiesInv, DuplicatesNeedFailures, Failures, Paid
<1>7. QED
    BY <1>2, <1>3, <1>4, <1>5, <1>6

LEMMA PcStep == TypeOK /\ PcInv /\ [Next]_vars => PcInv'
<1> SUFFICES ASSUME TypeOK /\ PcInv, [Next]_vars PROVE PcInv'
    OBVIOUS
<1> USE RequestsAssumption, ThreadKinds DEF TypeOK, ControlType, PcInv, HandlerSteps, OutboxSteps
<1>1. ASSUME NEW r \in Requests, PostBegin(r) PROVE PcInv'
    BY <1>1 DEF PostBegin
<1>2. ASSUME NEW r \in Requests, PostRefused(r) PROVE PcInv'
    BY <1>2 DEF PostRefused
<1>3. ASSUME NEW r \in Requests, InsertOrder(r) PROVE PcInv'
    BY <1>3 DEF InsertOrder
<1>4. ASSUME NEW r \in Requests, InsertEvent(r) PROVE PcInv'
    BY <1>4 DEF InsertEvent
<1>5. ASSUME NEW r \in Requests, CommitOrder(r) PROVE PcInv'
    BY <1>5 DEF CommitOrder
<1>6. ASSUME NEW r \in Requests, Reply201(r) PROVE PcInv'
    BY <1>6 DEF Reply201
<1>7. ASSUME NEW r \in Requests, PostThrows(r) PROVE PcInv'
    BY <1>7 DEF PostThrows
<1>8. ASSUME NEW g \in Readers, GetBegin(g) PROVE PcInv'
    BY <1>8 DEF GetBegin
<1>9. ASSUME NEW g \in Readers, GetRefused(g) PROVE PcInv'
    BY <1>9 DEF GetRefused
<1>10. ASSUME NEW g \in Readers, GetEnd(g) PROVE PcInv'
    BY <1>10 DEF GetEnd
<1>11. CASE PassBegin
    BY <1>11 DEF PassBegin
<1>12. CASE SelectPending
    BY <1>12 DEF SelectPending
<1>13. CASE Publish
    BY <1>13 DEF Publish
<1>14. CASE MarkProcessed
    BY <1>14 DEF MarkProcessed
<1>15. CASE PassCommit
    BY <1>15 DEF PassCommit
<1>16. CASE PassThrows
    BY <1>16 DEF PassThrows
<1>17. CASE Tick
    BY <1>17 DEF Tick
<1>18. CASE MqBreak
    BY <1>18 DEF MqBreak
<1>19. CASE Crash
    BY <1>19 DEF Crash
<1>20. CASE Restart
    BY <1>20 DEF Restart
<1>21. CASE UNCHANGED vars
    BY <1>21
<1>22. QED
    BY <1>1, <1>2, <1>3, <1>4, <1>5, <1>6, <1>7, <1>8, <1>9, <1>10, <1>11,
       <1>12, <1>13, <1>14, <1>15, <1>16, <1>17, <1>18, <1>19, <1>20, <1>21
       DEF Next, HandlerStep, OutboxStep

LEMMA ConnectionStep == TypeOK /\ PcInv /\ ConnectionInv /\ [Next]_vars => ConnectionInv'
<1> SUFFICES ASSUME TypeOK /\ PcInv /\ ConnectionInv, [Next]_vars PROVE ConnectionInv'
    OBVIOUS
<1> USE RequestsAssumption, ThreadKinds DEF TypeOK, ControlType, ConnectionInv, SingleTransaction, InTransaction
<1>1. ASSUME NEW r \in Requests, PostBegin(r) PROVE ConnectionInv'
    BY <1>1 DEF PostBegin
<1>2. ASSUME NEW r \in Requests, PostRefused(r) PROVE ConnectionInv'
    BY <1>2 DEF PostRefused
<1>3. ASSUME NEW r \in Requests, InsertOrder(r) PROVE ConnectionInv'
    BY <1>3 DEF InsertOrder
<1>4. ASSUME NEW r \in Requests, InsertEvent(r) PROVE ConnectionInv'
    BY <1>4 DEF InsertEvent
<1>5. ASSUME NEW r \in Requests, CommitOrder(r) PROVE ConnectionInv'
    BY <1>5 DEF CommitOrder
<1>6. ASSUME NEW r \in Requests, Reply201(r) PROVE ConnectionInv'
    BY <1>6 DEF Reply201
<1>7. ASSUME NEW r \in Requests, PostThrows(r) PROVE ConnectionInv'
    BY <1>7 DEF PostThrows
<1>8. ASSUME NEW g \in Readers, GetBegin(g) PROVE ConnectionInv'
    BY <1>8 DEF GetBegin
<1>9. ASSUME NEW g \in Readers, GetRefused(g) PROVE ConnectionInv'
    BY <1>9 DEF GetRefused
<1>10. ASSUME NEW g \in Readers, GetEnd(g) PROVE ConnectionInv'
    BY <1>10 DEF GetEnd
<1>11. CASE PassBegin
    BY <1>11 DEF PassBegin
<1>12. CASE SelectPending
    BY <1>12 DEF SelectPending
<1>13. CASE Publish
    BY <1>13 DEF Publish
<1>14. CASE MarkProcessed
    BY <1>14 DEF MarkProcessed
<1>15. CASE PassCommit
    BY <1>15 DEF PassCommit
<1>16. CASE PassThrows
    BY <1>16 DEF PassThrows
<1>17. CASE Tick
    BY <1>17 DEF Tick
<1>18. CASE MqBreak
    BY <1>18 DEF MqBreak
<1>19. CASE Crash
    BY <1>19 DEF Crash
<1>20. CASE Restart
    BY <1>20 DEF Restart
<1>21. CASE UNCHANGED vars
    BY <1>21
<1>22. QED
    BY <1>1, <1>2, <1>3, <1>4, <1>5, <1>6, <1>7, <1>8, <1>9, <1>10, <1>11,
       <1>12, <1>13, <1>14, <1>15, <1>16, <1>17, <1>18, <1>19, <1>20, <1>21
       DEF Next, HandlerStep, OutboxStep

LEMMA AtomicStep == TypeOK /\ PcInv /\ ConnectionInv /\ TablesInv /\ [Next]_vars => Atomic(db)'
<1> SUFFICES ASSUME TypeOK /\ PcInv /\ ConnectionInv /\ TablesInv, [Next]_vars PROVE Atomic(db)'
    OBVIOUS
<1> USE RequestsAssumption, ThreadKinds DEF TypeOK, ControlType, PcInv, ConnectionInv, SingleTransaction, InTransaction, TablesInv, Atomic, FreshInv, HandlerImage, PassImage
<1>1. ASSUME NEW r \in Requests, PostBegin(r) PROVE Atomic(db)'
    BY <1>1 DEF PostBegin
<1>2. ASSUME NEW r \in Requests, PostRefused(r) PROVE Atomic(db)'
    BY <1>2 DEF PostRefused
<1>3. ASSUME NEW r \in Requests, InsertOrder(r) PROVE Atomic(db)'
    BY <1>3 DEF InsertOrder
<1>4. ASSUME NEW r \in Requests, InsertEvent(r) PROVE Atomic(db)'
    BY <1>4 DEF InsertEvent
<1>5. ASSUME NEW r \in Requests, CommitOrder(r) PROVE Atomic(db)'
    <2>1. Atomic(tx)
        BY <1>5 DEF CommitOrder
    <2>2. QED
        BY <1>5, <2>1 DEF CommitOrder
<1>6. ASSUME NEW r \in Requests, Reply201(r) PROVE Atomic(db)'
    BY <1>6 DEF Reply201
<1>7. ASSUME NEW r \in Requests, PostThrows(r) PROVE Atomic(db)'
    <2>1. StatementThrows => Atomic(db)'
        OBVIOUS
    <2>2. pc[r] = "commit" => Atomic(tx)
        OBVIOUS
    <2>3. pc[r] = "commit" /\ CommitThrows => Atomic(db)'
        BY <2>2
    <2>4. QED
        BY <1>7, <2>1, <2>3 DEF PostThrows
<1>8. ASSUME NEW g \in Readers, GetBegin(g) PROVE Atomic(db)'
    BY <1>8 DEF GetBegin
<1>9. ASSUME NEW g \in Readers, GetRefused(g) PROVE Atomic(db)'
    BY <1>9 DEF GetRefused
<1>10. ASSUME NEW g \in Readers, GetEnd(g) PROVE Atomic(db)'
    BY <1>10 DEF GetEnd
<1>11. CASE PassBegin
    BY <1>11 DEF PassBegin
<1>12. CASE SelectPending
    BY <1>12 DEF SelectPending
<1>13. CASE Publish
    BY <1>13 DEF Publish
<1>14. CASE MarkProcessed
    BY <1>14 DEF MarkProcessed
<1>15. CASE PassCommit
    BY <1>15 DEF PassCommit
<1>16. CASE PassThrows
    BY <1>16 DEF PassThrows
<1>17. CASE Tick
    BY <1>17 DEF Tick
<1>18. CASE MqBreak
    BY <1>18 DEF MqBreak
<1>19. CASE Crash
    BY <1>19 DEF Crash
<1>20. CASE Restart
    BY <1>20 DEF Restart
<1>21. CASE UNCHANGED vars
    BY <1>21
<1>22. QED
    BY <1>1, <1>2, <1>3, <1>4, <1>5, <1>6, <1>7, <1>8, <1>9, <1>10, <1>11,
       <1>12, <1>13, <1>14, <1>15, <1>16, <1>17, <1>18, <1>19, <1>20, <1>21
       DEF Next, HandlerStep, OutboxStep

LEMMA FreshStep == TypeOK /\ PcInv /\ ConnectionInv /\ TablesInv /\ [Next]_vars => FreshInv'
<1> SUFFICES ASSUME TypeOK /\ PcInv /\ ConnectionInv /\ TablesInv, [Next]_vars PROVE FreshInv'
    OBVIOUS
<1> USE RequestsAssumption, ThreadKinds DEF TypeOK, ControlType, PcInv, ConnectionInv, SingleTransaction, InTransaction, TablesInv, FreshInv, HandlerImage, PassImage
<1>1. ASSUME NEW r \in Requests, PostBegin(r) PROVE FreshInv'
    BY <1>1 DEF PostBegin
<1>2. ASSUME NEW r \in Requests, PostRefused(r) PROVE FreshInv'
    BY <1>2 DEF PostRefused
<1>3. ASSUME NEW r \in Requests, InsertOrder(r) PROVE FreshInv'
    BY <1>3 DEF InsertOrder
<1>4. ASSUME NEW r \in Requests, InsertEvent(r) PROVE FreshInv'
    BY <1>4 DEF InsertEvent
<1>5. ASSUME NEW r \in Requests, CommitOrder(r) PROVE FreshInv'
    BY <1>5 DEF CommitOrder
<1>6. ASSUME NEW r \in Requests, Reply201(r) PROVE FreshInv'
    BY <1>6 DEF Reply201
<1>7. ASSUME NEW r \in Requests, PostThrows(r) PROVE FreshInv'
    BY <1>7 DEF PostThrows
<1>8. ASSUME NEW g \in Readers, GetBegin(g) PROVE FreshInv'
    BY <1>8 DEF GetBegin
<1>9. ASSUME NEW g \in Readers, GetRefused(g) PROVE FreshInv'
    BY <1>9 DEF GetRefused
<1>10. ASSUME NEW g \in Readers, GetEnd(g) PROVE FreshInv'
    BY <1>10 DEF GetEnd
<1>11. CASE PassBegin
    BY <1>11 DEF PassBegin
<1>12. CASE SelectPending
    BY <1>12 DEF SelectPending
<1>13. CASE Publish
    BY <1>13 DEF Publish
<1>14. CASE MarkProcessed
    BY <1>14 DEF MarkProcessed
<1>15. CASE PassCommit
    BY <1>15 DEF PassCommit
<1>16. CASE PassThrows
    BY <1>16 DEF PassThrows
<1>17. CASE Tick
    BY <1>17 DEF Tick
<1>18. CASE MqBreak
    BY <1>18 DEF MqBreak
<1>19. CASE Crash
    BY <1>19 DEF Crash
<1>20. CASE Restart
    BY <1>20 DEF Restart
<1>21. CASE UNCHANGED vars
    BY <1>21
<1>22. QED
    BY <1>1, <1>2, <1>3, <1>4, <1>5, <1>6, <1>7, <1>8, <1>9, <1>10, <1>11,
       <1>12, <1>13, <1>14, <1>15, <1>16, <1>17, <1>18, <1>19, <1>20, <1>21
       DEF Next, HandlerStep, OutboxStep

LEMMA HandlerImageStep == TypeOK /\ PcInv /\ ConnectionInv /\ TablesInv /\ [Next]_vars => HandlerImage'
<1> SUFFICES ASSUME TypeOK /\ PcInv /\ ConnectionInv /\ TablesInv, [Next]_vars PROVE HandlerImage'
    OBVIOUS
<1> USE RequestsAssumption, ThreadKinds DEF TypeOK, ControlType, PcInv, ConnectionInv, SingleTransaction, InTransaction, TablesInv, HandlerImage, ConnectionType, Tables
<1>1. ASSUME NEW r \in Requests, PostBegin(r) PROVE HandlerImage'
    BY <1>1 DEF PostBegin
<1>2. ASSUME NEW r \in Requests, PostRefused(r) PROVE HandlerImage'
    BY <1>2 DEF PostRefused
<1>3. ASSUME NEW r \in Requests, InsertOrder(r) PROVE HandlerImage'
    BY <1>3 DEF InsertOrder
<1>4. ASSUME NEW r \in Requests, InsertEvent(r) PROVE HandlerImage'
    BY <1>4 DEF InsertEvent
<1>5. ASSUME NEW r \in Requests, CommitOrder(r) PROVE HandlerImage'
    BY <1>5 DEF CommitOrder
<1>6. ASSUME NEW r \in Requests, Reply201(r) PROVE HandlerImage'
    BY <1>6 DEF Reply201
<1>7. ASSUME NEW r \in Requests, PostThrows(r) PROVE HandlerImage'
    BY <1>7 DEF PostThrows
<1>8. ASSUME NEW g \in Readers, GetBegin(g) PROVE HandlerImage'
    BY <1>8 DEF GetBegin
<1>9. ASSUME NEW g \in Readers, GetRefused(g) PROVE HandlerImage'
    BY <1>9 DEF GetRefused
<1>10. ASSUME NEW g \in Readers, GetEnd(g) PROVE HandlerImage'
    BY <1>10 DEF GetEnd
<1>11. CASE PassBegin
    BY <1>11 DEF PassBegin
<1>12. CASE SelectPending
    BY <1>12 DEF SelectPending
<1>13. CASE Publish
    BY <1>13 DEF Publish
<1>14. CASE MarkProcessed
    BY <1>14 DEF MarkProcessed
<1>15. CASE PassCommit
    BY <1>15 DEF PassCommit
<1>16. CASE PassThrows
    BY <1>16 DEF PassThrows
<1>17. CASE Tick
    BY <1>17 DEF Tick
<1>18. CASE MqBreak
    BY <1>18 DEF MqBreak
<1>19. CASE Crash
    BY <1>19 DEF Crash
<1>20. CASE Restart
    BY <1>20 DEF Restart
<1>21. CASE UNCHANGED vars
    BY <1>21
<1>22. QED
    BY <1>1, <1>2, <1>3, <1>4, <1>5, <1>6, <1>7, <1>8, <1>9, <1>10, <1>11,
       <1>12, <1>13, <1>14, <1>15, <1>16, <1>17, <1>18, <1>19, <1>20, <1>21
       DEF Next, HandlerStep, OutboxStep

LEMMA PassImageStep == TypeOK /\ PcInv /\ ConnectionInv /\ TablesInv /\ [Next]_vars => PassImage'
<1> SUFFICES ASSUME TypeOK /\ PcInv /\ ConnectionInv /\ TablesInv, [Next]_vars PROVE PassImage'
    OBVIOUS
<1> USE RequestsAssumption, ThreadKinds DEF TypeOK, ControlType, PcInv, ConnectionInv, SingleTransaction, InTransaction, TablesInv, PassImage, BatchInv, ConnectionType, Tables, Atomic
<1>1. ASSUME NEW r \in Requests, PostBegin(r) PROVE PassImage'
    BY <1>1 DEF PostBegin
<1>2. ASSUME NEW r \in Requests, PostRefused(r) PROVE PassImage'
    <2>1. pc'[Outbox] = pc[Outbox] /\ UNCHANGED <<db, tx, failed, batch, current>>
        BY <1>2 DEF PostRefused
    <2>2. PassImage
        OBVIOUS
    <2>3. QED
        BY ONLY <2>1, <2>2 DEF PassImage, Atomic
<1>3. ASSUME NEW r \in Requests, InsertOrder(r) PROVE PassImage'
    BY <1>3 DEF InsertOrder
<1>4. ASSUME NEW r \in Requests, InsertEvent(r) PROVE PassImage'
    BY <1>4 DEF InsertEvent
<1>5. ASSUME NEW r \in Requests, CommitOrder(r) PROVE PassImage'
    BY <1>5 DEF CommitOrder
<1>6. ASSUME NEW r \in Requests, Reply201(r) PROVE PassImage'
    <2>1. pc'[Outbox] = pc[Outbox] /\ UNCHANGED <<db, tx, failed, batch, current>>
        BY <1>6 DEF Reply201
    <2>2. PassImage
        OBVIOUS
    <2>3. QED
        BY ONLY <2>1, <2>2 DEF PassImage, Atomic
<1>7. ASSUME NEW r \in Requests, PostThrows(r) PROVE PassImage'
    BY <1>7 DEF PostThrows
<1>8. ASSUME NEW g \in Readers, GetBegin(g) PROVE PassImage'
    BY <1>8 DEF GetBegin
<1>9. ASSUME NEW g \in Readers, GetRefused(g) PROVE PassImage'
    <2>1. pc'[Outbox] = pc[Outbox] /\ UNCHANGED <<db, tx, failed, batch, current>>
        BY <1>9 DEF GetRefused
    <2>2. PassImage
        OBVIOUS
    <2>3. QED
        BY ONLY <2>1, <2>2 DEF PassImage, Atomic
<1>10. ASSUME NEW g \in Readers, GetEnd(g) PROVE PassImage'
    BY <1>10 DEF GetEnd
<1>11. CASE PassBegin
    BY <1>11 DEF PassBegin
<1>12. CASE SelectPending
    BY <1>12 DEF SelectPending
<1>13. CASE Publish
    <2>1. PICK e \in batch :
              /\ batch' = batch \ {e}
              /\ current' = e \/ UNCHANGED current
              /\ pc'[Outbox] = "publish" => UNCHANGED current
        BY <1>13 DEF Publish
    <2>2. pc[Outbox] = "publish" /\ UNCHANGED <<db, tx, failed>>
        BY <1>13 DEF Publish
    <2>3. PassImage /\ current = Nobody
        BY <2>2
    <2>4. QED
        BY ONLY <2>1, <2>2, <2>3 DEF PassImage, Atomic
<1>14. CASE MarkProcessed
    <2>1. /\ pc[Outbox] = "mark"
          /\ pc'[Outbox] = "publish"
          /\ current' = Nobody
          /\ UNCHANGED <<db, batch>>
        BY <1>14 DEF MarkProcessed
    <2>2. PassImage /\ Nobody \notin batch
        OBVIOUS
    <2>3. CASE ~failed /\ Statement([tx EXCEPT !.pending = @ \ {current},
                                             !.processed = @ \cup {current}])
        <3>1. /\ tx'.orders = tx.orders
              /\ tx'.pending = tx.pending \ {current}
              /\ tx'.processed = tx.processed \cup {current}
            BY <2>3
        <3>2. current # Nobody
            BY <2>1
        <3>3. QED
            BY ONLY <2>1, <2>2, <2>3, <3>1, <3>2 DEF PassImage, Atomic
    <2>4. CASE StatementThrows
        <3>1. Atomic(db) /\ tx' = db
            BY <2>4
        <3>2. QED
            BY ONLY <2>1, <2>2, <3>1 DEF PassImage, Atomic
    <2>5. QED
        BY <1>14, <2>3, <2>4 DEF MarkProcessed
<1>15. CASE PassCommit
    BY <1>15 DEF PassCommit
<1>16. CASE PassThrows
    BY <1>16 DEF PassThrows
<1>17. CASE Tick
    BY <1>17 DEF Tick
<1>18. CASE MqBreak
    BY <1>18 DEF MqBreak
<1>19. CASE Crash
    BY <1>19 DEF Crash
<1>20. CASE Restart
    BY <1>20 DEF Restart
<1>21. CASE UNCHANGED vars
    BY <1>21
<1>22. QED
    BY <1>1, <1>2, <1>3, <1>4, <1>5, <1>6, <1>7, <1>8, <1>9, <1>10, <1>11,
       <1>12, <1>13, <1>14, <1>15, <1>16, <1>17, <1>18, <1>19, <1>20, <1>21
       DEF Next, HandlerStep, OutboxStep

LEMMA BatchStep == TypeOK /\ PcInv /\ ConnectionInv /\ TablesInv /\ [Next]_vars => BatchInv'
<1> SUFFICES ASSUME TypeOK /\ PcInv /\ ConnectionInv /\ TablesInv, [Next]_vars PROVE BatchInv'
    OBVIOUS
<1> USE RequestsAssumption, ThreadKinds DEF TypeOK, ControlType, PcInv, TablesInv, BatchInv
<1>1. ASSUME NEW r \in Requests, PostBegin(r) PROVE BatchInv'
    BY <1>1 DEF PostBegin
<1>2. ASSUME NEW r \in Requests, PostRefused(r) PROVE BatchInv'
    BY <1>2 DEF PostRefused
<1>3. ASSUME NEW r \in Requests, InsertOrder(r) PROVE BatchInv'
    BY <1>3 DEF InsertOrder
<1>4. ASSUME NEW r \in Requests, InsertEvent(r) PROVE BatchInv'
    BY <1>4 DEF InsertEvent
<1>5. ASSUME NEW r \in Requests, CommitOrder(r) PROVE BatchInv'
    BY <1>5 DEF CommitOrder
<1>6. ASSUME NEW r \in Requests, Reply201(r) PROVE BatchInv'
    BY <1>6 DEF Reply201
<1>7. ASSUME NEW r \in Requests, PostThrows(r) PROVE BatchInv'
    BY <1>7 DEF PostThrows
<1>8. ASSUME NEW g \in Readers, GetBegin(g) PROVE BatchInv'
    BY <1>8 DEF GetBegin
<1>9. ASSUME NEW g \in Readers, GetRefused(g) PROVE BatchInv'
    BY <1>9 DEF GetRefused
<1>10. ASSUME NEW g \in Readers, GetEnd(g) PROVE BatchInv'
    BY <1>10 DEF GetEnd
<1>11. CASE PassBegin
    BY <1>11 DEF PassBegin
<1>12. CASE SelectPending
    BY <1>12 DEF SelectPending
<1>13. CASE Publish
    BY <1>13 DEF Publish
<1>14. CASE MarkProcessed
    BY <1>14 DEF MarkProcessed
<1>15. CASE PassCommit
    BY <1>15 DEF PassCommit
<1>16. CASE PassThrows
    BY <1>16 DEF PassThrows
<1>17. CASE Tick
    BY <1>17 DEF Tick
<1>18. CASE MqBreak
    BY <1>18 DEF MqBreak
<1>19. CASE Crash
    BY <1>19 DEF Crash
<1>20. CASE Restart
    BY <1>20 DEF Restart
<1>21. CASE UNCHANGED vars
    BY <1>21
<1>22. QED
    BY <1>1, <1>2, <1>3, <1>4, <1>5, <1>6, <1>7, <1>8, <1>9, <1>10, <1>11,
       <1>12, <1>13, <1>14, <1>15, <1>16, <1>17, <1>18, <1>19, <1>20, <1>21
       DEF Next, HandlerStep, OutboxStep

LEMMA RepliedStep == TypeOK /\ PcInv /\ ConnectionInv /\ TablesInv /\ [Next]_vars => RepliedInv'
<1> SUFFICES ASSUME TypeOK /\ PcInv /\ ConnectionInv /\ TablesInv, [Next]_vars PROVE RepliedInv'
    OBVIOUS
<1> USE RequestsAssumption, ThreadKinds DEF TypeOK, ControlType, PcInv, ConnectionInv, SingleTransaction, InTransaction, TablesInv, RepliedInv, HandlerImage, PassImage
<1>1. ASSUME NEW r \in Requests, PostBegin(r) PROVE RepliedInv'
    BY <1>1 DEF PostBegin
<1>2. ASSUME NEW r \in Requests, PostRefused(r) PROVE RepliedInv'
    BY <1>2 DEF PostRefused
<1>3. ASSUME NEW r \in Requests, InsertOrder(r) PROVE RepliedInv'
    BY <1>3 DEF InsertOrder
<1>4. ASSUME NEW r \in Requests, InsertEvent(r) PROVE RepliedInv'
    BY <1>4 DEF InsertEvent
<1>5. ASSUME NEW r \in Requests, CommitOrder(r) PROVE RepliedInv'
    BY <1>5 DEF CommitOrder
<1>6. ASSUME NEW r \in Requests, Reply201(r) PROVE RepliedInv'
    BY <1>6 DEF Reply201
<1>7. ASSUME NEW r \in Requests, PostThrows(r) PROVE RepliedInv'
    BY <1>7 DEF PostThrows
<1>8. ASSUME NEW g \in Readers, GetBegin(g) PROVE RepliedInv'
    BY <1>8 DEF GetBegin
<1>9. ASSUME NEW g \in Readers, GetRefused(g) PROVE RepliedInv'
    BY <1>9 DEF GetRefused
<1>10. ASSUME NEW g \in Readers, GetEnd(g) PROVE RepliedInv'
    BY <1>10 DEF GetEnd
<1>11. CASE PassBegin
    BY <1>11 DEF PassBegin
<1>12. CASE SelectPending
    BY <1>12 DEF SelectPending
<1>13. CASE Publish
    BY <1>13 DEF Publish
<1>14. CASE MarkProcessed
    BY <1>14 DEF MarkProcessed
<1>15. CASE PassCommit
    BY <1>15 DEF PassCommit
<1>16. CASE PassThrows
    BY <1>16 DEF PassThrows
<1>17. CASE Tick
    BY <1>17 DEF Tick
<1>18. CASE MqBreak
    BY <1>18 DEF MqBreak
<1>19. CASE Crash
    BY <1>19 DEF Crash
<1>20. CASE Restart
    BY <1>20 DEF Restart
<1>21. CASE UNCHANGED vars
    BY <1>21
<1>22. QED
    BY <1>1, <1>2, <1>3, <1>4, <1>5, <1>6, <1>7, <1>8, <1>9, <1>10, <1>11,
       <1>12, <1>13, <1>14, <1>15, <1>16, <1>17, <1>18, <1>19, <1>20, <1>21
       DEF Next, HandlerStep, OutboxStep

LEMMA NoPhantomStep == TypeOK /\ PcInv /\ ConnectionInv /\ TablesInv /\ MessagesInv /\ [Next]_vars => NoPhantomRequests'
<1> SUFFICES ASSUME TypeOK /\ PcInv /\ ConnectionInv /\ TablesInv /\ MessagesInv, [Next]_vars PROVE NoPhantomRequests'
    OBVIOUS
<1> USE RequestsAssumption, ThreadKinds DEF TypeOK, ControlType, MessagesType, ConnectionType, Tables, PcInv, ConnectionInv, SingleTransaction, InTransaction, TablesInv, HandlerImage, PassImage, Atomic, MessagesInv, NoPhantomRequests
<1>1. ASSUME NEW r \in Requests, PostBegin(r) PROVE NoPhantomRequests'
    BY <1>1 DEF PostBegin
<1>2. ASSUME NEW r \in Requests, PostRefused(r) PROVE NoPhantomRequests'
    BY <1>2 DEF PostRefused
<1>3. ASSUME NEW r \in Requests, InsertOrder(r) PROVE NoPhantomRequests'
    BY <1>3 DEF InsertOrder
<1>4. ASSUME NEW r \in Requests, InsertEvent(r) PROVE NoPhantomRequests'
    BY <1>4 DEF InsertEvent
<1>5. ASSUME NEW r \in Requests, CommitOrder(r) PROVE NoPhantomRequests'
    BY <1>5 DEF CommitOrder
<1>6. ASSUME NEW r \in Requests, Reply201(r) PROVE NoPhantomRequests'
    BY <1>6 DEF Reply201
<1>7. ASSUME NEW r \in Requests, PostThrows(r) PROVE NoPhantomRequests'
    BY <1>7 DEF PostThrows
<1>8. ASSUME NEW g \in Readers, GetBegin(g) PROVE NoPhantomRequests'
    BY <1>8 DEF GetBegin
<1>9. ASSUME NEW g \in Readers, GetRefused(g) PROVE NoPhantomRequests'
    BY <1>9 DEF GetRefused
<1>10. ASSUME NEW g \in Readers, GetEnd(g) PROVE NoPhantomRequests'
    BY <1>10 DEF GetEnd
<1>11. CASE PassBegin
    BY <1>11 DEF PassBegin
<1>12. CASE SelectPending
    BY <1>12 DEF SelectPending
<1>13. CASE Publish
    BY <1>13 DEF Publish
<1>14. CASE MarkProcessed
    BY <1>14 DEF MarkProcessed
<1>15. CASE PassCommit
    BY <1>15 DEF PassCommit
<1>16. CASE PassThrows
    BY <1>16 DEF PassThrows
<1>17. CASE Tick
    BY <1>17 DEF Tick
<1>18. CASE MqBreak
    BY <1>18 DEF MqBreak
<1>19. CASE Crash
    BY <1>19 DEF Crash
<1>20. CASE Restart
    BY <1>20 DEF Restart
<1>21. CASE UNCHANGED vars
    BY <1>21
<1>22. QED
    BY <1>1, <1>2, <1>3, <1>4, <1>5, <1>6, <1>7, <1>8, <1>9, <1>10, <1>11,
       <1>12, <1>13, <1>14, <1>15, <1>16, <1>17, <1>18, <1>19, <1>20, <1>21
       DEF Next, HandlerStep, OutboxStep

LEMMA SentStep == TypeOK /\ PcInv /\ ConnectionInv /\ TablesInv /\ MessagesInv /\ [Next]_vars => SentInv'
<1> SUFFICES ASSUME TypeOK /\ PcInv /\ ConnectionInv /\ TablesInv /\ MessagesInv, [Next]_vars PROVE SentInv'
    OBVIOUS
<1> USE RequestsAssumption, ThreadKinds DEF TypeOK, ControlType, MessagesType, ConnectionType, Tables, PcInv, ConnectionInv, SingleTransaction, InTransaction, TablesInv, HandlerImage, PassImage, MessagesInv, SentInv, Sent
<1>1. ASSUME NEW r \in Requests, PostBegin(r) PROVE SentInv'
    BY <1>1 DEF PostBegin
<1>2. ASSUME NEW r \in Requests, PostRefused(r) PROVE SentInv'
    BY <1>2 DEF PostRefused
<1>3. ASSUME NEW r \in Requests, InsertOrder(r) PROVE SentInv'
    BY <1>3 DEF InsertOrder
<1>4. ASSUME NEW r \in Requests, InsertEvent(r) PROVE SentInv'
    BY <1>4 DEF InsertEvent
<1>5. ASSUME NEW r \in Requests, CommitOrder(r) PROVE SentInv'
    BY <1>5 DEF CommitOrder
<1>6. ASSUME NEW r \in Requests, Reply201(r) PROVE SentInv'
    BY <1>6 DEF Reply201
<1>7. ASSUME NEW r \in Requests, PostThrows(r) PROVE SentInv'
    BY <1>7 DEF PostThrows
<1>8. ASSUME NEW g \in Readers, GetBegin(g) PROVE SentInv'
    BY <1>8 DEF GetBegin
<1>9. ASSUME NEW g \in Readers, GetRefused(g) PROVE SentInv'
    BY <1>9 DEF GetRefused
<1>10. ASSUME NEW g \in Readers, GetEnd(g) PROVE SentInv'
    BY <1>10 DEF GetEnd
<1>11. CASE PassBegin
    BY <1>11 DEF PassBegin
<1>12. CASE SelectPending
    BY <1>12 DEF SelectPending
<1>13. CASE Publish
    BY <1>13 DEF Publish
<1>14. CASE MarkProcessed
    <2>1. current # Nobody /\ current' = Nobody /\ UNCHANGED <<db, published, lost>>
        BY <1>14 DEF MarkProcessed
    <2>2. SentInv
        OBVIOUS
    <2>3. CASE Statement([tx EXCEPT !.pending = @ \ {current},
                                    !.processed = @ \cup {current}])
        <3>1. tx'.processed = tx.processed \cup {current}
            BY <2>3
        <3>2. QED
            BY ONLY <2>1, <2>2, <3>1 DEF SentInv, Sent
    <2>4. CASE StatementThrows
        BY ONLY <2>1, <2>2, <2>4 DEF SentInv, Sent
    <2>5. QED
        BY <1>14, <2>3, <2>4 DEF MarkProcessed
<1>15. CASE PassCommit
    BY <1>15 DEF PassCommit
<1>16. CASE PassThrows
    BY <1>16 DEF PassThrows
<1>17. CASE Tick
    BY <1>17 DEF Tick
<1>18. CASE MqBreak
    BY <1>18 DEF MqBreak
<1>19. CASE Crash
    BY <1>19 DEF Crash
<1>20. CASE Restart
    BY <1>20 DEF Restart
<1>21. CASE UNCHANGED vars
    BY <1>21
<1>22. QED
    BY <1>1, <1>2, <1>3, <1>4, <1>5, <1>6, <1>7, <1>8, <1>9, <1>10, <1>11,
       <1>12, <1>13, <1>14, <1>15, <1>16, <1>17, <1>18, <1>19, <1>20, <1>21
       DEF Next, HandlerStep, OutboxStep

LEMMA AnswersStep == TypeOK /\ PcInv /\ ConnectionInv /\ TablesInv /\ MessagesInv /\ [Next]_vars => AnswersAreTrue'
<1> SUFFICES ASSUME TypeOK /\ PcInv /\ ConnectionInv /\ TablesInv /\ MessagesInv, [Next]_vars PROVE AnswersAreTrue'
    OBVIOUS
<1> USE RequestsAssumption, ThreadKinds DEF TypeOK, ControlType, MessagesType, ConnectionType, Tables, PcInv, ConnectionInv, SingleTransaction, InTransaction, TablesInv, HandlerImage, PassImage, FreshInv, RepliedInv, MessagesInv, AnswersAreTrue
<1>1. ASSUME NEW r \in Requests, PostBegin(r) PROVE AnswersAreTrue'
    BY <1>1 DEF PostBegin
<1>2. ASSUME NEW r \in Requests, PostRefused(r) PROVE AnswersAreTrue'
    BY <1>2 DEF PostRefused
<1>3. ASSUME NEW r \in Requests, InsertOrder(r) PROVE AnswersAreTrue'
    BY <1>3 DEF InsertOrder
<1>4. ASSUME NEW r \in Requests, InsertEvent(r) PROVE AnswersAreTrue'
    BY <1>4 DEF InsertEvent
<1>5. ASSUME NEW r \in Requests, CommitOrder(r) PROVE AnswersAreTrue'
    BY <1>5 DEF CommitOrder
<1>6. ASSUME NEW r \in Requests, Reply201(r) PROVE AnswersAreTrue'
    BY <1>6 DEF Reply201
<1>7. ASSUME NEW r \in Requests, PostThrows(r) PROVE AnswersAreTrue'
    BY <1>7 DEF PostThrows
<1>8. ASSUME NEW g \in Readers, GetBegin(g) PROVE AnswersAreTrue'
    BY <1>8 DEF GetBegin
<1>9. ASSUME NEW g \in Readers, GetRefused(g) PROVE AnswersAreTrue'
    BY <1>9 DEF GetRefused
<1>10. ASSUME NEW g \in Readers, GetEnd(g) PROVE AnswersAreTrue'
    BY <1>10 DEF GetEnd
<1>11. CASE PassBegin
    BY <1>11 DEF PassBegin
<1>12. CASE SelectPending
    BY <1>12 DEF SelectPending
<1>13. CASE Publish
    BY <1>13 DEF Publish
<1>14. CASE MarkProcessed
    BY <1>14 DEF MarkProcessed
<1>15. CASE PassCommit
    BY <1>15 DEF PassCommit
<1>16. CASE PassThrows
    BY <1>16 DEF PassThrows
<1>17. CASE Tick
    BY <1>17 DEF Tick
<1>18. CASE MqBreak
    BY <1>18 DEF MqBreak
<1>19. CASE Crash
    BY <1>19 DEF Crash
<1>20. CASE Restart
    BY <1>20 DEF Restart
<1>21. CASE UNCHANGED vars
    BY <1>21
<1>22. QED
    BY <1>1, <1>2, <1>3, <1>4, <1>5, <1>6, <1>7, <1>8, <1>9, <1>10, <1>11,
       <1>12, <1>13, <1>14, <1>15, <1>16, <1>17, <1>18, <1>19, <1>20, <1>21
       DEF Next, HandlerStep, OutboxStep

LEMMA CopiesStep == TypeOK /\ PcInv /\ ConnectionInv /\ TablesInv /\ MessagesInv /\ CopiesInv /\ [Next]_vars => CopiesInv'
<1> SUFFICES ASSUME TypeOK /\ PcInv /\ ConnectionInv /\ TablesInv /\ MessagesInv /\ CopiesInv, [Next]_vars PROVE CopiesInv'
    OBVIOUS
<1> USE RequestsAssumption, ThreadKinds DEF TypeOK, ControlType, MessagesType, ConnectionType, Tables, PcInv, ConnectionInv, SingleTransaction, InTransaction, TablesInv, HandlerImage, PassImage, Atomic, NoPhantomRequests, MessagesInv, CopiesInv, DuplicatesNeedFailures, Failures, Paid
<1>1. ASSUME NEW r \in Requests, PostBegin(r) PROVE CopiesInv'
    BY <1>1 DEF PostBegin
<1>2. ASSUME NEW r \in Requests, PostRefused(r) PROVE CopiesInv'
    BY <1>2 DEF PostRefused
<1>3. ASSUME NEW r \in Requests, InsertOrder(r) PROVE CopiesInv'
    BY <1>3 DEF InsertOrder
<1>4. ASSUME NEW r \in Requests, InsertEvent(r) PROVE CopiesInv'
    BY <1>4 DEF InsertEvent
<1>5. ASSUME NEW r \in Requests, CommitOrder(r) PROVE CopiesInv'
    <2>1. r \in Requests /\ published[r] = 0
        BY <1>5 DEF CommitOrder, FreshInv
    <2>2. /\ db'.pending = db.pending \cup {r}
          /\ UNCHANGED <<tx, faults, crashes, published, batch, current>>
          /\ pc'[Outbox] = pc[Outbox]
          /\ failed' = FALSE
        BY <1>5 DEF CommitOrder
    <2>3. pc[Outbox] \notin {"publish", "mark"}
        BY <1>5 DEF CommitOrder
    <2>4. QED
        BY <2>1, <2>2, <2>3
<1>6. ASSUME NEW r \in Requests, Reply201(r) PROVE CopiesInv'
    BY <1>6 DEF Reply201
<1>7. ASSUME NEW r \in Requests, PostThrows(r) PROVE CopiesInv'
    BY <1>7 DEF PostThrows
<1>8. ASSUME NEW g \in Readers, GetBegin(g) PROVE CopiesInv'
    BY <1>8 DEF GetBegin
<1>9. ASSUME NEW g \in Readers, GetRefused(g) PROVE CopiesInv'
    BY <1>9 DEF GetRefused
<1>10. ASSUME NEW g \in Readers, GetEnd(g) PROVE CopiesInv'
    BY <1>10 DEF GetEnd
<1>11. CASE PassBegin
    BY <1>11 DEF PassBegin
<1>12. CASE SelectPending
    BY <1>12 DEF SelectPending
<1>13. CASE Publish
    BY <1>13 DEF Publish
<1>14. CASE MarkProcessed
    <2>1. /\ pc[Outbox] = "mark"
          /\ pc'[Outbox] = "publish"
          /\ current # Nobody
          /\ current' = Nobody
          /\ UNCHANGED <<db, published, batch, crashes>>
        BY <1>14 DEF MarkProcessed
    <2>2. CASE /\ ~failed
               /\ Statement([tx EXCEPT !.pending = @ \ {current},
                                       !.processed = @ \cup {current}])
               /\ UNCHANGED faults
        <3>1. tx'.pending = tx.pending \ {current} /\ UNCHANGED failed
            BY <2>2
        <3>2. Failures' = Failures /\ Paid' = Paid
            BY <2>1, <2>2, <3>1 DEF Failures, Paid
        <3>3. QED
            BY <2>1, <2>2, <3>1, <3>2
    <2>3. CASE failed /\ StatementThrows /\ UNCHANGED faults
        BY <2>1, <2>3
    <2>4. CASE ~failed /\ faults' = faults + 1 /\ StatementThrows
        <3>1. Failures' = Failures + 1 /\ Paid' = Failures + 1 /\ Paid = Failures + 1
            BY <2>1, <2>4 DEF Failures, Paid
        <3>2. QED
            BY <2>1, <2>4, <3>1
    <2>5. QED
        BY <1>14, <2>2, <2>3, <2>4 DEF MarkProcessed
<1>15. CASE PassCommit
    BY <1>15 DEF PassCommit
<1>16. CASE PassThrows
    BY <1>16 DEF PassThrows
<1>17. CASE Tick
    BY <1>17 DEF Tick
<1>18. CASE MqBreak
    BY <1>18 DEF MqBreak
<1>19. CASE Crash
    BY <1>19 DEF Crash
<1>20. CASE Restart
    BY <1>20 DEF Restart
<1>21. CASE UNCHANGED vars
    BY <1>21
<1>22. QED
    BY <1>1, <1>2, <1>3, <1>4, <1>5, <1>6, <1>7, <1>8, <1>9, <1>10, <1>11,
       <1>12, <1>13, <1>14, <1>15, <1>16, <1>17, <1>18, <1>19, <1>20, <1>21
       DEF Next, HandlerStep, OutboxStep

(* The invariant of the orders service: types, the connection, both images   *)
(* of the tables, the messages and the count of copies.                      *)
LEMMA Invariant == Spec => []IInv
<1>1. Init => IInv
    BY TypeInit, SafetyInit DEF IInv
<1>2. IInv /\ [Next]_vars => IInv'
    <2> SUFFICES ASSUME IInv, [Next]_vars PROVE IInv'
        OBVIOUS
    <2>1. TypeOK'
        BY ControlTypeStep, ConnectionTypeStep, MessagesTypeStep DEF IInv, TypeOK
    <2>2. TablesInv'
        BY AtomicStep, FreshStep, HandlerImageStep, PassImageStep, BatchStep, RepliedStep
           DEF IInv, TablesInv
    <2>3. MessagesInv'
        BY NoPhantomStep, SentStep, AnswersStep DEF IInv, MessagesInv
    <2>4. QED
        BY <2>1, <2>2, <2>3, PcStep, ConnectionStep, CopiesStep DEF IInv
<1>3. QED
    BY <1>1, <1>2, PTL DEF Spec

(* Threads share the connection without a lock, and at most one of them is   *)
(* ever inside a transaction.                                                *)
THEOREM OneTransaction == Spec => []SingleTransaction
<1>1. IInv => SingleTransaction
    BY DEF IInv, ConnectionInv
<1>2. QED
    BY <1>1, Invariant, PTL

(* An order and its payment event are committed together or not at all.      *)
THEOREM OrderAndEventTogether == Spec => []OutboxAtomicity
<1>1. IInv => OutboxAtomicity
    BY DEF IInv, TablesInv, Atomic, OutboxAtomicity
<1>2. QED
    BY <1>1, Invariant, PTL

(* A payment is requested only for a committed order, and an event is        *)
(* PROCESSED only when its request was handed to RabbitMQ.                   *)
THEOREM RequestsMatchOrders == Spec => [](NoPhantomRequests /\ ProcessedWasPublished)
<1>1. IInv => NoPhantomRequests /\ ProcessedWasPublished
    BY DEF IInv, MessagesInv, SentInv, Sent, ProcessedWasPublished
<1>2. QED
    BY <1>1, Invariant, PTL

(* 201 is answered only about a committed order, and 400 only about one that *)
(* is not, unless a database call failed for an outside reason.              *)
THEOREM AnswersHold == Spec => []AnswersAreTrue
<1>1. IInv => AnswersAreTrue
    BY DEF IInv, MessagesInv
<1>2. QED
    BY <1>1, Invariant, PTL

(* Every copy of a request after the first is paid for by a failure.         *)
THEOREM CopiesBounded == Spec => []DuplicatesNeedFailures
<1>1. IInv => DuplicatesNeedFailures
    BY DEF IInv, CopiesInv
<1>2. QED
    BY <1>1, Invariant, PTL

(* A step of a service whose transaction is orphaned.                        *)
OrphanStep == Orphaned /\ up' => UNCHANGED <<guest, db, published, lost>>

LEMMA OrphanStaysStep == IInv /\ [Next]_vars => OrphanStep
<1> SUFFICES ASSUME IInv, [Next]_vars PROVE OrphanStep
    OBVIOUS
<1> USE ThreadKinds DEF IInv, TypeOK, ControlType, PcInv, ConnectionInv, SingleTransaction, InTransaction,
            OutboxSteps, HandlerSteps, Orphaned, OrphanStep
<1>1. ASSUME NEW r \in Requests, PostBegin(r) PROVE OrphanStep
    BY <1>1 DEF PostBegin
<1>2. ASSUME NEW r \in Requests, PostRefused(r) PROVE OrphanStep
    BY <1>2 DEF PostRefused
<1>3. ASSUME NEW r \in Requests, InsertOrder(r) PROVE OrphanStep
    BY <1>3 DEF InsertOrder
<1>4. ASSUME NEW r \in Requests, InsertEvent(r) PROVE OrphanStep
    BY <1>4 DEF InsertEvent
<1>5. ASSUME NEW r \in Requests, CommitOrder(r) PROVE OrphanStep
    BY <1>5 DEF CommitOrder
<1>6. ASSUME NEW r \in Requests, Reply201(r) PROVE OrphanStep
    BY <1>6 DEF Reply201
<1>7. ASSUME NEW r \in Requests, PostThrows(r) PROVE OrphanStep
    BY <1>7 DEF PostThrows
<1>8. ASSUME NEW g \in Readers, GetBegin(g) PROVE OrphanStep
    BY <1>8 DEF GetBegin
<1>9. ASSUME NEW g \in Readers, GetRefused(g) PROVE OrphanStep
    BY <1>9 DEF GetRefused
<1>10. ASSUME NEW g \in Readers, GetEnd(g) PROVE OrphanStep
    BY <1>10 DEF GetEnd
<1>11. CASE PassBegin
    BY <1>11 DEF PassBegin
<1>12. CASE SelectPending
    BY <1>12 DEF SelectPending
<1>13. CASE Publish
    BY <1>13 DEF Publish
<1>14. CASE MarkProcessed
    BY <1>14 DEF MarkProcessed
<1>15. CASE PassCommit
    BY <1>15 DEF PassCommit
<1>16. CASE PassThrows
    BY <1>16 DEF PassThrows
<1>17. CASE Tick
    BY <1>17 DEF Tick
<1>18. CASE MqBreak
    BY <1>18 DEF MqBreak
<1>19. CASE Crash
    BY <1>19 DEF Crash
<1>20. CASE Restart
    BY <1>20 DEF Restart
<1>21. CASE UNCHANGED vars
    BY <1>21
<1> HIDE DEF IInv, OrphanStep
<1>22. QED
    BY <1>1, <1>2, <1>3, <1>4, <1>5, <1>6, <1>7, <1>8, <1>9, <1>10, <1>11,
       <1>12, <1>13, <1>14, <1>15, <1>16, <1>17, <1>18, <1>19, <1>20, <1>21
       DEF Next, HandlerStep, OutboxStep

(* A transaction an exception left registered blocks the service for as long *)
(* as the process lives.                                                     *)
THEOREM OrphanBlocks == Spec => OrphanBlocksService
<1>1. QED
    BY Invariant, OrphanStaysStep, PTL DEF Spec, OrphanBlocksService, OrphanStep

-----------------------------------------------------------------------------
(* The order of the requests.  During a pass, as long as RabbitMQ works,     *)
(* what is left of the batch is older than every pending event that was      *)
(* never published: SelectPending left the younger ones out, and each event  *)
(* that left the batch was published.                                        *)
InPass == pc[Outbox] \in {"publish", "mark"}

AheadInv ==
    mqUp /\ InPass =>
        \A e \in batch, s \in db.pending \ batch : published[s] > 0 \/ created[e] <= created[s]

DownInv == ~up => ~InPass

OrderInv == AheadInv /\ DownInv

(* A step that neither starts nor advances a pass.                           *)
PassWaits ==
    /\ UNCHANGED <<batch, published>>
    /\ pc'[Outbox] = pc[Outbox]
    /\ InPass => (mqUp' => mqUp) /\ UNCHANGED <<db, created>>
    /\ ~up' => ~up

LEMMA WaitingKeepsOrder == OrderInv /\ PassWaits => OrderInv'
BY DEF OrderInv, AheadInv, DownInv, PassWaits, InPass

LEMMA LeavingKeepsOrder == ~InPass' => OrderInv'
BY DEF OrderInv, AheadInv, DownInv

(* Nobody else writes to the tables during a pass.                           *)
LEMMA HandlersWait ==
    ASSUME IInv, OrderInv, NEW r \in Requests,
           PostBegin(r) \/ PostRefused(r) \/ HandlerStep(r)
    PROVE  PassWaits
<1> USE ThreadKinds DEF IInv, TypeOK, ControlType, PassWaits, InPass
<1>1. InPass => guest = Outbox
    BY DEF ConnectionInv, SingleTransaction, InTransaction
<1>2. InPass => pc[r] \notin InTransaction
    BY <1>1 DEF ConnectionInv, SingleTransaction
<1>3. CASE PostBegin(r) \/ PostRefused(r)
    BY <1>1, <1>3 DEF PostBegin, PostRefused
<1>4. CASE InsertOrder(r)
    BY <1>2, <1>4 DEF InsertOrder
<1>5. CASE InsertEvent(r)
    BY <1>2, <1>5 DEF InsertEvent, InTransaction
<1>6. CASE CommitOrder(r)
    BY <1>2, <1>6 DEF CommitOrder, InTransaction
<1>7. CASE Reply201(r)
    BY <1>7 DEF Reply201
<1>8. CASE PostThrows(r)
    BY <1>2, <1>8 DEF PostThrows, InTransaction
<1>9. QED
    BY <1>3, <1>4, <1>5, <1>6, <1>7, <1>8 DEF HandlerStep

LEMMA ReadersWait ==
    ASSUME IInv, OrderInv, NEW g \in Readers, GetBegin(g) \/ GetRefused(g) \/ GetEnd(g)
    PROVE  PassWaits
BY ThreadKinds
   DEF GetBegin, GetRefused, GetEnd, IInv, TypeOK, ControlType, PassWaits, InPass

LEMMA SelectKeepsOrder ==
    ASSUME IInv, OrderInv, SelectPending
    PROVE  OrderInv'
<1> USE ThreadKinds DEF IInv, TypeOK, ControlType, OrderInv, AheadInv, DownInv, InPass
<1>1. tx = db
    BY DEF SelectPending, ConnectionInv
<1>2. PICK selected \in SUBSET db.pending :
          OldestFirst(selected, db.pending) /\ batch' = selected
    BY <1>1 DEF SelectPending
<1>3. UNCHANGED <<up, db, created>>
    BY DEF SelectPending
<1>4. \A e \in batch', s \in db.pending \ batch' : created[e] <= created[s]
    BY <1>2 DEF OldestFirst
<1>5. up
    BY DEF SelectPending
<1>6. QED
    BY <1>3, <1>4, <1>5

LEMMA PublishKeepsOrder ==
    ASSUME IInv, OrderInv, Publish
    PROVE  OrderInv'
<1> USE DEF IInv, TypeOK, ControlType, MessagesType, OrderInv, AheadInv, DownInv, InPass
<1>1. /\ up /\ pc[Outbox] = "publish"
      /\ UNCHANGED <<up, db, created>>
    BY DEF Publish
<1>2. CASE ~mqUp'
    BY <1>1, <1>2
<1>3. CASE mqUp'
    <2>1. PICK e \in batch :
              mqUp /\ batch' = batch \ {e} /\ published' = [published EXCEPT ![e] = @ + 1]
        BY <1>3 DEF Publish
    <2>2. e \in Requests /\ published'[e] > 0
        BY <2>1
    <2>3. \A s : published[s] > 0 /\ s \in Requests => published'[s] > 0
        BY <2>1, <2>2
    <2>4. \A f \in batch', s \in db.pending \ batch' : published'[s] > 0 \/ created[f] <= created[s]
        <3>1. SUFFICES ASSUME NEW f \in batch', NEW s \in db.pending \ batch', s # e
                       PROVE  published'[s] > 0 \/ created[f] <= created[s]
            BY <2>2
        <3>2. f \in batch /\ s \notin batch
            BY <2>1, <3>1
        <3>3. s \in Requests
            BY DEF ConnectionType, Tables
        <3>4. QED
            BY <1>1, <2>1, <2>3, <3>2, <3>3
    <2>5. QED
        BY <1>1, <2>4
<1>4. QED
    BY <1>2, <1>3

LEMMA OrderStep == IInv /\ OrderInv /\ [Next]_vars => OrderInv'
<1> SUFFICES ASSUME IInv, OrderInv, [Next]_vars PROVE OrderInv'
    OBVIOUS
<1>0. TypeOK
    BY DEF IInv
<1>1. CASE \E r \in Requests : PostBegin(r) \/ PostRefused(r) \/ HandlerStep(r)
    BY <1>1, HandlersWait, WaitingKeepsOrder
<1>2. CASE \E g \in Readers : GetBegin(g) \/ GetRefused(g) \/ GetEnd(g)
    BY <1>2, ReadersWait, WaitingKeepsOrder
<1> USE ThreadKinds, <1>0 DEF TypeOK, ControlType
<1>3. CASE PassBegin
    BY <1>3, LeavingKeepsOrder DEF PassBegin, InPass
<1>4. CASE SelectPending
    BY <1>4, SelectKeepsOrder
<1>5. CASE Publish
    BY <1>5, PublishKeepsOrder
<1>6. CASE MarkProcessed
    BY <1>6 DEF MarkProcessed, OrderInv, AheadInv, DownInv, InPass
<1>7. CASE PassCommit
    BY <1>7, LeavingKeepsOrder DEF PassCommit, InPass
<1>8. CASE PassThrows
    BY <1>8, LeavingKeepsOrder DEF PassThrows, InPass
<1>9. CASE Tick
    BY <1>9, WaitingKeepsOrder DEF Tick, PassWaits
<1>10. CASE MqBreak
    BY <1>10, WaitingKeepsOrder DEF MqBreak, PassWaits
<1>11. CASE Crash
    <2>1. pc'[Outbox] = "sleep"
        BY <1>11 DEF Crash
    <2>2. QED
        BY <2>1, LeavingKeepsOrder DEF InPass
<1>12. CASE Restart
    <2>1. ~InPass'
        BY <1>12 DEF Restart, OrderInv, DownInv, InPass
    <2>2. QED
        BY <2>1, LeavingKeepsOrder
<1>13. CASE UNCHANGED vars
    BY <1>13, WaitingKeepsOrder DEF PassWaits
<1>14. QED
    BY <1>1, <1>2, <1>3, <1>4, <1>5, <1>6, <1>7, <1>8, <1>9, <1>10, <1>11, <1>12, <1>13
       DEF Next, OutboxStep

OldestLeaves ==
    \A r \in Requests :
        published[r] = 0 /\ published'[r] > 0 =>
           \A s \in db.pending : created[s] < created[r] => published[s] > 0

(* Only Publish puts anything on the queue.                                  *)
LEMMA OnlyPublish == [Next]_vars => UNCHANGED published \/ Publish
BY DEF Next, HandlerStep, OutboxStep, PostBegin, PostRefused, InsertOrder, InsertEvent,
       CommitOrder, Reply201, PostThrows, GetBegin, GetRefused, GetEnd, PassBegin,
       SelectPending, MarkProcessed, PassCommit, PassThrows, Tick, MqBreak, Crash, Restart

LEMMA OldestLeavesStep == IInv /\ OrderInv /\ [Next]_vars => OldestLeaves
<1> SUFFICES ASSUME IInv, OrderInv, [Next]_vars,
                    NEW r \in Requests, published[r] = 0, published'[r] > 0,
                    NEW s \in db.pending, created[s] < created[r]
             PROVE  published[s] > 0
    BY DEF OldestLeaves
<1> USE DEF IInv, TypeOK, MessagesType, ConnectionType, Tables
<1>1. Publish
    BY OnlyPublish
<1>2. PICK e \in batch :
          OldestFirst({e}, batch) /\ mqUp /\ published' = [published EXCEPT ![e] = @ + 1]
    <2>1. published' # published
        OBVIOUS
    <2>2. QED
        BY <1>1, <2>1 DEF Publish
<1>3. e = r
    BY <1>2
<1>4. s \in Requests /\ created[s] \in Nat /\ created[r] \in Nat
    OBVIOUS
<1>5. s \notin batch
    BY <1>2, <1>3, <1>4 DEF OldestFirst
<1>6. InPass
    BY <1>1 DEF Publish, InPass
<1>7. QED
    BY <1>2, <1>3, <1>4, <1>5, <1>6 DEF OrderInv, AheadInv

(* Payment requests leave in the order of their created_at seconds, through  *)
(* batches, failures, lost connections and restarts.                         *)
THEOREM OldestFirstHolds == Spec => OldestPublishedFirst
<1>1. Init => OrderInv
    BY ThreadKinds DEF Init, OrderInv, AheadInv, DownInv, InPass
<1>2. QED
    BY <1>1, Invariant, OrderStep, OldestLeavesStep, PTL
       DEF Spec, OldestPublishedFirst, OldestLeaves

-----------------------------------------------------------------------------
(* The service implements OrderPlacement: CommitOrder is Place (as is a       *)
(* PostThrows whose failed COMMIT the server carried out), Reply201 is       *)
(* Confirm, the first Publish that reaches the queue is RequestPayment, and  *)
(* every other step is a stutter.                                            *)
PlacementStep == [Placement!PlacementNext]_(Placement!placementVars)

(* What a step that stutters leaves alone.                                   *)
Unseen ==
    /\ db'.orders = db.orders
    /\ \A r \in Requests : reply'[r] = 201 <=> reply[r] = 201
    /\ \A r \in Requests : published'[r] > 0 <=> published[r] > 0

LEMMA UnseenStutters == Unseen => PlacementStep
BY DEF Unseen, PlacementStep, Placement!placementVars

LEMMA PlacementSteps == IInv /\ [Next]_vars => PlacementStep
<1> SUFFICES ASSUME IInv, [Next]_vars PROVE PlacementStep
    OBVIOUS
<1> USE ThreadKinds DEF IInv, TypeOK, ControlType, MessagesType, PcInv
<1>1. ASSUME NEW r \in Requests, PostBegin(r) PROVE PlacementStep
    BY <1>1, UnseenStutters DEF PostBegin, Unseen
<1>2. ASSUME NEW r \in Requests, PostRefused(r) PROVE PlacementStep
    BY <1>2, UnseenStutters DEF PostRefused, Unseen
<1>3. ASSUME NEW r \in Requests, InsertOrder(r) PROVE PlacementStep
    BY <1>3, UnseenStutters DEF InsertOrder, Unseen
<1>4. ASSUME NEW r \in Requests, InsertEvent(r) PROVE PlacementStep
    BY <1>4, UnseenStutters DEF InsertEvent, Unseen
<1>5. ASSUME NEW r \in Requests, CommitOrder(r) PROVE PlacementStep
    <2>1. r \in Requests /\ r \notin db.orders /\ db'.orders = db.orders \cup {r}
        BY <1>5 DEF CommitOrder, TablesInv, FreshInv, HandlerImage
    <2>2. UNCHANGED <<reply, published>>
        BY <1>5 DEF CommitOrder
    <2>3. Placement!Place(r)
        BY <2>1, <2>2 DEF Placement!Place
    <2>4. QED
        BY <2>1, <2>3 DEF PlacementStep, Placement!PlacementNext
<1>6. ASSUME NEW r \in Requests, Reply201(r) PROVE PlacementStep
    <2>1. r \in db.orders /\ reply[r] # 201 /\ UNCHANGED <<db, published>>
        BY <1>6 DEF Reply201, TablesInv, RepliedInv, PcInv
    <2>2. {q \in Requests : reply'[q] = 201} = {q \in Requests : reply[q] = 201} \cup {r}
        BY <1>6 DEF Reply201, TypeOK, ControlType
    <2>3. Placement!Confirm(r)
        BY <2>1, <2>2 DEF Placement!Confirm
    <2>4. QED
        BY <1>6, <2>3 DEF PlacementStep, Placement!PlacementNext
<1>7. ASSUME NEW r \in Requests, PostThrows(r) PROVE PlacementStep
    <2>1. /\ UNCHANGED published
          /\ \A q \in Requests : reply'[q] = 201 <=> reply[q] = 201
        BY <1>7 DEF PostThrows
    <2>2. db' = db \/ (db' = tx /\ pc[r] = "commit")
        BY <1>7 DEF PostThrows
    <2>3. CASE db' = db
        BY <2>1, <2>3, UnseenStutters DEF Unseen
    <2>4. CASE db' = tx /\ pc[r] = "commit"
        <3>1. r \in Requests /\ r \notin db.orders /\ db'.orders = db.orders \cup {r}
            BY <1>7, <2>4 DEF TablesInv, FreshInv, HandlerImage
        <3>2. Placement!Place(r)
            BY <2>1, <3>1 DEF Placement!Place
        <3>3. QED
            BY <3>1, <3>2 DEF PlacementStep, Placement!PlacementNext
    <2>5. QED
        BY <2>2, <2>3, <2>4
<1>8. ASSUME NEW g \in Readers, GetBegin(g) PROVE PlacementStep
    BY <1>8, UnseenStutters DEF GetBegin, Unseen
<1>9. ASSUME NEW g \in Readers, GetRefused(g) PROVE PlacementStep
    BY <1>9, UnseenStutters DEF GetRefused, Unseen
<1>10. ASSUME NEW g \in Readers, GetEnd(g) PROVE PlacementStep
    BY <1>10, UnseenStutters DEF GetEnd, Unseen
<1>11. CASE PassBegin
    BY <1>11, UnseenStutters DEF PassBegin, Unseen
<1>12. CASE SelectPending
    BY <1>12, UnseenStutters DEF SelectPending, Unseen
<1>13. CASE Publish
    <2>1. PICK e \in batch : \/ UNCHANGED published
                             \/ published' = [published EXCEPT ![e] = @ + 1]
        BY <1>13 DEF Publish
    <2>2. UNCHANGED <<db, reply>>
        BY <1>13 DEF Publish
    <2>3. CASE UNCHANGED published
        BY <2>2, <2>3, UnseenStutters DEF Unseen
    <2>4. CASE published' = [published EXCEPT ![e] = @ + 1]
        <3>1. e \in Requests /\ e \in db.orders /\ pc[Outbox] = "publish"
            BY <1>13 DEF Publish, TypeOK, ControlType, TablesInv, PassImage, Atomic
        <3>2. {q \in Requests : published'[q] > 0} = {q \in Requests : published[q] > 0} \cup {e}
            BY <2>4, <3>1 DEF TypeOK, MessagesType
        <3>3. CASE published[e] > 0
            <4>1. {q \in Requests : published'[q] > 0} = {q \in Requests : published[q] > 0}
                BY <3>1, <3>2, <3>3
            <4>2. QED
                BY <2>2, <4>1 DEF PlacementStep, Placement!placementVars
        <3>4. CASE ~(published[e] > 0)
            <4>1. Placement!RequestPayment(e)
                BY <2>2, <3>1, <3>2, <3>4 DEF Placement!RequestPayment
            <4>2. QED
                BY <3>1, <4>1 DEF PlacementStep, Placement!PlacementNext
        <3>5. QED
            BY <3>3, <3>4
    <2>5. QED
        BY <2>1, <2>3, <2>4
<1>14. CASE MarkProcessed
    BY <1>14, UnseenStutters DEF MarkProcessed, Unseen
<1>15. CASE PassCommit
    <2>1. db'.orders = db.orders /\ UNCHANGED <<reply, published>>
        BY <1>15 DEF PassCommit, TablesInv, PassImage
    <2>2. QED
        BY <2>1, UnseenStutters DEF Unseen
<1>16. CASE PassThrows
    <2>1. db'.orders = db.orders /\ UNCHANGED <<reply, published>>
        BY <1>16 DEF PassThrows, TablesInv, PassImage
    <2>2. QED
        BY <2>1, UnseenStutters DEF Unseen
<1>17. CASE Tick
    BY <1>17, UnseenStutters DEF Tick, Unseen
<1>18. CASE MqBreak
    BY <1>18, UnseenStutters DEF MqBreak, Unseen
<1>19. CASE Crash
    BY <1>19, UnseenStutters DEF Crash, Unseen
<1>20. CASE Restart
    BY <1>20, UnseenStutters DEF Restart, Unseen
<1>21. CASE UNCHANGED vars
    BY <1>21, UnseenStutters DEF Unseen
<1> HIDE DEF IInv
<1>22. QED
    BY <1>1, <1>2, <1>3, <1>4, <1>5, <1>6, <1>7, <1>8, <1>9, <1>10, <1>11,
       <1>12, <1>13, <1>14, <1>15, <1>16, <1>17, <1>18, <1>19, <1>20, <1>21
       DEF Next, HandlerStep, OutboxStep

(* The orders service implements the abstract OrderPlacement.                *)
THEOREM Implements == Spec => ImplementsPlacement
<1>1. Init => Placement!PlacementInit
    BY RequestsAssumption DEF Init, EmptyTables, Placement!PlacementInit
<1>2. QED
    BY <1>1, Invariant, PlacementSteps, PTL
       DEF Spec, ImplementsPlacement, Placement!PlacementSpec, PlacementStep

=============================================================================
