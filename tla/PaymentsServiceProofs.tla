----------------------- MODULE PaymentsServiceProofs -----------------------
(***************************************************************************)
(* Proofs about PaymentsService, for every set of users, messages and HTTP *)
(* requests and every bound.  The argument is about ownership: as long as  *)
(* no thread has ended another one's transaction, a thread that is inside  *)
(* a transaction owns the slot; the connection is therefore taken while    *)
(* handle_payment_request is between its begin and its commit, and         *)
(* process_payment, called there, cannot get past its first query.  The    *)
(* second half is about what becomes of a verdict: once committed it       *)
(* stays, whatever the threads do to each other's transactions, and until  *)
(* the first race the service keeps the promise of PaymentVerdicts.  The   *)
(* last two parts are about money and about what the endpoints answer.     *)
(***************************************************************************)
EXTENDS PaymentsService, DataTheorems, TLAPS

(* Steps of the inbox thread inside its own transaction, and inside          *)
(* process_payment beyond its first query.                                   *)
InboxInside == {"insert", "pay", "update", "result", "commit"}
Paying == {"payRead", "payBegin", "payUpdate", "payCommit", "payDbCommit", "payReset",
           "payAbort", "payDbRollback", "payUndo"}

Holds(t) == slot = t /\ state = "active"

(* Without a race, whoever is inside a transaction owns the slot.            *)
OwnerInv ==
    ~raced =>
        /\ pc[Inbox] \in InboxInside => Holds(Inbox)
        /\ pc[Inbox] \notin Paying
        /\ pc[Outbox] \in {"select", "publish", "mark"} => Holds(Outbox)
        /\ \A d \in Deposits : pc[d] \in {"update", "commit", "abort"} => Holds(d)

(* Without a race, no verdict is positive, here or in the open transaction.  *)
VerdictInv ==
    ~raced =>
        /\ success = FALSE
        /\ db.debits = {} /\ tx.debits = {}
        /\ \A m \in Messages : db.verdict[m] = FALSE /\ tx.verdict[m] = FALSE

-----------------------------------------------------------------------------
USE DEF vars, connVars, inboxVars, outboxVars, mqVars, envVars
USE DEF Free, Begin, Reaches, Executes, Refuses, Fault, ThrowsAtOnce, StatementThrows
USE DEF Commits, CommitFails, CommitThrows, Aborts, AbortThrows, Steals, EmptySlot
USE DEF Resets, DbCommits, DbCommitThrows, DbAborts, DbAbortThrows, PushQuery, PopQuery
USE DEF Goto, InboxDone, Verdict, Answer, QueryFailed

LEMMA ThreadKinds ==
    /\ Inbox \in Threads /\ Outbox \in Threads /\ Inbox # Outbox
    /\ Deposits \subseteq Threads
    /\ Openings \cup Readers \subseteq Threads
    /\ Nobody \notin Threads /\ Pay \notin Threads /\ Pay # Nobody
    /\ Nobody \notin Messages
    /\ \A t \in HttpThreads : t # Inbox /\ t # Outbox
    /\ \A d \in Deposits : d \notin Openings \cup Readers
    /\ \A c \in Openings : c \notin Readers
    /\ HttpThreads = Deposits \cup Openings \cup Readers
BY NamesAssumption DEF Threads, HttpThreads

(* Updates of the tables keep their type.                                    *)
LEMMA InboxRow ==
    ASSUME NEW tables \in Tables, NEW o \in Orders, NEW status \in {"PENDING", "PROCESSED", "FAILED"}
    PROVE  [tables EXCEPT !.inbox[o] = status] \in Tables
BY DEF Tables

LEMMA VerdictRow ==
    ASSUME NEW f \in [Messages -> BOOLEAN], NEW m, NEW v \in BOOLEAN
    PROVE  [f EXCEPT ![m] = v] \in [Messages -> BOOLEAN]
OBVIOUS

LEMMA ResultRow ==
    ASSUME NEW tables \in Tables, NEW m \in Messages, NEW v \in BOOLEAN
    PROVE  [tables EXCEPT !.event[m] = "PENDING", !.verdict[m] = v] \in Tables
<1>1. [tables.verdict EXCEPT ![m] = v] \in [Messages -> BOOLEAN]
    <2>1. tables.verdict \in [Messages -> BOOLEAN]
        BY DEF Tables
    <2>2. QED
        BY <2>1, VerdictRow
<1>2. ASSUME NEW row \in [Messages -> BOOLEAN]
      PROVE  [tables EXCEPT !.event[m] = "PENDING", !.verdict = row] \in Tables
    BY DEF Tables
<1>3. [tables EXCEPT !.event[m] = "PENDING", !.verdict[m] = v] =
      [tables EXCEPT !.event[m] = "PENDING", !.verdict = [tables.verdict EXCEPT ![m] = v]]
    OBVIOUS
<1>4. QED
    BY <1>1, <1>2, <1>3

LEMMA EventRow ==
    ASSUME NEW tables \in Tables, NEW m \in Messages
    PROVE  [tables EXCEPT !.event[m] = "PROCESSED"] \in Tables
BY DEF Tables

LEMMA DebitedRow ==
    ASSUME NEW tables \in Tables, NEW u \in Users, NEW b \in Int, NEW n \in Nat,
           NEW payments \in SUBSET Messages
    PROVE  [tables EXCEPT !.balance[u] = b, !.version[u] = n, !.debits = payments] \in Tables
BY DEF Tables

LEMMA CreditedRow ==
    ASSUME NEW tables \in Tables, NEW u \in Users, NEW b \in Int, NEW n \in Nat,
           NEW deposits \in SUBSET Deposits
    PROVE  [tables EXCEPT !.balance[u] = b, !.version[u] = n, !.credits = deposits] \in Tables
BY DEF Tables

LEMMA TypeInit == Init => TypeOK
<1> SUFFICES ASSUME Init PROVE TypeOK
    OBVIOUS
<1> USE ThreadKinds DEF Init
<1>1. ThreadsType
    BY DEF ThreadsType, InboxSteps, OutboxSteps, DepositSteps, QuerySteps
<1>2. RepliesType
    BY DEF RepliesType
<1>3. ConnectionType
    BY DEF ConnectionType
<1>4. TablesType
    BY DEF TablesType, Tables, EmptyTables
<1>5. InboxType /\ OutboxType
    BY DEF InboxType, OutboxType
<1>6. ScalarsType
    BY DEF ScalarsType
<1>7. success \in BOOLEAN
    OBVIOUS
<1>8. QED
    BY <1>1, <1>2, <1>3, <1>4, <1>5, <1>6, <1>7 DEF TypeOK

LEMMA ThreadsTypeStep == TypeOK /\ [Next]_vars => ThreadsType'
<1> SUFFICES ASSUME TypeOK, [Next]_vars PROVE ThreadsType'
    OBVIOUS
<1> USE ThreadKinds DEF TypeOK, ThreadsType, InboxSteps, OutboxSteps, DepositSteps, QuerySteps
<1>1. ASSUME NEW m \in Messages, Deliver(m) PROVE ThreadsType'
    BY <1>1 DEF Deliver
<1>2. ASSUME NEW m \in Messages, InboxTake(m) PROVE ThreadsType'
    BY <1>2 DEF InboxTake
<1>3. CASE InboxCheck
    BY <1>3 DEF InboxCheck
<1>4. CASE InboxBegin
    BY <1>4 DEF InboxBegin
<1>5. CASE InboxInsert
    BY <1>5 DEF InboxInsert
<1>6. CASE PayQuery
    BY <1>6 DEF PayQuery
<1>7. CASE PayRead
    BY <1>7 DEF PayRead
<1>8. CASE PayBegin
    BY <1>8 DEF PayBegin
<1>9. CASE PayUpdate
    BY <1>9 DEF PayUpdate
<1>10. CASE PayCommit
    BY <1>10 DEF PayCommit
<1>11. CASE PayDbCommit
    BY <1>11 DEF PayDbCommit
<1>12. CASE PayAbort
    BY <1>12 DEF PayAbort
<1>13. CASE PayDbRollback
    BY <1>13 DEF PayDbRollback
<1>14. CASE PayReset
    BY <1>14 DEF PayReset
<1>15. CASE InboxUpdate
    BY <1>15 DEF InboxUpdate
<1>16. CASE InboxResult
    BY <1>16 DEF InboxResult
<1>17. CASE InboxCommit
    BY <1>17 DEF InboxCommit
<1>18. CASE InboxDbCommit
    BY <1>18 DEF InboxDbCommit
<1>19. CASE InboxReset
    BY <1>19 DEF InboxReset
<1>20. CASE PassBegin
    BY <1>20 DEF PassBegin
<1>21. CASE SelectPending
    BY <1>21 DEF SelectPending
<1>22. CASE Publish
    BY <1>22 DEF Publish
<1>23. CASE MarkProcessed
    BY <1>23 DEF MarkProcessed
<1>24. CASE PassCommit
    BY <1>24 DEF PassCommit
<1>25. CASE PassDbCommit
    BY <1>25 DEF PassDbCommit
<1>26. CASE PassReset
    BY <1>26 DEF PassReset
<1>27. ASSUME NEW d \in Deposits, DepositBegin(d) PROVE ThreadsType'
    BY <1>27 DEF DepositBegin
<1>28. ASSUME NEW d \in Deposits, DepositUpdate(d) PROVE ThreadsType'
    BY <1>28 DEF DepositUpdate
<1>29. ASSUME NEW d \in Deposits, DepositCommit(d) PROVE ThreadsType'
    BY <1>29 DEF DepositCommit
<1>30. ASSUME NEW d \in Deposits, DepositDbCommit(d) PROVE ThreadsType'
    BY <1>30 DEF DepositDbCommit
<1>31. ASSUME NEW d \in Deposits, DepositAbort(d) PROVE ThreadsType'
    BY <1>31 DEF DepositAbort
<1>32. ASSUME NEW d \in Deposits, DepositDbRollback(d) PROVE ThreadsType'
    BY <1>32 DEF DepositDbRollback
<1>33. ASSUME NEW d \in Deposits, DepositReset(d) PROVE ThreadsType'
    BY <1>33 DEF DepositReset
<1>34. ASSUME NEW q \in Openings \cup Readers, QueryBegin(q) PROVE ThreadsType'
    BY <1>34 DEF QueryBegin
<1>35. ASSUME NEW q \in Openings \cup Readers, QueryRefused(q) PROVE ThreadsType'
    BY <1>35 DEF QueryRefused
<1>36. ASSUME NEW q \in Openings \cup Readers, QueryFault(q) PROVE ThreadsType'
    BY <1>36 DEF QueryFault
<1>37. ASSUME NEW c \in Openings, OpeningLookup(c) PROVE ThreadsType'
    BY <1>37 DEF OpeningLookup
<1>38. ASSUME NEW c \in Openings, OpeningInsert(c) PROVE ThreadsType'
    BY <1>38 DEF OpeningInsert
<1>39. ASSUME NEW c \in Openings, OpeningRead(c) PROVE ThreadsType'
    BY <1>39 DEF OpeningRead
<1>40. ASSUME NEW g \in Readers, ReaderRead(g) PROVE ThreadsType'
    BY <1>40 DEF ReaderRead
<1>41. CASE MqBreak
    BY <1>41 DEF MqBreak
<1>42. CASE ProcessDies
    BY <1>42 DEF ProcessDies
<1>43. CASE Restart
    BY <1>43 DEF Restart
<1>44. CASE UNCHANGED vars
    BY <1>44
<1>45. QED
    BY <1>1, <1>2, <1>3, <1>4, <1>5, <1>6, <1>7, <1>8, <1>9, <1>10, <1>11, <1>12, <1>13,
       <1>14, <1>15, <1>16, <1>17, <1>18, <1>19, <1>20, <1>21, <1>22, <1>23, <1>24, <1>25,
       <1>26, <1>27, <1>28, <1>29, <1>30, <1>31, <1>32, <1>33, <1>34, <1>35, <1>36, <1>37,
       <1>38, <1>39, <1>40, <1>41, <1>42, <1>43, <1>44
       DEF Next, InboxStep, OutboxStep, DepositStep, OpeningStep, Crash, DanglingDeath

LEMMA RepliesTypeStep == TypeOK /\ [Next]_vars => RepliesType'
<1> SUFFICES ASSUME TypeOK, [Next]_vars PROVE RepliesType'
    OBVIOUS
<1> USE ThreadKinds DEF TypeOK, RepliesType
<1>1. ASSUME NEW m \in Messages, Deliver(m) PROVE RepliesType'
    BY <1>1 DEF Deliver
<1>2. ASSUME NEW m \in Messages, InboxTake(m) PROVE RepliesType'
    BY <1>2 DEF InboxTake
<1>3. CASE InboxCheck
    BY <1>3 DEF InboxCheck
<1>4. CASE InboxBegin
    BY <1>4 DEF InboxBegin
<1>5. CASE InboxInsert
    BY <1>5 DEF InboxInsert
<1>6. CASE PayQuery
    BY <1>6 DEF PayQuery
<1>7. CASE PayRead
    BY <1>7 DEF PayRead
<1>8. CASE PayBegin
    BY <1>8 DEF PayBegin
<1>9. CASE PayUpdate
    BY <1>9 DEF PayUpdate
<1>10. CASE PayCommit
    BY <1>10 DEF PayCommit
<1>11. CASE PayDbCommit
    BY <1>11 DEF PayDbCommit
<1>12. CASE PayAbort
    BY <1>12 DEF PayAbort
<1>13. CASE PayDbRollback
    BY <1>13 DEF PayDbRollback
<1>14. CASE PayReset
    BY <1>14 DEF PayReset
<1>15. CASE InboxUpdate
    BY <1>15 DEF InboxUpdate
<1>16. CASE InboxResult
    BY <1>16 DEF InboxResult
<1>17. CASE InboxCommit
    BY <1>17 DEF InboxCommit
<1>18. CASE InboxDbCommit
    BY <1>18 DEF InboxDbCommit
<1>19. CASE InboxReset
    BY <1>19 DEF InboxReset
<1>20. CASE PassBegin
    BY <1>20 DEF PassBegin
<1>21. CASE SelectPending
    BY <1>21 DEF SelectPending
<1>22. CASE Publish
    BY <1>22 DEF Publish
<1>23. CASE MarkProcessed
    BY <1>23 DEF MarkProcessed
<1>24. CASE PassCommit
    BY <1>24 DEF PassCommit
<1>25. CASE PassDbCommit
    BY <1>25 DEF PassDbCommit
<1>26. CASE PassReset
    BY <1>26 DEF PassReset
<1>27. ASSUME NEW d \in Deposits, DepositBegin(d) PROVE RepliesType'
    BY <1>27 DEF DepositBegin
<1>28. ASSUME NEW d \in Deposits, DepositUpdate(d) PROVE RepliesType'
    BY <1>28 DEF DepositUpdate
<1>29. ASSUME NEW d \in Deposits, DepositCommit(d) PROVE RepliesType'
    BY <1>29 DEF DepositCommit
<1>30. ASSUME NEW d \in Deposits, DepositDbCommit(d) PROVE RepliesType'
    BY <1>30 DEF DepositDbCommit
<1>31. ASSUME NEW d \in Deposits, DepositAbort(d) PROVE RepliesType'
    BY <1>31 DEF DepositAbort
<1>32. ASSUME NEW d \in Deposits, DepositDbRollback(d) PROVE RepliesType'
    BY <1>32 DEF DepositDbRollback
<1>33. ASSUME NEW d \in Deposits, DepositReset(d) PROVE RepliesType'
    BY <1>33 DEF DepositReset
<1>34. ASSUME NEW q \in Openings \cup Readers, QueryBegin(q) PROVE RepliesType'
    BY <1>34 DEF QueryBegin
<1>35. ASSUME NEW q \in Openings \cup Readers, QueryRefused(q) PROVE RepliesType'
    BY <1>35 DEF QueryRefused
<1>36. ASSUME NEW q \in Openings \cup Readers, QueryFault(q) PROVE RepliesType'
    BY <1>36 DEF QueryFault
<1>37. ASSUME NEW c \in Openings, OpeningLookup(c) PROVE RepliesType'
    BY <1>37 DEF OpeningLookup
<1>38. ASSUME NEW c \in Openings, OpeningInsert(c) PROVE RepliesType'
    BY <1>38 DEF OpeningInsert
<1>39. ASSUME NEW c \in Openings, OpeningRead(c) PROVE RepliesType'
    BY <1>39 DEF OpeningRead
<1>40. ASSUME NEW g \in Readers, ReaderRead(g) PROVE RepliesType'
    BY <1>40 DEF ReaderRead
<1>41. CASE MqBreak
    BY <1>41 DEF MqBreak
<1>42. CASE ProcessDies
    BY <1>42 DEF ProcessDies
<1>43. CASE Restart
    BY <1>43 DEF Restart
<1>44. CASE UNCHANGED vars
    BY <1>44
<1>45. QED
    BY <1>1, <1>2, <1>3, <1>4, <1>5, <1>6, <1>7, <1>8, <1>9, <1>10, <1>11, <1>12, <1>13,
       <1>14, <1>15, <1>16, <1>17, <1>18, <1>19, <1>20, <1>21, <1>22, <1>23, <1>24, <1>25,
       <1>26, <1>27, <1>28, <1>29, <1>30, <1>31, <1>32, <1>33, <1>34, <1>35, <1>36, <1>37,
       <1>38, <1>39, <1>40, <1>41, <1>42, <1>43, <1>44
       DEF Next, InboxStep, OutboxStep, DepositStep, OpeningStep, Crash, DanglingDeath

LEMMA ConnectionTypeStep == TypeOK /\ [Next]_vars => ConnectionType'
<1> SUFFICES ASSUME TypeOK, [Next]_vars PROVE ConnectionType'
    OBVIOUS
<1> USE ThreadKinds DEF TypeOK, ConnectionType
<1>1. ASSUME NEW m \in Messages, Deliver(m) PROVE ConnectionType'
    BY <1>1 DEF Deliver
<1>2. ASSUME NEW m \in Messages, InboxTake(m) PROVE ConnectionType'
    BY <1>2 DEF InboxTake
<1>3. CASE InboxCheck
    BY <1>3 DEF InboxCheck
<1>4. CASE InboxBegin
    BY <1>4 DEF InboxBegin
<1>5. CASE InboxInsert
    BY <1>5 DEF InboxInsert
<1>6. CASE PayQuery
    BY <1>6 DEF PayQuery
<1>7. CASE PayRead
    BY <1>7 DEF PayRead
<1>8. CASE PayBegin
    BY <1>8 DEF PayBegin
<1>9. CASE PayUpdate
    BY <1>9 DEF PayUpdate
<1>10. CASE PayCommit
    BY <1>10 DEF PayCommit
<1>11. CASE PayDbCommit
    <2>1. raced' \in BOOLEAN
        BY <1>11 DEF PayDbCommit
    <2>2. /\ (slot \in Threads \cup {Pay, Nobody})'
          /\ (state \in {"none", "active", "broken", "committed", "aborted"})'
          /\ (slot = Nobody <=> state = "none")'
        BY <1>11 DEF PayDbCommit
    <2>3. (stack \in Threads \cup {Nobody})' /\ (failed \in BOOLEAN)'
        BY <1>11 DEF PayDbCommit
    <2>4. QED
        BY <2>1, <2>2, <2>3
<1>12. CASE PayAbort
    BY <1>12 DEF PayAbort
<1>13. CASE PayDbRollback
    <2>1. raced' \in BOOLEAN
        BY <1>13 DEF PayDbRollback
    <2>2. /\ (slot \in Threads \cup {Pay, Nobody})'
          /\ (state \in {"none", "active", "broken", "committed", "aborted"})'
          /\ (slot = Nobody <=> state = "none")'
        BY <1>13 DEF PayDbRollback
    <2>3. (stack \in Threads \cup {Nobody})' /\ (failed \in BOOLEAN)'
        BY <1>13 DEF PayDbRollback
    <2>4. QED
        BY <2>1, <2>2, <2>3
<1>14. CASE PayReset
    <2>1. raced' \in BOOLEAN
        BY <1>14 DEF PayReset
    <2>2. /\ (slot \in Threads \cup {Pay, Nobody})'
          /\ (state \in {"none", "active", "broken", "committed", "aborted"})'
          /\ (slot = Nobody <=> state = "none")'
        BY <1>14 DEF PayReset
    <2>3. (stack \in Threads \cup {Nobody})' /\ (failed \in BOOLEAN)'
        BY <1>14 DEF PayReset
    <2>4. QED
        BY <2>1, <2>2, <2>3
<1>15. CASE InboxUpdate
    BY <1>15 DEF InboxUpdate
<1>16. CASE InboxResult
    BY <1>16 DEF InboxResult
<1>17. CASE InboxCommit
    BY <1>17 DEF InboxCommit
<1>18. CASE InboxDbCommit
    <2>1. raced' \in BOOLEAN
        BY <1>18 DEF InboxDbCommit
    <2>2. /\ (slot \in Threads \cup {Pay, Nobody})'
          /\ (state \in {"none", "active", "broken", "committed", "aborted"})'
          /\ (slot = Nobody <=> state = "none")'
        BY <1>18 DEF InboxDbCommit
    <2>3. (stack \in Threads \cup {Nobody})' /\ (failed \in BOOLEAN)'
        BY <1>18 DEF InboxDbCommit
    <2>4. QED
        BY <2>1, <2>2, <2>3
<1>19. CASE InboxReset
    <2>1. raced' \in BOOLEAN
        BY <1>19 DEF InboxReset
    <2>2. /\ (slot \in Threads \cup {Pay, Nobody})'
          /\ (state \in {"none", "active", "broken", "committed", "aborted"})'
          /\ (slot = Nobody <=> state = "none")'
        BY <1>19 DEF InboxReset
    <2>3. (stack \in Threads \cup {Nobody})' /\ (failed \in BOOLEAN)'
        BY <1>19 DEF InboxReset
    <2>4. QED
        BY <2>1, <2>2, <2>3
<1>20. CASE PassBegin
    BY <1>20 DEF PassBegin
<1>21. CASE SelectPending
    BY <1>21 DEF SelectPending
<1>22. CASE Publish
    BY <1>22 DEF Publish
<1>23. CASE MarkProcessed
    BY <1>23 DEF MarkProcessed
<1>24. CASE PassCommit
    BY <1>24 DEF PassCommit
<1>25. CASE PassDbCommit
    <2>1. raced' \in BOOLEAN
        BY <1>25 DEF PassDbCommit
    <2>2. /\ (slot \in Threads \cup {Pay, Nobody})'
          /\ (state \in {"none", "active", "broken", "committed", "aborted"})'
          /\ (slot = Nobody <=> state = "none")'
        BY <1>25 DEF PassDbCommit
    <2>3. (stack \in Threads \cup {Nobody})' /\ (failed \in BOOLEAN)'
        BY <1>25 DEF PassDbCommit
    <2>4. QED
        BY <2>1, <2>2, <2>3
<1>26. CASE PassReset
    <2>1. raced' \in BOOLEAN
        BY <1>26 DEF PassReset
    <2>2. /\ (slot \in Threads \cup {Pay, Nobody})'
          /\ (state \in {"none", "active", "broken", "committed", "aborted"})'
          /\ (slot = Nobody <=> state = "none")'
        BY <1>26 DEF PassReset
    <2>3. (stack \in Threads \cup {Nobody})' /\ (failed \in BOOLEAN)'
        BY <1>26 DEF PassReset
    <2>4. QED
        BY <2>1, <2>2, <2>3
<1>27. ASSUME NEW d \in Deposits, DepositBegin(d) PROVE ConnectionType'
    BY <1>27 DEF DepositBegin
<1>28. ASSUME NEW d \in Deposits, DepositUpdate(d) PROVE ConnectionType'
    BY <1>28 DEF DepositUpdate
<1>29. ASSUME NEW d \in Deposits, DepositCommit(d) PROVE ConnectionType'
    BY <1>29 DEF DepositCommit
<1>30. ASSUME NEW d \in Deposits, DepositDbCommit(d) PROVE ConnectionType'
    <2>1. raced' \in BOOLEAN
        BY <1>30 DEF DepositDbCommit
    <2>2. /\ (slot \in Threads \cup {Pay, Nobody})'
          /\ (state \in {"none", "active", "broken", "committed", "aborted"})'
          /\ (slot = Nobody <=> state = "none")'
        BY <1>30 DEF DepositDbCommit
    <2>3. (stack \in Threads \cup {Nobody})' /\ (failed \in BOOLEAN)'
        BY <1>30 DEF DepositDbCommit
    <2>4. QED
        BY <2>1, <2>2, <2>3
<1>31. ASSUME NEW d \in Deposits, DepositAbort(d) PROVE ConnectionType'
    BY <1>31 DEF DepositAbort
<1>32. ASSUME NEW d \in Deposits, DepositDbRollback(d) PROVE ConnectionType'
    <2>1. raced' \in BOOLEAN
        BY <1>32 DEF DepositDbRollback
    <2>2. /\ (slot \in Threads \cup {Pay, Nobody})'
          /\ (state \in {"none", "active", "broken", "committed", "aborted"})'
          /\ (slot = Nobody <=> state = "none")'
        BY <1>32 DEF DepositDbRollback
    <2>3. (stack \in Threads \cup {Nobody})' /\ (failed \in BOOLEAN)'
        BY <1>32 DEF DepositDbRollback
    <2>4. QED
        BY <2>1, <2>2, <2>3
<1>33. ASSUME NEW d \in Deposits, DepositReset(d) PROVE ConnectionType'
    <2>1. raced' \in BOOLEAN
        BY <1>33 DEF DepositReset
    <2>2. /\ (slot \in Threads \cup {Pay, Nobody})'
          /\ (state \in {"none", "active", "broken", "committed", "aborted"})'
          /\ (slot = Nobody <=> state = "none")'
        BY <1>33 DEF DepositReset
    <2>3. (stack \in Threads \cup {Nobody})' /\ (failed \in BOOLEAN)'
        BY <1>33 DEF DepositReset
    <2>4. QED
        BY <2>1, <2>2, <2>3
<1>34. ASSUME NEW q \in Openings \cup Readers, QueryBegin(q) PROVE ConnectionType'
    BY <1>34 DEF QueryBegin
<1>35. ASSUME NEW q \in Openings \cup Readers, QueryRefused(q) PROVE ConnectionType'
    BY <1>35 DEF QueryRefused
<1>36. ASSUME NEW q \in Openings \cup Readers, QueryFault(q) PROVE ConnectionType'
    BY <1>36 DEF QueryFault
<1>37. ASSUME NEW c \in Openings, OpeningLookup(c) PROVE ConnectionType'
    BY <1>37 DEF OpeningLookup
<1>38. ASSUME NEW c \in Openings, OpeningInsert(c) PROVE ConnectionType'
    BY <1>38 DEF OpeningInsert
<1>39. ASSUME NEW c \in Openings, OpeningRead(c) PROVE ConnectionType'
    BY <1>39 DEF OpeningRead
<1>40. ASSUME NEW g \in Readers, ReaderRead(g) PROVE ConnectionType'
    BY <1>40 DEF ReaderRead
<1>41. CASE MqBreak
    BY <1>41 DEF MqBreak
<1>42. CASE ProcessDies
    BY <1>42 DEF ProcessDies
<1>43. CASE Restart
    BY <1>43 DEF Restart
<1>44. CASE UNCHANGED vars
    BY <1>44
<1>45. QED
    BY <1>1, <1>2, <1>3, <1>4, <1>5, <1>6, <1>7, <1>8, <1>9, <1>10, <1>11, <1>12, <1>13,
       <1>14, <1>15, <1>16, <1>17, <1>18, <1>19, <1>20, <1>21, <1>22, <1>23, <1>24, <1>25,
       <1>26, <1>27, <1>28, <1>29, <1>30, <1>31, <1>32, <1>33, <1>34, <1>35, <1>36, <1>37,
       <1>38, <1>39, <1>40, <1>41, <1>42, <1>43, <1>44
       DEF Next, InboxStep, OutboxStep, DepositStep, OpeningStep, Crash, DanglingDeath

LEMMA TablesTypeStep == TypeOK /\ [Next]_vars => TablesType'
<1> SUFFICES ASSUME TypeOK, [Next]_vars PROVE TablesType'
    OBVIOUS
<1> USE ThreadKinds, DataAssumption DEF TypeOK, TablesType, InboxType, OutboxType
<1>1. ASSUME NEW m \in Messages, Deliver(m) PROVE TablesType'
    BY <1>1 DEF Deliver
<1>2. ASSUME NEW m \in Messages, InboxTake(m) PROVE TablesType'
    BY <1>2 DEF InboxTake
<1>3. CASE InboxCheck
    BY <1>3 DEF InboxCheck
<1>4. CASE InboxBegin
    BY <1>4 DEF InboxBegin
<1>5. CASE InboxInsert
    <2>1. [tx EXCEPT !.inbox[order] = "PENDING"] \in Tables
        BY <1>5, InboxRow DEF InboxInsert, order
    <2>2. QED
        BY <1>5, <2>1 DEF InboxInsert
<1>6. CASE PayQuery
    BY <1>6 DEF PayQuery
<1>7. CASE PayRead
    BY <1>7 DEF PayRead
<1>8. CASE PayBegin
    BY <1>8 DEF PayBegin
<1>9. CASE PayUpdate
    <2>1. user \in Users /\ msg \in Messages /\ amount \in Int
        BY <1>9 DEF PayUpdate, user, amount
    <2>2. /\ tx.balance[user] - amount \in Int
          /\ tx.version[user] + 1 \in Nat
          /\ tx.debits \cup {msg} \in SUBSET Messages
        BY <2>1 DEF Tables
    <2>3. [tx EXCEPT !.balance[user] = tx.balance[user] - amount,
                    !.version[user] = tx.version[user] + 1,
                    !.debits = tx.debits \cup {msg}] \in Tables
        BY <2>1, <2>2, DebitedRow
    <2>4. QED
        BY <1>9, <2>3 DEF PayUpdate
<1>10. CASE PayCommit
    BY <1>10 DEF PayCommit
<1>11. CASE PayDbCommit
    BY <1>11 DEF PayDbCommit
<1>12. CASE PayAbort
    BY <1>12 DEF PayAbort
<1>13. CASE PayDbRollback
    BY <1>13 DEF PayDbRollback
<1>14. CASE PayReset
    BY <1>14 DEF PayReset
<1>15. CASE InboxUpdate
    <2>1. [tx EXCEPT !.inbox[order] = IF success THEN "PROCESSED" ELSE "FAILED"] \in Tables
        BY <1>15, InboxRow DEF InboxUpdate, order
    <2>2. QED
        BY <1>15, <2>1 DEF InboxUpdate
<1>16. CASE InboxResult
    <2>1. [tx EXCEPT !.event[msg] = "PENDING", !.verdict[msg] = success] \in Tables
        BY <1>16, ResultRow DEF InboxResult
    <2>2. QED
        BY <1>16, <2>1 DEF InboxResult
<1>17. CASE InboxCommit
    BY <1>17 DEF InboxCommit
<1>18. CASE InboxDbCommit
    BY <1>18 DEF InboxDbCommit
<1>19. CASE InboxReset
    BY <1>19 DEF InboxReset
<1>20. CASE PassBegin
    BY <1>20 DEF PassBegin
<1>21. CASE SelectPending
    BY <1>21 DEF SelectPending
<1>22. CASE Publish
    BY <1>22 DEF Publish
<1>23. CASE MarkProcessed
    <2>1. [tx EXCEPT !.event[current] = "PROCESSED"] \in Tables
        BY <1>23, EventRow DEF MarkProcessed
    <2>2. QED
        BY <1>23, <2>1 DEF MarkProcessed
<1>24. CASE PassCommit
    BY <1>24 DEF PassCommit
<1>25. CASE PassDbCommit
    BY <1>25 DEF PassDbCommit
<1>26. CASE PassReset
    BY <1>26 DEF PassReset
<1>27. ASSUME NEW d \in Deposits, DepositBegin(d) PROVE TablesType'
    BY <1>27 DEF DepositBegin
<1>28. ASSUME NEW d \in Deposits, DepositUpdate(d) PROVE TablesType'
    <2> DEFINE u == Deposit(d).user
               sum == tx.balance[u] + Deposit(d).amount
    <2>1. u \in Users /\ d \in Deposits /\ Deposit(d).amount \in Int
        BY <1>28
    <2>2. sum \in Int /\ tx.version[u] + 1 \in Nat /\ tx.credits \cup {d} \in SUBSET Deposits
        BY <2>1 DEF Tables
    <2>3. [tx EXCEPT !.balance[u] = sum, !.version[u] = tx.version[u] + 1,
                    !.credits = tx.credits \cup {d}] \in Tables
        BY <2>1, <2>2, CreditedRow
    <2>4. QED
        BY <1>28, <2>3 DEF DepositUpdate
<1>29. ASSUME NEW d \in Deposits, DepositCommit(d) PROVE TablesType'
    BY <1>29 DEF DepositCommit
<1>30. ASSUME NEW d \in Deposits, DepositDbCommit(d) PROVE TablesType'
    BY <1>30 DEF DepositDbCommit
<1>31. ASSUME NEW d \in Deposits, DepositAbort(d) PROVE TablesType'
    BY <1>31 DEF DepositAbort
<1>32. ASSUME NEW d \in Deposits, DepositDbRollback(d) PROVE TablesType'
    BY <1>32 DEF DepositDbRollback
<1>33. ASSUME NEW d \in Deposits, DepositReset(d) PROVE TablesType'
    BY <1>33 DEF DepositReset
<1>34. ASSUME NEW q \in Openings \cup Readers, QueryBegin(q) PROVE TablesType'
    BY <1>34 DEF QueryBegin
<1>35. ASSUME NEW q \in Openings \cup Readers, QueryRefused(q) PROVE TablesType'
    BY <1>35 DEF QueryRefused
<1>36. ASSUME NEW q \in Openings \cup Readers, QueryFault(q) PROVE TablesType'
    BY <1>36 DEF QueryFault
<1>37. ASSUME NEW c \in Openings, OpeningLookup(c) PROVE TablesType'
    BY <1>37 DEF OpeningLookup
<1>38. ASSUME NEW c \in Openings, OpeningInsert(c) PROVE TablesType'
    BY <1>38 DEF OpeningInsert, Tables
<1>39. ASSUME NEW c \in Openings, OpeningRead(c) PROVE TablesType'
    BY <1>39 DEF OpeningRead
<1>40. ASSUME NEW g \in Readers, ReaderRead(g) PROVE TablesType'
    BY <1>40 DEF ReaderRead
<1>41. CASE MqBreak
    BY <1>41 DEF MqBreak
<1>42. CASE ProcessDies
    BY <1>42 DEF ProcessDies
<1>43. CASE Restart
    BY <1>43 DEF Restart
<1>44. CASE UNCHANGED vars
    BY <1>44
<1>45. QED
    BY <1>1, <1>2, <1>3, <1>4, <1>5, <1>6, <1>7, <1>8, <1>9, <1>10, <1>11, <1>12, <1>13,
       <1>14, <1>15, <1>16, <1>17, <1>18, <1>19, <1>20, <1>21, <1>22, <1>23, <1>24, <1>25,
       <1>26, <1>27, <1>28, <1>29, <1>30, <1>31, <1>32, <1>33, <1>34, <1>35, <1>36, <1>37,
       <1>38, <1>39, <1>40, <1>41, <1>42, <1>43, <1>44
       DEF Next, InboxStep, OutboxStep, DepositStep, OpeningStep, Crash, DanglingDeath

LEMMA InboxTypeStep == TypeOK /\ [Next]_vars => InboxType'
<1> SUFFICES ASSUME TypeOK, [Next]_vars PROVE InboxType'
    OBVIOUS
<1> USE ThreadKinds DEF TypeOK, InboxType, ThreadsType
<1>1. ASSUME NEW m \in Messages, Deliver(m) PROVE InboxType'
    BY <1>1 DEF Deliver
<1>2. ASSUME NEW m \in Messages, InboxTake(m) PROVE InboxType'
    BY <1>2 DEF InboxTake
<1>3. CASE InboxCheck
    BY <1>3 DEF InboxCheck
<1>4. CASE InboxBegin
    BY <1>4 DEF InboxBegin
<1>5. CASE InboxInsert
    BY <1>5 DEF InboxInsert
<1>6. CASE PayQuery
    BY <1>6 DEF PayQuery
<1>7. CASE PayRead
    BY <1>7 DEF PayRead, TablesType, Tables
<1>8. CASE PayBegin
    BY <1>8 DEF PayBegin
<1>9. CASE PayUpdate
    BY <1>9 DEF PayUpdate
<1>10. CASE PayCommit
    BY <1>10 DEF PayCommit
<1>11. CASE PayDbCommit
    BY <1>11 DEF PayDbCommit
<1>12. CASE PayAbort
    BY <1>12 DEF PayAbort
<1>13. CASE PayDbRollback
    BY <1>13 DEF PayDbRollback
<1>14. CASE PayReset
    BY <1>14 DEF PayReset
<1>15. CASE InboxUpdate
    BY <1>15 DEF InboxUpdate
<1>16. CASE InboxResult
    BY <1>16 DEF InboxResult
<1>17. CASE InboxCommit
    BY <1>17 DEF InboxCommit
<1>18. CASE InboxDbCommit
    BY <1>18 DEF InboxDbCommit
<1>19. CASE InboxReset
    BY <1>19 DEF InboxReset
<1>20. CASE PassBegin
    BY <1>20 DEF PassBegin
<1>21. CASE SelectPending
    BY <1>21 DEF SelectPending
<1>22. CASE Publish
    BY <1>22 DEF Publish
<1>23. CASE MarkProcessed
    BY <1>23 DEF MarkProcessed
<1>24. CASE PassCommit
    BY <1>24 DEF PassCommit
<1>25. CASE PassDbCommit
    BY <1>25 DEF PassDbCommit
<1>26. CASE PassReset
    BY <1>26 DEF PassReset
<1>27. ASSUME NEW d \in Deposits, DepositBegin(d) PROVE InboxType'
    BY <1>27 DEF DepositBegin
<1>28. ASSUME NEW d \in Deposits, DepositUpdate(d) PROVE InboxType'
    BY <1>28 DEF DepositUpdate
<1>29. ASSUME NEW d \in Deposits, DepositCommit(d) PROVE InboxType'
    BY <1>29 DEF DepositCommit
<1>30. ASSUME NEW d \in Deposits, DepositDbCommit(d) PROVE InboxType'
    BY <1>30 DEF DepositDbCommit
<1>31. ASSUME NEW d \in Deposits, DepositAbort(d) PROVE InboxType'
    BY <1>31 DEF DepositAbort
<1>32. ASSUME NEW d \in Deposits, DepositDbRollback(d) PROVE InboxType'
    BY <1>32 DEF DepositDbRollback
<1>33. ASSUME NEW d \in Deposits, DepositReset(d) PROVE InboxType'
    BY <1>33 DEF DepositReset
<1>34. ASSUME NEW q \in Openings \cup Readers, QueryBegin(q) PROVE InboxType'
    BY <1>34 DEF QueryBegin
<1>35. ASSUME NEW q \in Openings \cup Readers, QueryRefused(q) PROVE InboxType'
    BY <1>35 DEF QueryRefused
<1>36. ASSUME NEW q \in Openings \cup Readers, QueryFault(q) PROVE InboxType'
    BY <1>36 DEF QueryFault
<1>37. ASSUME NEW c \in Openings, OpeningLookup(c) PROVE InboxType'
    BY <1>37 DEF OpeningLookup
<1>38. ASSUME NEW c \in Openings, OpeningInsert(c) PROVE InboxType'
    BY <1>38 DEF OpeningInsert
<1>39. ASSUME NEW c \in Openings, OpeningRead(c) PROVE InboxType'
    BY <1>39 DEF OpeningRead
<1>40. ASSUME NEW g \in Readers, ReaderRead(g) PROVE InboxType'
    BY <1>40 DEF ReaderRead
<1>41. CASE MqBreak
    BY <1>41 DEF MqBreak
<1>42. CASE ProcessDies
    BY <1>42 DEF ProcessDies
<1>43. CASE Restart
    BY <1>43 DEF Restart
<1>44. CASE UNCHANGED vars
    BY <1>44
<1>45. QED
    BY <1>1, <1>2, <1>3, <1>4, <1>5, <1>6, <1>7, <1>8, <1>9, <1>10, <1>11, <1>12, <1>13,
       <1>14, <1>15, <1>16, <1>17, <1>18, <1>19, <1>20, <1>21, <1>22, <1>23, <1>24, <1>25,
       <1>26, <1>27, <1>28, <1>29, <1>30, <1>31, <1>32, <1>33, <1>34, <1>35, <1>36, <1>37,
       <1>38, <1>39, <1>40, <1>41, <1>42, <1>43, <1>44
       DEF Next, InboxStep, OutboxStep, DepositStep, OpeningStep, Crash, DanglingDeath

LEMMA OutboxTypeStep == TypeOK /\ [Next]_vars => OutboxType'
<1> SUFFICES ASSUME TypeOK, [Next]_vars PROVE OutboxType'
    OBVIOUS
<1> USE ThreadKinds DEF TypeOK, OutboxType, ThreadsType
<1>1. ASSUME NEW m \in Messages, Deliver(m) PROVE OutboxType'
    BY <1>1 DEF Deliver
<1>2. ASSUME NEW m \in Messages, InboxTake(m) PROVE OutboxType'
    BY <1>2 DEF InboxTake
<1>3. CASE InboxCheck
    BY <1>3 DEF InboxCheck
<1>4. CASE InboxBegin
    BY <1>4 DEF InboxBegin
<1>5. CASE InboxInsert
    BY <1>5 DEF InboxInsert
<1>6. CASE PayQuery
    BY <1>6 DEF PayQuery
<1>7. CASE PayRead
    BY <1>7 DEF PayRead
<1>8. CASE PayBegin
    BY <1>8 DEF PayBegin
<1>9. CASE PayUpdate
    BY <1>9 DEF PayUpdate
<1>10. CASE PayCommit
    BY <1>10 DEF PayCommit
<1>11. CASE PayDbCommit
    BY <1>11 DEF PayDbCommit
<1>12. CASE PayAbort
    BY <1>12 DEF PayAbort
<1>13. CASE PayDbRollback
    BY <1>13 DEF PayDbRollback
<1>14. CASE PayReset
    BY <1>14 DEF PayReset
<1>15. CASE InboxUpdate
    BY <1>15 DEF InboxUpdate
<1>16. CASE InboxResult
    BY <1>16 DEF InboxResult
<1>17. CASE InboxCommit
    BY <1>17 DEF InboxCommit
<1>18. CASE InboxDbCommit
    BY <1>18 DEF InboxDbCommit
<1>19. CASE InboxReset
    BY <1>19 DEF InboxReset
<1>20. CASE PassBegin
    BY <1>20 DEF PassBegin
<1>21. CASE SelectPending
    BY <1>21 DEF SelectPending, PendingEvents
<1>22. CASE Publish
    BY <1>22 DEF Publish
<1>23. CASE MarkProcessed
    BY <1>23 DEF MarkProcessed
<1>24. CASE PassCommit
    BY <1>24 DEF PassCommit
<1>25. CASE PassDbCommit
    BY <1>25 DEF PassDbCommit
<1>26. CASE PassReset
    BY <1>26 DEF PassReset
<1>27. ASSUME NEW d \in Deposits, DepositBegin(d) PROVE OutboxType'
    BY <1>27 DEF DepositBegin
<1>28. ASSUME NEW d \in Deposits, DepositUpdate(d) PROVE OutboxType'
    BY <1>28 DEF DepositUpdate
<1>29. ASSUME NEW d \in Deposits, DepositCommit(d) PROVE OutboxType'
    BY <1>29 DEF DepositCommit
<1>30. ASSUME NEW d \in Deposits, DepositDbCommit(d) PROVE OutboxType'
    BY <1>30 DEF DepositDbCommit
<1>31. ASSUME NEW d \in Deposits, DepositAbort(d) PROVE OutboxType'
    BY <1>31 DEF DepositAbort
<1>32. ASSUME NEW d \in Deposits, DepositDbRollback(d) PROVE OutboxType'
    BY <1>32 DEF DepositDbRollback
<1>33. ASSUME NEW d \in Deposits, DepositReset(d) PROVE OutboxType'
    BY <1>33 DEF DepositReset
<1>34. ASSUME NEW q \in Openings \cup Readers, QueryBegin(q) PROVE OutboxType'
    BY <1>34 DEF QueryBegin
<1>35. ASSUME NEW q \in Openings \cup Readers, QueryRefused(q) PROVE OutboxType'
    BY <1>35 DEF QueryRefused
<1>36. ASSUME NEW q \in Openings \cup Readers, QueryFault(q) PROVE OutboxType'
    BY <1>36 DEF QueryFault
<1>37. ASSUME NEW c \in Openings, OpeningLookup(c) PROVE OutboxType'
    BY <1>37 DEF OpeningLookup
<1>38. ASSUME NEW c \in Openings, OpeningInsert(c) PROVE OutboxType'
    BY <1>38 DEF OpeningInsert
<1>39. ASSUME NEW c \in Openings, OpeningRead(c) PROVE OutboxType'
    BY <1>39 DEF OpeningRead
<1>40. ASSUME NEW g \in Readers, ReaderRead(g) PROVE OutboxType'
    BY <1>40 DEF ReaderRead
<1>41. CASE MqBreak
    BY <1>41 DEF MqBreak
<1>42. CASE ProcessDies
    BY <1>42 DEF ProcessDies
<1>43. CASE Restart
    BY <1>43 DEF Restart
<1>44. CASE UNCHANGED vars
    BY <1>44
<1>45. QED
    BY <1>1, <1>2, <1>3, <1>4, <1>5, <1>6, <1>7, <1>8, <1>9, <1>10, <1>11, <1>12, <1>13,
       <1>14, <1>15, <1>16, <1>17, <1>18, <1>19, <1>20, <1>21, <1>22, <1>23, <1>24, <1>25,
       <1>26, <1>27, <1>28, <1>29, <1>30, <1>31, <1>32, <1>33, <1>34, <1>35, <1>36, <1>37,
       <1>38, <1>39, <1>40, <1>41, <1>42, <1>43, <1>44
       DEF Next, InboxStep, OutboxStep, DepositStep, OpeningStep, Crash, DanglingDeath

LEMMA ScalarsTypeStep == TypeOK /\ [Next]_vars => ScalarsType'
<1> SUFFICES ASSUME TypeOK, [Next]_vars PROVE ScalarsType'
    OBVIOUS
<1> USE ThreadKinds DEF TypeOK, ScalarsType, InboxType, OutboxType
<1>1. ASSUME NEW m \in Messages, Deliver(m) PROVE ScalarsType'
    BY <1>1 DEF Deliver
<1>2. ASSUME NEW m \in Messages, InboxTake(m) PROVE ScalarsType'
    BY <1>2 DEF InboxTake
<1>3. CASE InboxCheck
    BY <1>3 DEF InboxCheck
<1>4. CASE InboxBegin
    BY <1>4 DEF InboxBegin
<1>5. CASE InboxInsert
    BY <1>5 DEF InboxInsert
<1>6. CASE PayQuery
    BY <1>6 DEF PayQuery
<1>7. CASE PayRead
    BY <1>7 DEF PayRead
<1>8. CASE PayBegin
    BY <1>8 DEF PayBegin
<1>9. CASE PayUpdate
    BY <1>9 DEF PayUpdate
<1>10. CASE PayCommit
    BY <1>10 DEF PayCommit
<1>11. CASE PayDbCommit
    BY <1>11 DEF PayDbCommit
<1>12. CASE PayAbort
    BY <1>12 DEF PayAbort
<1>13. CASE PayDbRollback
    BY <1>13 DEF PayDbRollback
<1>14. CASE PayReset
    BY <1>14 DEF PayReset
<1>15. CASE InboxUpdate
    BY <1>15 DEF InboxUpdate
<1>16. CASE InboxResult
    BY <1>16 DEF InboxResult
<1>17. CASE InboxCommit
    BY <1>17 DEF InboxCommit
<1>18. CASE InboxDbCommit
    BY <1>18 DEF InboxDbCommit
<1>19. CASE InboxReset
    BY <1>19 DEF InboxReset
<1>20. CASE PassBegin
    BY <1>20 DEF PassBegin
<1>21. CASE SelectPending
    BY <1>21 DEF SelectPending
<1>22. CASE Publish
    <2>1. PICK m \in batch :
              /\ published' = published \/ published' = [published EXCEPT ![m] = @ + 1]
              /\ lost' = lost \/ lost' = lost \cup {m}
              /\ mqUp' = mqUp \/ mqUp' = FALSE
        BY <1>22 DEF Publish
    <2>2. UNCHANGED envVars
        BY <1>22 DEF Publish
    <2>3. mqUp' \in BOOLEAN
        <3>1. CASE mqUp' = mqUp
            BY <3>1
        <3>2. CASE mqUp' = FALSE
            BY <3>2
        <3>3. QED
            BY <2>1, <3>1, <3>2
    <2>4. (published \in [Messages -> Nat])' /\ (lost \subseteq Messages)'
        BY <2>1
    <2>5. QED
        BY <2>2, <2>3, <2>4
<1>23. CASE MarkProcessed
    BY <1>23 DEF MarkProcessed
<1>24. CASE PassCommit
    BY <1>24 DEF PassCommit
<1>25. CASE PassDbCommit
    BY <1>25 DEF PassDbCommit
<1>26. CASE PassReset
    BY <1>26 DEF PassReset
<1>27. ASSUME NEW d \in Deposits, DepositBegin(d) PROVE ScalarsType'
    BY <1>27 DEF DepositBegin
<1>28. ASSUME NEW d \in Deposits, DepositUpdate(d) PROVE ScalarsType'
    BY <1>28 DEF DepositUpdate
<1>29. ASSUME NEW d \in Deposits, DepositCommit(d) PROVE ScalarsType'
    BY <1>29 DEF DepositCommit
<1>30. ASSUME NEW d \in Deposits, DepositDbCommit(d) PROVE ScalarsType'
    BY <1>30 DEF DepositDbCommit
<1>31. ASSUME NEW d \in Deposits, DepositAbort(d) PROVE ScalarsType'
    BY <1>31 DEF DepositAbort
<1>32. ASSUME NEW d \in Deposits, DepositDbRollback(d) PROVE ScalarsType'
    BY <1>32 DEF DepositDbRollback
<1>33. ASSUME NEW d \in Deposits, DepositReset(d) PROVE ScalarsType'
    BY <1>33 DEF DepositReset
<1>34. ASSUME NEW q \in Openings \cup Readers, QueryBegin(q) PROVE ScalarsType'
    BY <1>34 DEF QueryBegin
<1>35. ASSUME NEW q \in Openings \cup Readers, QueryRefused(q) PROVE ScalarsType'
    BY <1>35 DEF QueryRefused
<1>36. ASSUME NEW q \in Openings \cup Readers, QueryFault(q) PROVE ScalarsType'
    BY <1>36 DEF QueryFault
<1>37. ASSUME NEW c \in Openings, OpeningLookup(c) PROVE ScalarsType'
    BY <1>37 DEF OpeningLookup
<1>38. ASSUME NEW c \in Openings, OpeningInsert(c) PROVE ScalarsType'
    BY <1>38 DEF OpeningInsert
<1>39. ASSUME NEW c \in Openings, OpeningRead(c) PROVE ScalarsType'
    BY <1>39 DEF OpeningRead
<1>40. ASSUME NEW g \in Readers, ReaderRead(g) PROVE ScalarsType'
    BY <1>40 DEF ReaderRead
<1>41. CASE MqBreak
    BY <1>41 DEF MqBreak
<1>42. CASE ProcessDies
    BY <1>42 DEF ProcessDies
<1>43. CASE Restart
    BY <1>43 DEF Restart
<1>44. CASE UNCHANGED vars
    BY <1>44
<1>45. QED
    BY <1>1, <1>2, <1>3, <1>4, <1>5, <1>6, <1>7, <1>8, <1>9, <1>10, <1>11, <1>12, <1>13,
       <1>14, <1>15, <1>16, <1>17, <1>18, <1>19, <1>20, <1>21, <1>22, <1>23, <1>24, <1>25,
       <1>26, <1>27, <1>28, <1>29, <1>30, <1>31, <1>32, <1>33, <1>34, <1>35, <1>36, <1>37,
       <1>38, <1>39, <1>40, <1>41, <1>42, <1>43, <1>44
       DEF Next, InboxStep, OutboxStep, DepositStep, OpeningStep, Crash, DanglingDeath

LEMMA VerdictTypeStep == TypeOK /\ [Next]_vars => (success \in BOOLEAN)'
<1> SUFFICES ASSUME TypeOK, [Next]_vars PROVE (success \in BOOLEAN)'
    OBVIOUS
<1> USE DEF TypeOK
<1>1. ASSUME NEW m \in Messages, Deliver(m) PROVE (success \in BOOLEAN)'
    BY <1>1 DEF Deliver
<1>2. ASSUME NEW m \in Messages, InboxTake(m) PROVE (success \in BOOLEAN)'
    BY <1>2 DEF InboxTake
<1>3. CASE InboxCheck
    BY <1>3 DEF InboxCheck
<1>4. CASE InboxBegin
    BY <1>4 DEF InboxBegin
<1>5. CASE InboxInsert
    BY <1>5 DEF InboxInsert
<1>6. CASE PayQuery
    BY <1>6 DEF PayQuery
<1>7. CASE PayRead
    BY <1>7 DEF PayRead
<1>8. CASE PayBegin
    BY <1>8 DEF PayBegin
<1>9. CASE PayUpdate
    BY <1>9 DEF PayUpdate
<1>10. CASE PayCommit
    BY <1>10 DEF PayCommit
<1>11. CASE PayDbCommit
    BY <1>11 DEF PayDbCommit
<1>12. CASE PayAbort
    BY <1>12 DEF PayAbort
<1>13. CASE PayDbRollback
    BY <1>13 DEF PayDbRollback
<1>14. CASE PayReset
    BY <1>14 DEF PayReset
<1>15. CASE InboxUpdate
    BY <1>15 DEF InboxUpdate
<1>16. CASE InboxResult
    BY <1>16 DEF InboxResult
<1>17. CASE InboxCommit
    BY <1>17 DEF InboxCommit
<1>18. CASE InboxDbCommit
    BY <1>18 DEF InboxDbCommit
<1>19. CASE InboxReset
    BY <1>19 DEF InboxReset
<1>20. CASE PassBegin
    BY <1>20 DEF PassBegin
<1>21. CASE SelectPending
    BY <1>21 DEF SelectPending
<1>22. CASE Publish
    BY <1>22 DEF Publish
<1>23. CASE MarkProcessed
    BY <1>23 DEF MarkProcessed
<1>24. CASE PassCommit
    BY <1>24 DEF PassCommit
<1>25. CASE PassDbCommit
    BY <1>25 DEF PassDbCommit
<1>26. CASE PassReset
    BY <1>26 DEF PassReset
<1>27. ASSUME NEW d \in Deposits, DepositBegin(d) PROVE (success \in BOOLEAN)'
    BY <1>27 DEF DepositBegin
<1>28. ASSUME NEW d \in Deposits, DepositUpdate(d) PROVE (success \in BOOLEAN)'
    BY <1>28 DEF DepositUpdate
<1>29. ASSUME NEW d \in Deposits, DepositCommit(d) PROVE (success \in BOOLEAN)'
    BY <1>29 DEF DepositCommit
<1>30. ASSUME NEW d \in Deposits, DepositDbCommit(d) PROVE (success \in BOOLEAN)'
    BY <1>30 DEF DepositDbCommit
<1>31. ASSUME NEW d \in Deposits, DepositAbort(d) PROVE (success \in BOOLEAN)'
    BY <1>31 DEF DepositAbort
<1>32. ASSUME NEW d \in Deposits, DepositDbRollback(d) PROVE (success \in BOOLEAN)'
    BY <1>32 DEF DepositDbRollback
<1>33. ASSUME NEW d \in Deposits, DepositReset(d) PROVE (success \in BOOLEAN)'
    BY <1>33 DEF DepositReset
<1>34. ASSUME NEW q \in Openings \cup Readers, QueryBegin(q) PROVE (success \in BOOLEAN)'
    BY <1>34 DEF QueryBegin
<1>35. ASSUME NEW q \in Openings \cup Readers, QueryRefused(q) PROVE (success \in BOOLEAN)'
    BY <1>35 DEF QueryRefused
<1>36. ASSUME NEW q \in Openings \cup Readers, QueryFault(q) PROVE (success \in BOOLEAN)'
    BY <1>36 DEF QueryFault
<1>37. ASSUME NEW c \in Openings, OpeningLookup(c) PROVE (success \in BOOLEAN)'
    BY <1>37 DEF OpeningLookup
<1>38. ASSUME NEW c \in Openings, OpeningInsert(c) PROVE (success \in BOOLEAN)'
    BY <1>38 DEF OpeningInsert
<1>39. ASSUME NEW c \in Openings, OpeningRead(c) PROVE (success \in BOOLEAN)'
    BY <1>39 DEF OpeningRead
<1>40. ASSUME NEW g \in Readers, ReaderRead(g) PROVE (success \in BOOLEAN)'
    BY <1>40 DEF ReaderRead
<1>41. CASE MqBreak
    BY <1>41 DEF MqBreak
<1>42. CASE ProcessDies
    BY <1>42 DEF ProcessDies
<1>43. CASE Restart
    BY <1>43 DEF Restart
<1>44. CASE UNCHANGED vars
    BY <1>44
<1>45. QED
    BY <1>1, <1>2, <1>3, <1>4, <1>5, <1>6, <1>7, <1>8, <1>9, <1>10, <1>11, <1>12, <1>13,
       <1>14, <1>15, <1>16, <1>17, <1>18, <1>19, <1>20, <1>21, <1>22, <1>23, <1>24, <1>25,
       <1>26, <1>27, <1>28, <1>29, <1>30, <1>31, <1>32, <1>33, <1>34, <1>35, <1>36, <1>37,
       <1>38, <1>39, <1>40, <1>41, <1>42, <1>43, <1>44
       DEF Next, InboxStep, OutboxStep, DepositStep, OpeningStep, Crash, DanglingDeath

LEMMA OwnerStep == TypeOK /\ OwnerInv /\ [Next]_vars => OwnerInv'
<1> SUFFICES ASSUME TypeOK /\ OwnerInv, [Next]_vars PROVE OwnerInv'
    OBVIOUS
<1> USE ThreadKinds DEF TypeOK, ThreadsType, OwnerInv, Holds, InboxInside, Paying, InboxType, OutboxType
<1>1. ASSUME NEW m \in Messages, Deliver(m) PROVE OwnerInv'
    BY <1>1 DEF Deliver
<1>2. ASSUME NEW m \in Messages, InboxTake(m) PROVE OwnerInv'
    BY <1>2 DEF InboxTake
<1>3. CASE InboxCheck
    BY <1>3 DEF InboxCheck
<1>4. CASE InboxBegin
    BY <1>4 DEF InboxBegin
<1>5. CASE InboxInsert
    BY <1>5 DEF InboxInsert
<1>6. CASE PayQuery
    BY <1>6 DEF PayQuery
<1>7. CASE PayRead
    BY <1>7 DEF PayRead
<1>8. CASE PayBegin
    BY <1>8 DEF PayBegin
<1>9. CASE PayUpdate
    BY <1>9 DEF PayUpdate
<1>10. CASE PayCommit
    BY <1>10 DEF PayCommit
<1>11. CASE PayDbCommit
    BY <1>11 DEF PayDbCommit
<1>12. CASE PayAbort
    BY <1>12 DEF PayAbort
<1>13. CASE PayDbRollback
    BY <1>13 DEF PayDbRollback
<1>14. CASE PayReset
    BY <1>14 DEF PayReset
<1>15. CASE InboxUpdate
    BY <1>15 DEF InboxUpdate
<1>16. CASE InboxResult
    BY <1>16 DEF InboxResult
<1>17. CASE InboxCommit
    BY <1>17 DEF InboxCommit
<1>18. CASE InboxDbCommit
    BY <1>18 DEF InboxDbCommit
<1>19. CASE InboxReset
    BY <1>19 DEF InboxReset
<1>20. CASE PassBegin
    BY <1>20 DEF PassBegin
<1>21. CASE SelectPending
    BY <1>21 DEF SelectPending
<1>22. CASE Publish
    BY <1>22 DEF Publish
<1>23. CASE MarkProcessed
    BY <1>23 DEF MarkProcessed
<1>24. CASE PassCommit
    BY <1>24 DEF PassCommit
<1>25. CASE PassDbCommit
    BY <1>25 DEF PassDbCommit
<1>26. CASE PassReset
    BY <1>26 DEF PassReset
<1>27. ASSUME NEW d \in Deposits, DepositBegin(d) PROVE OwnerInv'
    BY <1>27 DEF DepositBegin
<1>28. ASSUME NEW d \in Deposits, DepositUpdate(d) PROVE OwnerInv'
    BY <1>28 DEF DepositUpdate
<1>29. ASSUME NEW d \in Deposits, DepositCommit(d) PROVE OwnerInv'
    BY <1>29 DEF DepositCommit
<1>30. ASSUME NEW d \in Deposits, DepositDbCommit(d) PROVE OwnerInv'
    <2> SUFFICES ASSUME ~raced' PROVE OwnerInv'
        OBVIOUS
    <2>1. pc'[d] \in {"done", "reset"} /\ \A t \in Threads \ {d} : pc'[t] = pc[t]
        BY <1>30 DEF DepositDbCommit
    <2>2. ~raced /\ (slot \in {d, Nobody} \/ state = "committed")
        BY <1>30 DEF DepositDbCommit
    <2>3. \A t \in Threads \ {d} : ~Holds(t)
        BY <2>2
    <2>4. pc'[Inbox] \notin InboxInside \cup Paying
        BY <2>1, <2>2, <2>3
    <2>5. pc'[Outbox] \notin {"select", "publish", "mark"}
        BY <2>1, <2>2, <2>3
    <2>6. ASSUME NEW e \in Deposits PROVE pc'[e] \notin {"update", "commit", "abort"}
        BY <2>1, <2>2, <2>3
    <2>7. QED
        BY <2>4, <2>5, <2>6
<1>31. ASSUME NEW d \in Deposits, DepositAbort(d) PROVE OwnerInv'
    BY <1>31 DEF DepositAbort
<1>32. ASSUME NEW d \in Deposits, DepositDbRollback(d) PROVE OwnerInv'
    <2> SUFFICES ASSUME ~raced' PROVE OwnerInv'
        OBVIOUS
    <2>1. pc'[d] \in {"done", "undo"} /\ \A t \in Threads \ {d} : pc'[t] = pc[t]
        BY <1>32 DEF DepositDbRollback
    <2>2. ~raced /\ (slot \in {d, Nobody} \/ state = "committed")
        BY <1>32 DEF DepositDbRollback
    <2>3. \A t \in Threads \ {d} : ~Holds(t)
        BY <2>2
    <2>4. pc'[Inbox] \notin InboxInside \cup Paying
        BY <2>1, <2>2, <2>3
    <2>5. pc'[Outbox] \notin {"select", "publish", "mark"}
        BY <2>1, <2>2, <2>3
    <2>6. ASSUME NEW e \in Deposits PROVE pc'[e] \notin {"update", "commit", "abort"}
        BY <2>1, <2>2, <2>3
    <2>7. QED
        BY <2>4, <2>5, <2>6
<1>33. ASSUME NEW d \in Deposits, DepositReset(d) PROVE OwnerInv'
    BY <1>33 DEF DepositReset
<1>34. ASSUME NEW q \in Openings \cup Readers, QueryBegin(q) PROVE OwnerInv'
    BY <1>34 DEF QueryBegin
<1>35. ASSUME NEW q \in Openings \cup Readers, QueryRefused(q) PROVE OwnerInv'
    BY <1>35 DEF QueryRefused
<1>36. ASSUME NEW q \in Openings \cup Readers, QueryFault(q) PROVE OwnerInv'
    BY <1>36 DEF QueryFault
<1>37. ASSUME NEW c \in Openings, OpeningLookup(c) PROVE OwnerInv'
    BY <1>37 DEF OpeningLookup
<1>38. ASSUME NEW c \in Openings, OpeningInsert(c) PROVE OwnerInv'
    BY <1>38 DEF OpeningInsert
<1>39. ASSUME NEW c \in Openings, OpeningRead(c) PROVE OwnerInv'
    BY <1>39 DEF OpeningRead
<1>40. ASSUME NEW g \in Readers, ReaderRead(g) PROVE OwnerInv'
    BY <1>40 DEF ReaderRead
<1>41. CASE MqBreak
    BY <1>41 DEF MqBreak
<1>42. CASE ProcessDies
    BY <1>42 DEF ProcessDies
<1>43. CASE Restart
    BY <1>43 DEF Restart
<1>44. CASE UNCHANGED vars
    BY <1>44
<1>45. QED
    BY <1>1, <1>2, <1>3, <1>4, <1>5, <1>6, <1>7, <1>8, <1>9, <1>10, <1>11, <1>12, <1>13,
       <1>14, <1>15, <1>16, <1>17, <1>18, <1>19, <1>20, <1>21, <1>22, <1>23, <1>24, <1>25,
       <1>26, <1>27, <1>28, <1>29, <1>30, <1>31, <1>32, <1>33, <1>34, <1>35, <1>36, <1>37,
       <1>38, <1>39, <1>40, <1>41, <1>42, <1>43, <1>44
       DEF Next, InboxStep, OutboxStep, DepositStep, OpeningStep, Crash, DanglingDeath

LEMMA VerdictStep == TypeOK /\ OwnerInv /\ VerdictInv /\ [Next]_vars => VerdictInv'
<1> SUFFICES ASSUME TypeOK /\ OwnerInv /\ VerdictInv, [Next]_vars PROVE VerdictInv'
    OBVIOUS
<1> USE ThreadKinds DEF TypeOK, ThreadsType, TablesType, Tables, InboxType, OutboxType, VerdictInv, OwnerInv, Paying
<1>1. ASSUME NEW m \in Messages, Deliver(m) PROVE VerdictInv'
    BY <1>1 DEF Deliver
<1>2. ASSUME NEW m \in Messages, InboxTake(m) PROVE VerdictInv'
    BY <1>2 DEF InboxTake
<1>3. CASE InboxCheck
    BY <1>3 DEF InboxCheck
<1>4. CASE InboxBegin
    BY <1>4 DEF InboxBegin
<1>5. CASE InboxInsert
    BY <1>5 DEF InboxInsert
<1>6. CASE PayQuery
    BY <1>6 DEF PayQuery
<1>7. CASE PayRead
    BY <1>7 DEF PayRead
<1>8. CASE PayBegin
    BY <1>8 DEF PayBegin
<1>9. CASE PayUpdate
    BY <1>9 DEF PayUpdate
<1>10. CASE PayCommit
    BY <1>10 DEF PayCommit
<1>11. CASE PayDbCommit
    <2> SUFFICES ASSUME ~raced' PROVE VerdictInv'
        OBVIOUS
    <2>1. ~raced /\ success' = FALSE
        BY <1>11 DEF PayDbCommit
    <2>2. db' \in {db, tx} /\ tx' \in {db, tx}
        BY <1>11 DEF PayDbCommit
    <2>3. QED
        BY <2>1, <2>2
<1>12. CASE PayAbort
    BY <1>12 DEF PayAbort
<1>13. CASE PayDbRollback
    <2> SUFFICES ASSUME ~raced' PROVE VerdictInv'
        OBVIOUS
    <2>1. ~raced /\ success' = FALSE
        BY <1>13 DEF PayDbRollback
    <2>2. db' \in {db, tx} /\ tx' \in {db, tx}
        BY <1>13 DEF PayDbRollback
    <2>3. QED
        BY <2>1, <2>2
<1>14. CASE PayReset
    <2> SUFFICES ASSUME ~raced' PROVE VerdictInv'
        OBVIOUS
    <2>1. ~raced /\ success' = FALSE
        BY <1>14 DEF PayReset
    <2>2. db' \in {db, tx} /\ tx' \in {db, tx}
        BY <1>14 DEF PayReset
    <2>3. QED
        BY <2>1, <2>2
<1>15. CASE InboxUpdate
    BY <1>15 DEF InboxUpdate
<1>16. CASE InboxResult
    <2> SUFFICES ASSUME ~raced' PROVE VerdictInv'
        OBVIOUS
    <2>1. ~raced /\ success = FALSE /\ db' = db /\ msg \in Messages
        BY <1>16 DEF InboxResult
    <2>2. success' = FALSE
        BY <1>16, <2>1 DEF InboxResult
    <2>3. \/ tx' = [tx EXCEPT !.event[msg] = "PENDING", !.verdict[msg] = success]
          \/ tx' = tx
          \/ tx' = db
        BY <1>16 DEF InboxResult
    <2>4. tx'.debits = {} /\ \A m \in Messages : tx'.verdict[m] = FALSE
        <3>1. CASE tx' = [tx EXCEPT !.event[msg] = "PENDING", !.verdict[msg] = success]
            <4>1. tx'.verdict = [tx.verdict EXCEPT ![msg] = success] /\ tx'.debits = tx.debits
                BY <3>1
            <4>2. QED
                BY <4>1, <2>1
        <3>2. CASE tx' = tx \/ tx' = db
            BY <3>2, <2>1
        <3>3. QED
            BY <2>3, <3>1, <3>2
    <2>5. QED
        BY <2>1, <2>2, <2>3, <2>4
<1>17. CASE InboxCommit
    BY <1>17 DEF InboxCommit
<1>18. CASE InboxDbCommit
    <2> SUFFICES ASSUME ~raced' PROVE VerdictInv'
        OBVIOUS
    <2>1. ~raced /\ success' = FALSE
        BY <1>18 DEF InboxDbCommit
    <2>2. db' \in {db, tx} /\ tx' \in {db, tx}
        BY <1>18 DEF InboxDbCommit
    <2>3. QED
        BY <2>1, <2>2
<1>19. CASE InboxReset
    <2> SUFFICES ASSUME ~raced' PROVE VerdictInv'
        OBVIOUS
    <2>1. ~raced /\ success' = FALSE
        BY <1>19 DEF InboxReset
    <2>2. db' \in {db, tx} /\ tx' \in {db, tx}
        BY <1>19 DEF InboxReset
    <2>3. QED
        BY <2>1, <2>2
<1>20. CASE PassBegin
    BY <1>20 DEF PassBegin
<1>21. CASE SelectPending
    BY <1>21 DEF SelectPending
<1>22. CASE Publish
    BY <1>22 DEF Publish
<1>23. CASE MarkProcessed
    BY <1>23 DEF MarkProcessed
<1>24. CASE PassCommit
    BY <1>24 DEF PassCommit
<1>25. CASE PassDbCommit
    <2> SUFFICES ASSUME ~raced' PROVE VerdictInv'
        OBVIOUS
    <2>1. ~raced /\ success' = FALSE
        BY <1>25 DEF PassDbCommit
    <2>2. db' \in {db, tx} /\ tx' \in {db, tx}
        BY <1>25 DEF PassDbCommit
    <2>3. QED
        BY <2>1, <2>2
<1>26. CASE PassReset
    <2> SUFFICES ASSUME ~raced' PROVE VerdictInv'
        OBVIOUS
    <2>1. ~raced /\ success' = FALSE
        BY <1>26 DEF PassReset
    <2>2. db' \in {db, tx} /\ tx' \in {db, tx}
        BY <1>26 DEF PassReset
    <2>3. QED
        BY <2>1, <2>2
<1>27. ASSUME NEW d \in Deposits, DepositBegin(d) PROVE VerdictInv'
    BY <1>27 DEF DepositBegin
<1>28. ASSUME NEW d \in Deposits, DepositUpdate(d) PROVE VerdictInv'
    <2>1. raced' = raced /\ success' = success /\ db' = db
        BY <1>28 DEF DepositUpdate
    <2> DEFINE u == Deposit(d).user
               new == [tx EXCEPT !.balance[u] = tx.balance[u] + Deposit(d).amount,
                                 !.version[u] = tx.version[u] + 1,
                                 !.credits = tx.credits \cup {d}]
    <2>2. tx' = new \/ tx' = tx \/ tx' = db
        BY <1>28 DEF DepositUpdate
    <2>3. new.debits = tx.debits /\ new.verdict = tx.verdict
        OBVIOUS
    <2> HIDE DEF new
    <2>4. QED
        BY <2>1, <2>2, <2>3
<1>29. ASSUME NEW d \in Deposits, DepositCommit(d) PROVE VerdictInv'
    BY <1>29 DEF DepositCommit
<1>30. ASSUME NEW d \in Deposits, DepositDbCommit(d) PROVE VerdictInv'
    <2> SUFFICES ASSUME ~raced' PROVE VerdictInv'
        OBVIOUS
    <2>1. ~raced /\ success' = FALSE
        BY <1>30 DEF DepositDbCommit
    <2>2. db' \in {db, tx} /\ tx' \in {db, tx}
        BY <1>30 DEF DepositDbCommit
    <2>3. QED
        BY <2>1, <2>2
<1>31. ASSUME NEW d \in Deposits, DepositAbort(d) PROVE VerdictInv'
    BY <1>31 DEF DepositAbort
<1>32. ASSUME NEW d \in Deposits, DepositDbRollback(d) PROVE VerdictInv'
    <2> SUFFICES ASSUME ~raced' PROVE VerdictInv'
        OBVIOUS
    <2>1. ~raced /\ success' = FALSE
        BY <1>32 DEF DepositDbRollback
    <2>2. db' \in {db, tx} /\ tx' \in {db, tx}
        BY <1>32 DEF DepositDbRollback
    <2>3. QED
        BY <2>1, <2>2
<1>33. ASSUME NEW d \in Deposits, DepositReset(d) PROVE VerdictInv'
    <2> SUFFICES ASSUME ~raced' PROVE VerdictInv'
        OBVIOUS
    <2>1. ~raced /\ success' = FALSE
        BY <1>33 DEF DepositReset
    <2>2. db' \in {db, tx} /\ tx' \in {db, tx}
        BY <1>33 DEF DepositReset
    <2>3. QED
        BY <2>1, <2>2
<1>34. ASSUME NEW q \in Openings \cup Readers, QueryBegin(q) PROVE VerdictInv'
    BY <1>34 DEF QueryBegin
<1>35. ASSUME NEW q \in Openings \cup Readers, QueryRefused(q) PROVE VerdictInv'
    BY <1>35 DEF QueryRefused
<1>36. ASSUME NEW q \in Openings \cup Readers, QueryFault(q) PROVE VerdictInv'
    BY <1>36 DEF QueryFault
<1>37. ASSUME NEW c \in Openings, OpeningLookup(c) PROVE VerdictInv'
    BY <1>37 DEF OpeningLookup
<1>38. ASSUME NEW c \in Openings, OpeningInsert(c) PROVE VerdictInv'
    BY <1>38 DEF OpeningInsert
<1>39. ASSUME NEW c \in Openings, OpeningRead(c) PROVE VerdictInv'
    BY <1>39 DEF OpeningRead
<1>40. ASSUME NEW g \in Readers, ReaderRead(g) PROVE VerdictInv'
    BY <1>40 DEF ReaderRead
<1>41. CASE MqBreak
    BY <1>41 DEF MqBreak
<1>42. CASE ProcessDies
    BY <1>42 DEF ProcessDies
<1>43. CASE Restart
    BY <1>43 DEF Restart
<1>44. CASE UNCHANGED vars
    BY <1>44
<1>45. QED
    BY <1>1, <1>2, <1>3, <1>4, <1>5, <1>6, <1>7, <1>8, <1>9, <1>10, <1>11, <1>12, <1>13,
       <1>14, <1>15, <1>16, <1>17, <1>18, <1>19, <1>20, <1>21, <1>22, <1>23, <1>24, <1>25,
       <1>26, <1>27, <1>28, <1>29, <1>30, <1>31, <1>32, <1>33, <1>34, <1>35, <1>36, <1>37,
       <1>38, <1>39, <1>40, <1>41, <1>42, <1>43, <1>44
       DEF Next, InboxStep, OutboxStep, DepositStep, OpeningStep, Crash, DanglingDeath

(* The invariant of PaymentsService.                                         *)
PaymentsInv == TypeOK /\ OwnerInv /\ VerdictInv

LEMMA PaymentsInvInit == Init => PaymentsInv
<1> SUFFICES ASSUME Init PROVE PaymentsInv
    OBVIOUS
<1> USE ThreadKinds DEF Init
<1>1. TypeOK
    BY TypeInit
<1>2. OwnerInv
    BY DEF OwnerInv, InboxInside, Paying
<1>3. VerdictInv
    BY DEF VerdictInv, EmptyTables
<1>4. QED
    BY <1>1, <1>2, <1>3 DEF PaymentsInv

LEMMA PaymentsInvStep == PaymentsInv /\ [Next]_vars => PaymentsInv'
<1> SUFFICES ASSUME PaymentsInv, [Next]_vars PROVE PaymentsInv'
    OBVIOUS
<1>1. TypeOK'
    <2>1. TypeOK
        BY DEF PaymentsInv
    <2> HIDE DEF vars
    <2>2. ThreadsType' /\ RepliesType' /\ ConnectionType' /\ TablesType'
        BY <2>1, ThreadsTypeStep, RepliesTypeStep, ConnectionTypeStep, TablesTypeStep
    <2>3. InboxType' /\ OutboxType' /\ ScalarsType' /\ (success \in BOOLEAN)'
        BY <2>1, InboxTypeStep, OutboxTypeStep, ScalarsTypeStep, VerdictTypeStep
    <2>4. QED
        BY <2>2, <2>3 DEF TypeOK
<1> HIDE DEF vars
<1>2. OwnerInv'
    BY OwnerStep DEF PaymentsInv
<1>3. VerdictInv'
    BY VerdictStep DEF PaymentsInv
<1>4. QED
    BY <1>1, <1>2, <1>3 DEF PaymentsInv

LEMMA PaymentsInvariant == Spec => []PaymentsInv
BY PaymentsInvInit, PaymentsInvStep, PTL DEF Spec

-----------------------------------------------------------------------------
(* The threads and requests of the payments service keep to their own steps, *)
(* tables and statuses, whatever the threads do to each other's transactions.*)
THEOREM TypeCorrect == Spec => []TypeOK
<1>1. PaymentsInv => TypeOK
    BY DEF PaymentsInv
<1>2. QED
    BY <1>1, PaymentsInvariant, PTL

(* No reference to a transaction object dangles before a thread has ended    *)
(* another thread's transaction: the second call of commit() and rollback()  *)
(* is the only way to a use after free.                                      *)
THEOREM NoDanglingReference == Spec => []ReferencesValid
<1>1. PaymentsInv => ReferencesValid
    <2> SUFFICES ASSUME PaymentsInv, ~raced, NEW t \in Threads
                 PROVE  InUse(t) \in {Nobody, slot}
        BY DEF ReferencesValid
    <2>1. /\ pc[Inbox] \in InboxInside => slot = Inbox
          /\ pc[Inbox] \in InboxSteps \ Paying
          /\ pc[Outbox] \in OutboxSteps
          /\ pc[Outbox] \in {"select", "publish", "mark"} => slot = Outbox
          /\ \A d \in Deposits : pc[d] \in {"update", "commit", "abort"} => slot = d
          /\ \A d \in Deposits : pc[d] \in DepositSteps
          /\ \A q \in Openings \cup Readers : pc[q] \in QuerySteps
        BY DEF PaymentsInv, TypeOK, ThreadsType, OwnerInv, Holds
    <2>2. CASE t = Inbox
        BY <2>1, <2>2, ThreadKinds DEF InUse, InboxInside, InboxSteps, Paying
    <2>3. CASE t = Outbox
        BY <2>1, <2>3, ThreadKinds DEF InUse, OutboxSteps
    <2>4. CASE t \in Deposits
        BY <2>1, <2>4, ThreadKinds DEF InUse, DepositSteps, HttpThreads
    <2>5. CASE t \in Openings \cup Readers
        BY <2>1, <2>5, ThreadKinds DEF InUse, QuerySteps, HttpThreads
    <2>6. QED
        BY <2>2, <2>3, <2>4, <2>5 DEF Threads
<1>2. QED
    BY <1>1, PaymentsInvariant, PTL

(* process_payment never debits an account and never returns TRUE while the  *)
(* inbox thread's transaction is its own, for every load, balance and        *)
(* interleaving.                                                             *)
THEOREM PaymentsFail == Spec => []NoPaymentSucceeds
<1>1. PaymentsInv => NoPaymentSucceeds
    BY DEF PaymentsInv, VerdictInv, NoPaymentSucceeds
<1>2. QED
    BY <1>1, PaymentsInvariant, PTL

-----------------------------------------------------------------------------
(* A registered transaction that nobody will end.                            *)

OrphanStep == Orphaned /\ up' => UNCHANGED <<slot, state, db, published, lost>>

LEMMA OrphanStaysStep == TypeOK /\ [Next]_vars => OrphanStep
<1> SUFFICES ASSUME TypeOK, Orphaned, up', [Next]_vars
             PROVE  UNCHANGED <<slot, state, db, published, lost>>
    BY DEF OrphanStep
<1> USE ThreadKinds DEF TypeOK, ThreadsType, Orphaned
<1>1. ASSUME NEW m \in Messages, Deliver(m) PROVE UNCHANGED <<slot, state, db, published, lost>>
    BY <1>1 DEF Deliver
<1>2. ASSUME NEW m \in Messages, InboxTake(m) PROVE UNCHANGED <<slot, state, db, published, lost>>
    BY <1>2 DEF InboxTake
<1>3. CASE InboxCheck
    BY <1>3 DEF InboxCheck
<1>4. CASE InboxBegin
    BY <1>4 DEF InboxBegin
<1>5. CASE InboxInsert
    BY <1>5 DEF InboxInsert
<1>6. CASE PayQuery
    BY <1>6 DEF PayQuery
<1>7. CASE PayRead
    BY <1>7 DEF PayRead
<1>8. CASE PayBegin
    BY <1>8 DEF PayBegin
<1>9. CASE PayUpdate
    BY <1>9 DEF PayUpdate
<1>10. CASE PayCommit
    BY <1>10 DEF PayCommit
<1>11. CASE PayDbCommit
    BY <1>11 DEF PayDbCommit
<1>12. CASE PayAbort
    BY <1>12 DEF PayAbort
<1>13. CASE PayDbRollback
    BY <1>13 DEF PayDbRollback
<1>14. CASE PayReset
    BY <1>14 DEF PayReset
<1>15. CASE InboxUpdate
    BY <1>15 DEF InboxUpdate
<1>16. CASE InboxResult
    BY <1>16 DEF InboxResult
<1>17. CASE InboxCommit
    BY <1>17 DEF InboxCommit
<1>18. CASE InboxDbCommit
    BY <1>18 DEF InboxDbCommit
<1>19. CASE InboxReset
    BY <1>19 DEF InboxReset
<1>20. CASE PassBegin
    BY <1>20 DEF PassBegin
<1>21. CASE SelectPending
    BY <1>21 DEF SelectPending
<1>22. CASE Publish
    BY <1>22 DEF Publish
<1>23. CASE MarkProcessed
    BY <1>23 DEF MarkProcessed
<1>24. CASE PassCommit
    BY <1>24 DEF PassCommit
<1>25. CASE PassDbCommit
    BY <1>25 DEF PassDbCommit
<1>26. CASE PassReset
    BY <1>26 DEF PassReset
<1>27. ASSUME NEW d \in Deposits, DepositBegin(d) PROVE UNCHANGED <<slot, state, db, published, lost>>
    BY <1>27 DEF DepositBegin
<1>28. ASSUME NEW d \in Deposits, DepositUpdate(d) PROVE UNCHANGED <<slot, state, db, published, lost>>
    BY <1>28 DEF DepositUpdate
<1>29. ASSUME NEW d \in Deposits, DepositCommit(d) PROVE UNCHANGED <<slot, state, db, published, lost>>
    BY <1>29 DEF DepositCommit
<1>30. ASSUME NEW d \in Deposits, DepositDbCommit(d) PROVE UNCHANGED <<slot, state, db, published, lost>>
    BY <1>30 DEF DepositDbCommit
<1>31. ASSUME NEW d \in Deposits, DepositAbort(d) PROVE UNCHANGED <<slot, state, db, published, lost>>
    BY <1>31 DEF DepositAbort
<1>32. ASSUME NEW d \in Deposits, DepositDbRollback(d) PROVE UNCHANGED <<slot, state, db, published, lost>>
    BY <1>32 DEF DepositDbRollback
<1>33. ASSUME NEW d \in Deposits, DepositReset(d) PROVE UNCHANGED <<slot, state, db, published, lost>>
    BY <1>33 DEF DepositReset
<1>34. ASSUME NEW q \in Openings \cup Readers, QueryBegin(q) PROVE UNCHANGED <<slot, state, db, published, lost>>
    BY <1>34 DEF QueryBegin
<1>35. ASSUME NEW q \in Openings \cup Readers, QueryRefused(q) PROVE UNCHANGED <<slot, state, db, published, lost>>
    BY <1>35 DEF QueryRefused
<1>36. ASSUME NEW q \in Openings \cup Readers, QueryFault(q) PROVE UNCHANGED <<slot, state, db, published, lost>>
    BY <1>36 DEF QueryFault
<1>37. ASSUME NEW c \in Openings, OpeningLookup(c) PROVE UNCHANGED <<slot, state, db, published, lost>>
    BY <1>37 DEF OpeningLookup
<1>38. ASSUME NEW c \in Openings, OpeningInsert(c) PROVE UNCHANGED <<slot, state, db, published, lost>>
    BY <1>38 DEF OpeningInsert
<1>39. ASSUME NEW c \in Openings, OpeningRead(c) PROVE UNCHANGED <<slot, state, db, published, lost>>
    BY <1>39 DEF OpeningRead
<1>40. ASSUME NEW g \in Readers, ReaderRead(g) PROVE UNCHANGED <<slot, state, db, published, lost>>
    BY <1>40 DEF ReaderRead
<1>41. CASE MqBreak
    BY <1>41 DEF MqBreak
<1>42. CASE ProcessDies
    BY <1>42 DEF ProcessDies
<1>43. CASE Restart
    BY <1>43 DEF Restart
<1>44. CASE UNCHANGED vars
    BY <1>44
<1>45. QED
    BY <1>1, <1>2, <1>3, <1>4, <1>5, <1>6, <1>7, <1>8, <1>9, <1>10, <1>11, <1>12, <1>13,
       <1>14, <1>15, <1>16, <1>17, <1>18, <1>19, <1>20, <1>21, <1>22, <1>23, <1>24, <1>25,
       <1>26, <1>27, <1>28, <1>29, <1>30, <1>31, <1>32, <1>33, <1>34, <1>35, <1>36, <1>37,
       <1>38, <1>39, <1>40, <1>41, <1>42, <1>43, <1>44
       DEF Next, InboxStep, OutboxStep, DepositStep, OpeningStep, Crash, DanglingDeath

(* OrphanBlocksService: no thread that waits can take the connection back.   *)
THEOREM OrphanBlocks == Spec => OrphanBlocksService
<1>1. PaymentsInv => TypeOK
    BY DEF PaymentsInv
<1>2. QED
    BY <1>1, OrphanStaysStep, PaymentsInvariant, PTL DEF Spec, OrphanBlocksService, OrphanStep

-----------------------------------------------------------------------------
(* Events.                                                                   *)

SameEvents(a, b) == a.event = b.event /\ a.verdict = b.verdict

(* A step that touches no event: the open transaction may be the one that    *)
(* is committed, or be given up.                                             *)
EventsQuiet ==
    \/ SameEvents(db', db) /\ SameEvents(tx', tx)
    \/ SameEvents(db', db) /\ SameEvents(tx', db)
    \/ SameEvents(db', tx) /\ SameEvents(tx', tx)

ResultInserted ==
    /\ InboxResult
    /\ pc' = [pc EXCEPT ![Inbox] = "commit"]
    /\ db' = db
    /\ tx'.event = [tx.event EXCEPT ![msg] = "PENDING"]
    /\ tx'.verdict = [tx.verdict EXCEPT ![msg] = success]

EventMarked ==
    /\ MarkProcessed
    /\ db' = db
    /\ tx.event[current] # "none"
    /\ tx'.event = [tx.event EXCEPT ![current] = "PROCESSED"]
    /\ tx'.verdict = tx.verdict

LEMMA EventsStep == TypeOK /\ [Next]_vars => EventsQuiet \/ ResultInserted \/ EventMarked
<1> SUFFICES ASSUME TypeOK, [Next]_vars PROVE EventsQuiet \/ ResultInserted \/ EventMarked
    OBVIOUS
<1> USE DEF EventsQuiet, SameEvents
<1>1. ASSUME NEW m \in Messages, Deliver(m) PROVE EventsQuiet \/ ResultInserted \/ EventMarked
    BY <1>1 DEF Deliver
<1>2. ASSUME NEW m \in Messages, InboxTake(m) PROVE EventsQuiet \/ ResultInserted \/ EventMarked
    BY <1>2 DEF InboxTake
<1>3. CASE InboxCheck
    BY <1>3 DEF InboxCheck
<1>4. CASE InboxBegin
    BY <1>4 DEF InboxBegin
<1>5. CASE InboxInsert
    <2> DEFINE new == [tx EXCEPT !.inbox[order] = "PENDING"]
    <2>1. SameEvents(new, tx)
        OBVIOUS
    <2> HIDE DEF new
    <2>2. db' = db /\ tx' \in {new, tx, db}
        BY <1>5 DEF InboxInsert, new
    <2>3. QED
        BY <2>1, <2>2
<1>6. CASE PayQuery
    BY <1>6 DEF PayQuery
<1>7. CASE PayRead
    BY <1>7 DEF PayRead
<1>8. CASE PayBegin
    BY <1>8 DEF PayBegin
<1>9. CASE PayUpdate
    <2> DEFINE new == [tx EXCEPT !.balance[user] = tx.balance[user] - amount,
                                 !.version[user] = tx.version[user] + 1,
                                 !.debits = tx.debits \cup {msg}]
    <2>1. SameEvents(new, tx)
        OBVIOUS
    <2> HIDE DEF new
    <2>2. db' = db /\ tx' \in {new, tx, db}
        BY <1>9 DEF PayUpdate, new
    <2>3. QED
        BY <2>1, <2>2
<1>10. CASE PayCommit
    BY <1>10 DEF PayCommit
<1>11. CASE PayDbCommit
    BY <1>11 DEF PayDbCommit
<1>12. CASE PayAbort
    BY <1>12 DEF PayAbort
<1>13. CASE PayDbRollback
    BY <1>13 DEF PayDbRollback
<1>14. CASE PayReset
    BY <1>14 DEF PayReset
<1>15. CASE InboxUpdate
    <2> DEFINE new == [tx EXCEPT !.inbox[order] = IF success THEN "PROCESSED" ELSE "FAILED"]
    <2>1. SameEvents(new, tx)
        OBVIOUS
    <2> HIDE DEF new
    <2>2. db' = db /\ tx' \in {new, tx, db}
        BY <1>15 DEF InboxUpdate, new
    <2>3. QED
        BY <2>1, <2>2
<1>16. CASE InboxResult
    <2> DEFINE new == [tx EXCEPT !.event[msg] = "PENDING", !.verdict[msg] = success]
    <2>1. /\ new.event = [tx.event EXCEPT ![msg] = "PENDING"]
          /\ new.verdict = [tx.verdict EXCEPT ![msg] = success]
        OBVIOUS
    <2> HIDE DEF new
    <2>2. CASE tx' = new /\ db' = db /\ pc' = [pc EXCEPT ![Inbox] = "commit"]
        BY <1>16, <2>1, <2>2 DEF ResultInserted
    <2>3. CASE db' = db /\ tx' \in {tx, db}
        BY <2>3
    <2>4. QED
        BY <1>16, <2>2, <2>3 DEF InboxResult, new
<1>17. CASE InboxCommit
    BY <1>17 DEF InboxCommit
<1>18. CASE InboxDbCommit
    BY <1>18 DEF InboxDbCommit
<1>19. CASE InboxReset
    BY <1>19 DEF InboxReset
<1>20. CASE PassBegin
    BY <1>20 DEF PassBegin
<1>21. CASE SelectPending
    BY <1>21 DEF SelectPending
<1>22. CASE Publish
    BY <1>22 DEF Publish
<1>23. CASE MarkProcessed
    <2> DEFINE new == [tx EXCEPT !.event[current] = "PROCESSED"]
    <2>1. new.event = [tx.event EXCEPT ![current] = "PROCESSED"] /\ new.verdict = tx.verdict
        OBVIOUS
    <2> HIDE DEF new
    <2>2. CASE tx' = new /\ db' = db /\ tx.event[current] # "none"
        BY <1>23, <2>1, <2>2 DEF EventMarked
    <2>3. CASE db' = db /\ tx' \in {tx, db}
        BY <2>3
    <2>4. QED
        BY <1>23, <2>2, <2>3 DEF MarkProcessed, new
<1>24. CASE PassCommit
    BY <1>24 DEF PassCommit
<1>25. CASE PassDbCommit
    BY <1>25 DEF PassDbCommit
<1>26. CASE PassReset
    BY <1>26 DEF PassReset
<1>27. ASSUME NEW d \in Deposits, DepositBegin(d) PROVE EventsQuiet \/ ResultInserted \/ EventMarked
    BY <1>27 DEF DepositBegin
<1>28. ASSUME NEW d \in Deposits, DepositUpdate(d) PROVE EventsQuiet \/ ResultInserted \/ EventMarked
    <2> DEFINE u == Deposit(d).user
               new == [tx EXCEPT !.balance[u] = tx.balance[u] + Deposit(d).amount,
                                 !.version[u] = tx.version[u] + 1,
                                 !.credits = tx.credits \cup {d}]
    <2>1. SameEvents(new, tx)
        OBVIOUS
    <2> HIDE DEF new
    <2>2. db' = db /\ tx' \in {new, tx, db}
        BY <1>28 DEF DepositUpdate, new
    <2>3. QED
        BY <2>1, <2>2
<1>29. ASSUME NEW d \in Deposits, DepositCommit(d) PROVE EventsQuiet \/ ResultInserted \/ EventMarked
    BY <1>29 DEF DepositCommit
<1>30. ASSUME NEW d \in Deposits, DepositDbCommit(d) PROVE EventsQuiet \/ ResultInserted \/ EventMarked
    BY <1>30 DEF DepositDbCommit
<1>31. ASSUME NEW d \in Deposits, DepositAbort(d) PROVE EventsQuiet \/ ResultInserted \/ EventMarked
    BY <1>31 DEF DepositAbort
<1>32. ASSUME NEW d \in Deposits, DepositDbRollback(d) PROVE EventsQuiet \/ ResultInserted \/ EventMarked
    BY <1>32 DEF DepositDbRollback
<1>33. ASSUME NEW d \in Deposits, DepositReset(d) PROVE EventsQuiet \/ ResultInserted \/ EventMarked
    BY <1>33 DEF DepositReset
<1>34. ASSUME NEW q \in Openings \cup Readers, QueryBegin(q) PROVE EventsQuiet \/ ResultInserted \/ EventMarked
    BY <1>34 DEF QueryBegin
<1>35. ASSUME NEW q \in Openings \cup Readers, QueryRefused(q) PROVE EventsQuiet \/ ResultInserted \/ EventMarked
    BY <1>35 DEF QueryRefused
<1>36. ASSUME NEW q \in Openings \cup Readers, QueryFault(q) PROVE EventsQuiet \/ ResultInserted \/ EventMarked
    BY <1>36 DEF QueryFault
<1>37. ASSUME NEW c \in Openings, OpeningLookup(c) PROVE EventsQuiet \/ ResultInserted \/ EventMarked
    BY <1>37 DEF OpeningLookup
<1>38. ASSUME NEW c \in Openings, OpeningInsert(c) PROVE EventsQuiet \/ ResultInserted \/ EventMarked
    <2> DEFINE new == [db EXCEPT !.users = @ \cup {Owner(c)}]
    <2>1. SameEvents(new, db)
        OBVIOUS
    <2> HIDE DEF new
    <2>2. (db' = new /\ tx' = new) \/ (db' = db /\ tx' = tx)
        BY <1>38 DEF OpeningInsert, new
    <2>3. QED
        BY <2>1, <2>2
<1>39. ASSUME NEW c \in Openings, OpeningRead(c) PROVE EventsQuiet \/ ResultInserted \/ EventMarked
    BY <1>39 DEF OpeningRead
<1>40. ASSUME NEW g \in Readers, ReaderRead(g) PROVE EventsQuiet \/ ResultInserted \/ EventMarked
    BY <1>40 DEF ReaderRead
<1>41. CASE MqBreak
    BY <1>41 DEF MqBreak
<1>42. CASE ProcessDies
    BY <1>42 DEF ProcessDies
<1>43. CASE Restart
    BY <1>43 DEF Restart
<1>44. CASE UNCHANGED vars
    BY <1>44
<1>45. QED
    BY <1>1, <1>2, <1>3, <1>4, <1>5, <1>6, <1>7, <1>8, <1>9, <1>10, <1>11, <1>12, <1>13,
       <1>14, <1>15, <1>16, <1>17, <1>18, <1>19, <1>20, <1>21, <1>22, <1>23, <1>24, <1>25,
       <1>26, <1>27, <1>28, <1>29, <1>30, <1>31, <1>32, <1>33, <1>34, <1>35, <1>36, <1>37,
       <1>38, <1>39, <1>40, <1>41, <1>42, <1>43, <1>44
       DEF Next, InboxStep, OutboxStep, DepositStep, OpeningStep, Crash, DanglingDeath

(* A committed event is in the open transaction too, with its verdict.       *)
EventsKept ==
    \A m \in Messages :
        /\ db.event[m] # "none" => tx.event[m] # "none" /\ tx.verdict[m] = db.verdict[m]
        /\ db.event[m] = "PROCESSED" => tx.event[m] = "PROCESSED"

(* A message is handled once, and has no event before its handler wrote one. *)
HandledOnce ==
    /\ \A m \in Messages : mq[m] # "taken" => tx.event[m] = "none"
    /\ pc[Inbox] # "consume" => mq[msg] = "taken"
    /\ pc[Inbox] \notin {"consume", "commit", "dbCommit", "reset"} => tx.event[msg] = "none"

(* A result that is marked was published, or lost with the connection.       *)
Sent(m) == published[m] > 0 \/ m \in lost

MarkedWasSent ==
    /\ pc[Outbox] = "mark" => Sent(current)
    /\ \A m \in Messages : tx.event[m] = "PROCESSED" => Sent(m)

FinalInv == EventsKept /\ HandledOnce /\ MarkedWasSent

(* What a step does to messages that are handled.                            *)
TakenStep ==
    /\ \A m \in Messages : mq[m] = "taken" => mq'[m] = "taken"
    /\ pc'[Inbox] # "consume" =>
          \/ /\ msg' = msg /\ pc[Inbox] # "consume"
             /\ pc[Inbox] \in {"commit", "dbCommit", "reset"} => pc'[Inbox] \in {"commit", "dbCommit", "reset"}
          \/ msg' \in Messages /\ mq[msg'] = "buffered" /\ mq'[msg'] = "taken"

LEMMA TakenSteps == TypeOK /\ [Next]_vars => TakenStep
<1> SUFFICES ASSUME TypeOK, [Next]_vars PROVE TakenStep
    OBVIOUS
<1> USE ThreadKinds DEF TypeOK, ThreadsType, InboxType, TakenStep
<1>1. ASSUME NEW m \in Messages, Deliver(m) PROVE TakenStep
    BY <1>1 DEF Deliver
<1>2. ASSUME NEW m \in Messages, InboxTake(m) PROVE TakenStep
    BY <1>2 DEF InboxTake
<1>3. CASE InboxCheck
    BY <1>3 DEF InboxCheck
<1>4. CASE InboxBegin
    BY <1>4 DEF InboxBegin
<1>5. CASE InboxInsert
    BY <1>5 DEF InboxInsert
<1>6. CASE PayQuery
    BY <1>6 DEF PayQuery
<1>7. CASE PayRead
    BY <1>7 DEF PayRead
<1>8. CASE PayBegin
    BY <1>8 DEF PayBegin
<1>9. CASE PayUpdate
    BY <1>9 DEF PayUpdate
<1>10. CASE PayCommit
    BY <1>10 DEF PayCommit
<1>11. CASE PayDbCommit
    BY <1>11 DEF PayDbCommit
<1>12. CASE PayAbort
    BY <1>12 DEF PayAbort
<1>13. CASE PayDbRollback
    BY <1>13 DEF PayDbRollback
<1>14. CASE PayReset
    BY <1>14 DEF PayReset
<1>15. CASE InboxUpdate
    BY <1>15 DEF InboxUpdate
<1>16. CASE InboxResult
    BY <1>16 DEF InboxResult
<1>17. CASE InboxCommit
    BY <1>17 DEF InboxCommit
<1>18. CASE InboxDbCommit
    BY <1>18 DEF InboxDbCommit
<1>19. CASE InboxReset
    BY <1>19 DEF InboxReset
<1>20. CASE PassBegin
    BY <1>20 DEF PassBegin
<1>21. CASE SelectPending
    BY <1>21 DEF SelectPending
<1>22. CASE Publish
    BY <1>22 DEF Publish
<1>23. CASE MarkProcessed
    BY <1>23 DEF MarkProcessed
<1>24. CASE PassCommit
    BY <1>24 DEF PassCommit
<1>25. CASE PassDbCommit
    BY <1>25 DEF PassDbCommit
<1>26. CASE PassReset
    BY <1>26 DEF PassReset
<1>27. ASSUME NEW d \in Deposits, DepositBegin(d) PROVE TakenStep
    BY <1>27 DEF DepositBegin
<1>28. ASSUME NEW d \in Deposits, DepositUpdate(d) PROVE TakenStep
    BY <1>28 DEF DepositUpdate
<1>29. ASSUME NEW d \in Deposits, DepositCommit(d) PROVE TakenStep
    BY <1>29 DEF DepositCommit
<1>30. ASSUME NEW d \in Deposits, DepositDbCommit(d) PROVE TakenStep
    BY <1>30 DEF DepositDbCommit
<1>31. ASSUME NEW d \in Deposits, DepositAbort(d) PROVE TakenStep
    BY <1>31 DEF DepositAbort
<1>32. ASSUME NEW d \in Deposits, DepositDbRollback(d) PROVE TakenStep
    BY <1>32 DEF DepositDbRollback
<1>33. ASSUME NEW d \in Deposits, DepositReset(d) PROVE TakenStep
    BY <1>33 DEF DepositReset
<1>34. ASSUME NEW q \in Openings \cup Readers, QueryBegin(q) PROVE TakenStep
    BY <1>34 DEF QueryBegin
<1>35. ASSUME NEW q \in Openings \cup Readers, QueryRefused(q) PROVE TakenStep
    BY <1>35 DEF QueryRefused
<1>36. ASSUME NEW q \in Openings \cup Readers, QueryFault(q) PROVE TakenStep
    BY <1>36 DEF QueryFault
<1>37. ASSUME NEW c \in Openings, OpeningLookup(c) PROVE TakenStep
    BY <1>37 DEF OpeningLookup
<1>38. ASSUME NEW c \in Openings, OpeningInsert(c) PROVE TakenStep
    BY <1>38 DEF OpeningInsert
<1>39. ASSUME NEW c \in Openings, OpeningRead(c) PROVE TakenStep
    BY <1>39 DEF OpeningRead
<1>40. ASSUME NEW g \in Readers, ReaderRead(g) PROVE TakenStep
    BY <1>40 DEF ReaderRead
<1>41. CASE MqBreak
    BY <1>41 DEF MqBreak
<1>42. CASE ProcessDies
    BY <1>42 DEF ProcessDies
<1>43. CASE Restart
    BY <1>43 DEF Restart
<1>44. CASE UNCHANGED vars
    BY <1>44
<1>45. QED
    BY <1>1, <1>2, <1>3, <1>4, <1>5, <1>6, <1>7, <1>8, <1>9, <1>10, <1>11, <1>12, <1>13,
       <1>14, <1>15, <1>16, <1>17, <1>18, <1>19, <1>20, <1>21, <1>22, <1>23, <1>24, <1>25,
       <1>26, <1>27, <1>28, <1>29, <1>30, <1>31, <1>32, <1>33, <1>34, <1>35, <1>36, <1>37,
       <1>38, <1>39, <1>40, <1>41, <1>42, <1>43, <1>44
       DEF Next, InboxStep, OutboxStep, DepositStep, OpeningStep, Crash, DanglingDeath

(* What a step does to results that are sent.                                *)
SentStep ==
    /\ \A m \in Messages : Sent(m) => Sent(m)'
    /\ pc'[Outbox] = "mark" => Sent(current)' \/ (current' = current /\ pc[Outbox] = "mark")

LEMMA SentSteps == TypeOK /\ [Next]_vars => SentStep
<1> SUFFICES ASSUME TypeOK, [Next]_vars PROVE SentStep
    OBVIOUS
<1> USE ThreadKinds DEF TypeOK, ThreadsType, OutboxType, ScalarsType, SentStep, Sent
<1>1. ASSUME NEW m \in Messages, Deliver(m) PROVE SentStep
    BY <1>1 DEF Deliver
<1>2. ASSUME NEW m \in Messages, InboxTake(m) PROVE SentStep
    BY <1>2 DEF InboxTake
<1>3. CASE InboxCheck
    BY <1>3 DEF InboxCheck
<1>4. CASE InboxBegin
    BY <1>4 DEF InboxBegin
<1>5. CASE InboxInsert
    BY <1>5 DEF InboxInsert
<1>6. CASE PayQuery
    BY <1>6 DEF PayQuery
<1>7. CASE PayRead
    BY <1>7 DEF PayRead
<1>8. CASE PayBegin
    BY <1>8 DEF PayBegin
<1>9. CASE PayUpdate
    BY <1>9 DEF PayUpdate
<1>10. CASE PayCommit
    BY <1>10 DEF PayCommit
<1>11. CASE PayDbCommit
    BY <1>11 DEF PayDbCommit
<1>12. CASE PayAbort
    BY <1>12 DEF PayAbort
<1>13. CASE PayDbRollback
    BY <1>13 DEF PayDbRollback
<1>14. CASE PayReset
    BY <1>14 DEF PayReset
<1>15. CASE InboxUpdate
    BY <1>15 DEF InboxUpdate
<1>16. CASE InboxResult
    BY <1>16 DEF InboxResult
<1>17. CASE InboxCommit
    BY <1>17 DEF InboxCommit
<1>18. CASE InboxDbCommit
    BY <1>18 DEF InboxDbCommit
<1>19. CASE InboxReset
    BY <1>19 DEF InboxReset
<1>20. CASE PassBegin
    BY <1>20 DEF PassBegin
<1>21. CASE SelectPending
    BY <1>21 DEF SelectPending
<1>22. CASE Publish
    BY <1>22 DEF Publish
<1>23. CASE MarkProcessed
    BY <1>23 DEF MarkProcessed
<1>24. CASE PassCommit
    BY <1>24 DEF PassCommit
<1>25. CASE PassDbCommit
    BY <1>25 DEF PassDbCommit
<1>26. CASE PassReset
    BY <1>26 DEF PassReset
<1>27. ASSUME NEW d \in Deposits, DepositBegin(d) PROVE SentStep
    BY <1>27 DEF DepositBegin
<1>28. ASSUME NEW d \in Deposits, DepositUpdate(d) PROVE SentStep
    BY <1>28 DEF DepositUpdate
<1>29. ASSUME NEW d \in Deposits, DepositCommit(d) PROVE SentStep
    BY <1>29 DEF DepositCommit
<1>30. ASSUME NEW d \in Deposits, DepositDbCommit(d) PROVE SentStep
    BY <1>30 DEF DepositDbCommit
<1>31. ASSUME NEW d \in Deposits, DepositAbort(d) PROVE SentStep
    BY <1>31 DEF DepositAbort
<1>32. ASSUME NEW d \in Deposits, DepositDbRollback(d) PROVE SentStep
    BY <1>32 DEF DepositDbRollback
<1>33. ASSUME NEW d \in Deposits, DepositReset(d) PROVE SentStep
    BY <1>33 DEF DepositReset
<1>34. ASSUME NEW q \in Openings \cup Readers, QueryBegin(q) PROVE SentStep
    BY <1>34 DEF QueryBegin
<1>35. ASSUME NEW q \in Openings \cup Readers, QueryRefused(q) PROVE SentStep
    BY <1>35 DEF QueryRefused
<1>36. ASSUME NEW q \in Openings \cup Readers, QueryFault(q) PROVE SentStep
    BY <1>36 DEF QueryFault
<1>37. ASSUME NEW c \in Openings, OpeningLookup(c) PROVE SentStep
    BY <1>37 DEF OpeningLookup
<1>38. ASSUME NEW c \in Openings, OpeningInsert(c) PROVE SentStep
    BY <1>38 DEF OpeningInsert
<1>39. ASSUME NEW c \in Openings, OpeningRead(c) PROVE SentStep
    BY <1>39 DEF OpeningRead
<1>40. ASSUME NEW g \in Readers, ReaderRead(g) PROVE SentStep
    BY <1>40 DEF ReaderRead
<1>41. CASE MqBreak
    BY <1>41 DEF MqBreak
<1>42. CASE ProcessDies
    BY <1>42 DEF ProcessDies
<1>43. CASE Restart
    BY <1>43 DEF Restart
<1>44. CASE UNCHANGED vars
    BY <1>44
<1>45. QED
    BY <1>1, <1>2, <1>3, <1>4, <1>5, <1>6, <1>7, <1>8, <1>9, <1>10, <1>11, <1>12, <1>13,
       <1>14, <1>15, <1>16, <1>17, <1>18, <1>19, <1>20, <1>21, <1>22, <1>23, <1>24, <1>25,
       <1>26, <1>27, <1>28, <1>29, <1>30, <1>31, <1>32, <1>33, <1>34, <1>35, <1>36, <1>37,
       <1>38, <1>39, <1>40, <1>41, <1>42, <1>43, <1>44
       DEF Next, InboxStep, OutboxStep, DepositStep, OpeningStep, Crash, DanglingDeath

(* What a step does to a committed result.                                   *)
KeepsResults ==
    \A m \in Messages :
        /\ db.event[m] # "none" => db'.event[m] # "none" /\ db'.verdict[m] = db.verdict[m]
        /\ db.event[m] = "PROCESSED" => db'.event[m] = "PROCESSED"
        /\ db'.event[m] = "PROCESSED" => published'[m] > 0 \/ m \in lost'

LEMMA FinalStep == TypeOK /\ FinalInv /\ [Next]_vars => FinalInv' /\ KeepsResults
<1> SUFFICES ASSUME TypeOK, FinalInv, [Next]_vars PROVE FinalInv' /\ KeepsResults
    OBVIOUS
<1>1. TakenStep /\ SentStep /\ (EventsQuiet \/ ResultInserted \/ EventMarked)
    BY TakenSteps, SentSteps, EventsStep
<1>2. /\ tx.event \in [Messages -> {"none", "PENDING", "PROCESSED"}]
      /\ db.event \in [Messages -> {"none", "PENDING", "PROCESSED"}]
      /\ tx.verdict \in [Messages -> BOOLEAN]
    BY DEF TypeOK, TablesType, Tables
<1>3. EventsKept /\ HandledOnce /\ MarkedWasSent
    BY DEF FinalInv
<1>4. pc'[Outbox] = "mark" => Sent(current)'
    BY <1>1, <1>3 DEF SentStep, MarkedWasSent, Sent, TypeOK, OutboxType
<1> HIDE DEF vars
<1>5. CASE ResultInserted
    <2>1. /\ pc[Inbox] = "result" /\ pc'[Inbox] = "commit" /\ msg \in Messages
          /\ mq[msg] = "taken" /\ tx.event[msg] = "none" /\ db.event[msg] = "none"
        <3>1. pc[Inbox] = "result"
            BY <1>5 DEF ResultInserted, InboxResult
        <3>2. msg \in Messages /\ mq[msg] = "taken" /\ tx.event[msg] = "none"
            BY <1>3, <3>1 DEF HandledOnce, TypeOK, InboxType
        <3>3. pc'[Inbox] = "commit"
            BY <1>5, ThreadKinds DEF ResultInserted, TypeOK, ThreadsType
        <3>4. QED
            BY <1>3, <3>1, <3>2, <3>3 DEF EventsKept
    <2>2. /\ db' = db
          /\ tx'.event[msg] = "PENDING"
          /\ \A m \in Messages \ {msg} :
                tx'.event[m] = tx.event[m] /\ tx'.verdict[m] = tx.verdict[m]
        BY <1>2, <1>5, <2>1 DEF ResultInserted
    <2>3. EventsKept'
        BY <1>3, <2>1, <2>2 DEF EventsKept
    <2>4. HandledOnce'
        BY <1>1, <1>3, <2>1, <2>2 DEF HandledOnce, TakenStep
    <2>5. MarkedWasSent'
        BY <1>1, <1>3, <1>4, <2>1, <2>2 DEF MarkedWasSent, SentStep
    <2>6. QED
        BY <1>1, <1>3, <2>2, <2>3, <2>4, <2>5
           DEF FinalInv, EventsKept, MarkedWasSent, SentStep, Sent, KeepsResults
<1>6. CASE EventMarked
    <2>1. pc[Outbox] = "mark" /\ current \in Messages /\ Sent(current)
        BY <1>3, <1>6 DEF EventMarked, MarkProcessed, MarkedWasSent, TypeOK, OutboxType
    <2>2. /\ db' = db /\ tx'.verdict = tx.verdict
          /\ tx.event[current] # "none" /\ tx'.event[current] = "PROCESSED"
          /\ \A m \in Messages \ {current} : tx'.event[m] = tx.event[m]
        BY <1>2, <1>6, <2>1 DEF EventMarked
    <2>3. EventsKept'
        BY <1>3, <2>1, <2>2 DEF EventsKept
    <2>4. HandledOnce'
        BY <1>1, <1>3, <2>1, <2>2 DEF HandledOnce, TakenStep, TypeOK, InboxType
    <2>5. MarkedWasSent'
        BY <1>1, <1>3, <1>4, <2>1, <2>2 DEF MarkedWasSent, SentStep
    <2>6. QED
        BY <1>1, <1>3, <2>2, <2>3, <2>4, <2>5
           DEF FinalInv, EventsKept, MarkedWasSent, SentStep, Sent, KeepsResults
<1>7. CASE EventsQuiet
    <2>1. \A m \in Messages :
             \/ db'.event[m] = db.event[m] /\ db'.verdict[m] = db.verdict[m]
             \/ db'.event[m] = tx.event[m] /\ db'.verdict[m] = tx.verdict[m]
        BY <1>7 DEF EventsQuiet, SameEvents
    <2>2. \A m \in Messages :
             \/ tx'.event[m] = tx.event[m] /\ tx'.verdict[m] = tx.verdict[m]
             \/ /\ tx'.event[m] = db.event[m] /\ tx'.verdict[m] = db.verdict[m]
                /\ db'.event[m] = db.event[m] /\ db'.verdict[m] = db.verdict[m]
        BY <1>7 DEF EventsQuiet, SameEvents
    <2>3. EventsKept'
        BY <1>3, <2>1, <2>2 DEF EventsKept
    <2>4. \A m \in Messages : tx.event[m] = "none" => tx'.event[m] = "none"
        BY <1>3, <2>2 DEF EventsKept
    <2>5. HandledOnce'
        BY <1>1, <1>3, <2>4 DEF HandledOnce, TakenStep, TypeOK, InboxType
    <2>6. MarkedWasSent'
        BY <1>1, <1>3, <1>4, <2>2 DEF MarkedWasSent, SentStep, EventsKept
    <2>7. QED
        BY <1>1, <1>3, <2>1, <2>3, <2>5, <2>6
           DEF FinalInv, EventsKept, MarkedWasSent, SentStep, Sent, KeepsResults
<1>8. QED
    BY <1>1, <1>5, <1>6, <1>7

LEMMA FinalInvHolds == Spec => []FinalInv
<1>1. Init => FinalInv
    <2> SUFFICES ASSUME Init PROVE FinalInv
        OBVIOUS
    <2>1. pc[Inbox] = "consume" /\ pc[Outbox] = "sleep"
        BY ThreadKinds DEF Init
    <2>2. \A m \in Messages : db.event[m] = "none" /\ tx.event[m] = "none"
        BY DEF Init, EmptyTables
    <2>3. QED
        BY <2>1, <2>2 DEF FinalInv, EventsKept, HandledOnce, MarkedWasSent
<1>2. PaymentsInv => TypeOK
    BY DEF PaymentsInv
<1>3. QED
    BY <1>1, <1>2, FinalStep, PaymentsInvariant, PTL DEF Spec

(* VerdictsAreFinal: races, failed calls and restarts take nothing back, and *)
(* no result is marked that did not go out.                                  *)
THEOREM Final == Spec => VerdictsAreFinal
<1>1. PaymentsInv => TypeOK
    BY DEF PaymentsInv
<1>2. QED
    BY <1>1, FinalStep, FinalInvHolds, PaymentsInvariant, PTL
       DEF Spec, VerdictsAreFinal, KeepsResults

-----------------------------------------------------------------------------
(* Until the first race: the rows and results of the inbox thread.           *)

Querying(t) ==
    \/ t = Inbox /\ pc[t] \in {"check", "payRead"}
    \/ t \in Openings \cup Readers /\ pc[t] \in {"lookup", "insert", "read"}

(* One transaction object at a time: a query's or the slot's.                *)
StackInv ==
    /\ \A t \in Threads : Querying(t) => stack = t
    /\ stack # Nobody => state \notin {"active", "broken"}

LEMMA StackStep == TypeOK /\ StackInv /\ [Next]_vars => StackInv'
<1> SUFFICES ASSUME TypeOK, StackInv, [Next]_vars PROVE StackInv'
    OBVIOUS
<1> USE ThreadKinds DEF TypeOK, ThreadsType, ConnectionType, StackInv, Querying
<1>1. ASSUME NEW m \in Messages, Deliver(m) PROVE StackInv'
    BY <1>1 DEF Deliver
<1>2. ASSUME NEW m \in Messages, InboxTake(m) PROVE StackInv'
    BY <1>2 DEF InboxTake
<1>3. CASE InboxCheck
    BY <1>3 DEF InboxCheck
<1>4. CASE InboxBegin
    BY <1>4 DEF InboxBegin
<1>5. CASE InboxInsert
    BY <1>5 DEF InboxInsert
<1>6. CASE PayQuery
    BY <1>6 DEF PayQuery
<1>7. CASE PayRead
    BY <1>7 DEF PayRead
<1>8. CASE PayBegin
    BY <1>8 DEF PayBegin
<1>9. CASE PayUpdate
    BY <1>9 DEF PayUpdate
<1>10. CASE PayCommit
    BY <1>10 DEF PayCommit
<1>11. CASE PayDbCommit
    BY <1>11 DEF PayDbCommit
<1>12. CASE PayAbort
    BY <1>12 DEF PayAbort
<1>13. CASE PayDbRollback
    BY <1>13 DEF PayDbRollback
<1>14. CASE PayReset
    BY <1>14 DEF PayReset
<1>15. CASE InboxUpdate
    BY <1>15 DEF InboxUpdate
<1>16. CASE InboxResult
    BY <1>16 DEF InboxResult
<1>17. CASE InboxCommit
    BY <1>17 DEF InboxCommit
<1>18. CASE InboxDbCommit
    BY <1>18 DEF InboxDbCommit
<1>19. CASE InboxReset
    BY <1>19 DEF InboxReset
<1>20. CASE PassBegin
    BY <1>20 DEF PassBegin
<1>21. CASE SelectPending
    BY <1>21 DEF SelectPending
<1>22. CASE Publish
    BY <1>22 DEF Publish
<1>23. CASE MarkProcessed
    BY <1>23 DEF MarkProcessed
<1>24. CASE PassCommit
    BY <1>24 DEF PassCommit
<1>25. CASE PassDbCommit
    BY <1>25 DEF PassDbCommit
<1>26. CASE PassReset
    BY <1>26 DEF PassReset
<1>27. ASSUME NEW d \in Deposits, DepositBegin(d) PROVE StackInv'
    BY <1>27 DEF DepositBegin
<1>28. ASSUME NEW d \in Deposits, DepositUpdate(d) PROVE StackInv'
    BY <1>28 DEF DepositUpdate
<1>29. ASSUME NEW d \in Deposits, DepositCommit(d) PROVE StackInv'
    BY <1>29 DEF DepositCommit
<1>30. ASSUME NEW d \in Deposits, DepositDbCommit(d) PROVE StackInv'
    BY <1>30 DEF DepositDbCommit
<1>31. ASSUME NEW d \in Deposits, DepositAbort(d) PROVE StackInv'
    BY <1>31 DEF DepositAbort
<1>32. ASSUME NEW d \in Deposits, DepositDbRollback(d) PROVE StackInv'
    BY <1>32 DEF DepositDbRollback
<1>33. ASSUME NEW d \in Deposits, DepositReset(d) PROVE StackInv'
    BY <1>33 DEF DepositReset
<1>34. ASSUME NEW q \in Openings \cup Readers, QueryBegin(q) PROVE StackInv'
    BY <1>34 DEF QueryBegin
<1>35. ASSUME NEW q \in Openings \cup Readers, QueryRefused(q) PROVE StackInv'
    BY <1>35 DEF QueryRefused
<1>36. ASSUME NEW q \in Openings \cup Readers, QueryFault(q) PROVE StackInv'
    BY <1>36 DEF QueryFault
<1>37. ASSUME NEW c \in Openings, OpeningLookup(c) PROVE StackInv'
    BY <1>37 DEF OpeningLookup
<1>38. ASSUME NEW c \in Openings, OpeningInsert(c) PROVE StackInv'
    BY <1>38 DEF OpeningInsert
<1>39. ASSUME NEW c \in Openings, OpeningRead(c) PROVE StackInv'
    BY <1>39 DEF OpeningRead
<1>40. ASSUME NEW g \in Readers, ReaderRead(g) PROVE StackInv'
    BY <1>40 DEF ReaderRead
<1>41. CASE MqBreak
    BY <1>41 DEF MqBreak
<1>42. CASE ProcessDies
    BY <1>42 DEF ProcessDies
<1>43. CASE Restart
    BY <1>43 DEF Restart
<1>44. CASE UNCHANGED vars
    BY <1>44
<1>45. QED
    BY <1>1, <1>2, <1>3, <1>4, <1>5, <1>6, <1>7, <1>8, <1>9, <1>10, <1>11, <1>12, <1>13,
       <1>14, <1>15, <1>16, <1>17, <1>18, <1>19, <1>20, <1>21, <1>22, <1>23, <1>24, <1>25,
       <1>26, <1>27, <1>28, <1>29, <1>30, <1>31, <1>32, <1>33, <1>34, <1>35, <1>36, <1>37,
       <1>38, <1>39, <1>40, <1>41, <1>42, <1>43, <1>44
       DEF Next, InboxStep, OutboxStep, DepositStep, OpeningStep, Crash, DanglingDeath

(* Same inbox rows, and results for the same messages.                       *)
SameRecords(a, b) == \A m \in Messages : a.event[m] = "none" <=> b.event[m] = "none"

SameResults(a, b) == a.inbox = b.inbox /\ SameRecords(a, b)

RowWritten(status) == tx.inbox = [db.inbox EXCEPT ![order] = status]

(* The open transaction is at most one row and one result ahead of the       *)
(* committed tables.                                                         *)
InsideInv ==
    pc[Inbox] \in InboxInside =>
        /\ ~failed
        /\ pc[Inbox] = "insert" => SameResults(tx, db)
        /\ pc[Inbox] \in {"pay", "update"} => RowWritten("PENDING")
        /\ pc[Inbox] \in {"result", "commit"} => RowWritten("FAILED")
        /\ pc[Inbox] # "commit" => SameRecords(tx, db)
        /\ pc[Inbox] = "commit" =>
              \A m \in Messages : tx.event[m] = "none" <=> db.event[m] = "none" /\ m # msg

OutsideInv == pc[Inbox] \notin InboxInside => SameResults(tx, db)

(* The order at hand has no row, an order with a result has one.             *)
UndecidedInv == pc[Inbox] \in InboxInside \cup {"begin"} => db.inbox[order] = "none"

AnsweredInv == \A m \in Messages : db.event[m] # "none" => db.inbox[Request(m).order] # "none"

(* What is selected or published is on record.                               *)
BatchInv == \A m \in Messages : m \in batch \/ published[m] > 0 => db.event[m] # "none"

JudgedInv == ~raced => InsideInv /\ OutsideInv /\ UndecidedInv /\ AnsweredInv /\ BatchInv

(* The steps that matter to them: all but the inbox thread's own change no   *)
(* row, and its own write one row and one result, committed together.        *)
Quiet ==
    /\ SameResults(db', db)
    /\ pc'[Inbox] \in InboxInside => pc'[Inbox] = pc[Inbox] /\ UNCHANGED <<tx, db, failed, msg>>
    /\ pc'[Inbox] \notin InboxInside => SameResults(tx', db')
    /\ pc'[Inbox] = "begin" => pc[Inbox] = "begin" /\ msg' = msg

Advances(from, to) ==
    /\ pc[Inbox] = from /\ pc'[Inbox] = to
    /\ UNCHANGED <<db, msg>>
    /\ failed' = FALSE \/ from = "check"

Work ==
    \/ Advances("check", "begin") /\ tx' = tx /\ db.inbox[order] = "none"
    \/ Advances("begin", "insert") /\ tx' = db
    \/ /\ Advances("insert", "pay")
       /\ tx'.inbox = [tx.inbox EXCEPT ![order] = "PENDING"] /\ tx'.event = tx.event
    \/ Advances("pay", "update") /\ tx' = tx
    \/ /\ Advances("update", "result")
       /\ tx'.inbox = [tx.inbox EXCEPT ![order] = "FAILED"] /\ tx'.event = tx.event
    \/ /\ Advances("result", "commit")
       /\ tx'.inbox = tx.inbox /\ tx'.event = [tx.event EXCEPT ![msg] = "PENDING"]

Decided ==
    /\ pc[Inbox] = "commit"
    /\ pc'[Inbox] \notin InboxInside \cup {"begin"}
    /\ db' = tx /\ tx' = tx

LEMMA JudgingSteps ==
    PaymentsInv /\ StackInv /\ JudgedInv /\ [Next]_vars /\ ~raced /\ ~raced' => Quiet \/ Work \/ Decided
<1> SUFFICES ASSUME PaymentsInv, StackInv, JudgedInv, [Next]_vars, ~raced, ~raced'
             PROVE  Quiet \/ Work \/ Decided
    OBVIOUS
<1>a. /\ pc[Inbox] \in InboxInside => slot = Inbox /\ state = "active" /\ failed = FALSE
      /\ pc[Inbox] \notin InboxInside => SameResults(tx, db)
      /\ pc[Inbox] = "insert" => SameResults(tx, db)
      /\ pc[Inbox] \notin Paying
      /\ pc[Outbox] \in {"select", "publish", "mark"} => slot = Outbox /\ state = "active"
      /\ \A d \in Deposits :
            pc[d] \in {"update", "commit", "abort"} => slot = d /\ state = "active"
      /\ \A t \in Openings \cup Readers :
            pc[t] \in {"lookup", "insert", "read"} => state # "active"
      /\ success = FALSE
      /\ failed \in BOOLEAN
    <2>1. TypeOK /\ OwnerInv /\ VerdictInv
        BY DEF PaymentsInv
    <2>2. QED
        BY <2>1, ThreadKinds
           DEF OwnerInv, VerdictInv, Holds, StackInv, Querying, JudgedInv, InsideInv, OutsideInv,
               TypeOK, ConnectionType
<1>b. \A a : SameResults(a, a)
    BY DEF SameResults, SameRecords
<1>c. /\ pc \in [Threads -> InboxSteps \cup OutboxSteps \cup DepositSteps \cup QuerySteps]
      /\ pc[Inbox] \in InboxSteps
    BY DEF PaymentsInv, TypeOK, ThreadsType
<1> USE <1>a, <1>b, <1>c, ThreadKinds DEF Quiet, InboxInside, Paying
<1>1. ASSUME NEW m \in Messages, Deliver(m) PROVE Quiet \/ Work \/ Decided
    BY <1>1 DEF Deliver
<1>2. ASSUME NEW m \in Messages, InboxTake(m) PROVE Quiet \/ Work \/ Decided
    BY <1>2 DEF InboxTake
<1>3. CASE InboxCheck
    BY <1>3 DEF InboxCheck, Work, Advances
<1>4. CASE InboxBegin
    BY <1>4 DEF InboxBegin, Work, Advances
<1>5. CASE InboxInsert
    <2> DEFINE new == [tx EXCEPT !.inbox[order] = "PENDING"]
    <2>1. new.inbox = [tx.inbox EXCEPT ![order] = "PENDING"] /\ new.event = tx.event
        OBVIOUS
    <2> HIDE DEF new
    <2>2. QED
        BY <1>5, <2>1 DEF InboxInsert, new, Work, Advances
<1>6. CASE PayQuery
    BY <1>6 DEF PayQuery, Work, Advances
<1>7. CASE PayRead
    BY <1>7 DEF PayRead
<1>8. CASE PayBegin
    BY <1>8 DEF PayBegin
<1>9. CASE PayUpdate
    BY <1>9 DEF PayUpdate
<1>10. CASE PayCommit
    BY <1>10 DEF PayCommit
<1>11. CASE PayDbCommit
    BY <1>11 DEF PayDbCommit
<1>12. CASE PayAbort
    BY <1>12 DEF PayAbort
<1>13. CASE PayDbRollback
    BY <1>13 DEF PayDbRollback
<1>14. CASE PayReset
    BY <1>14 DEF PayReset
<1>15. CASE InboxUpdate
    <2> DEFINE new == [tx EXCEPT !.inbox[order] = "FAILED"]
    <2>1. new.inbox = [tx.inbox EXCEPT ![order] = "FAILED"] /\ new.event = tx.event
        OBVIOUS
    <2> HIDE DEF new
    <2>2. pc[Inbox] = "update" /\ tx.inbox[order] # "none"
        <3>1. pc[Inbox] = "update" /\ tx.inbox = [db.inbox EXCEPT ![order] = "PENDING"]
            BY <1>15 DEF InboxUpdate, JudgedInv, InsideInv, RowWritten
        <3>2. msg \in Messages /\ db.inbox \in [Orders -> {"none", "PENDING", "PROCESSED", "FAILED"}]
            BY <3>1 DEF PaymentsInv, TypeOK, InboxType, TablesType, Tables
        <3>3. QED
            BY <3>1, <3>2, DataAssumption DEF order
    <2>3. QED
        BY <1>15, <2>1, <2>2 DEF InboxUpdate, new, Work, Advances
<1>16. CASE InboxResult
    <2> DEFINE new == [tx EXCEPT !.event[msg] = "PENDING", !.verdict[msg] = success]
    <2>1. new.inbox = tx.inbox /\ new.event = [tx.event EXCEPT ![msg] = "PENDING"]
        OBVIOUS
    <2> HIDE DEF new
    <2>2. QED
        BY <1>16, <2>1 DEF InboxResult, new, Work, Advances
<1>17. CASE InboxCommit
    BY <1>17 DEF InboxCommit, Decided
<1>18. CASE InboxDbCommit
    BY <1>18 DEF InboxDbCommit
<1>19. CASE InboxReset
    BY <1>19 DEF InboxReset
<1>20. CASE PassBegin
    BY <1>20 DEF PassBegin
<1>21. CASE SelectPending
    BY <1>21 DEF SelectPending
<1>22. CASE Publish
    BY <1>22 DEF Publish
<1>23. CASE MarkProcessed
    <2> DEFINE new == [tx EXCEPT !.event[current] = "PROCESSED"]
    <2>1. tx.event[current] # "none" => SameResults(new, tx)
        BY DEF SameResults, SameRecords, PaymentsInv, TypeOK, TablesType, Tables
    <2> HIDE DEF new
    <2>2. pc[Outbox] = "mark" /\ pc'[Inbox] = pc[Inbox] /\ db' = db /\ msg' = msg
        BY <1>23 DEF MarkProcessed
    <2>3. tx' = tx \/ tx' = db \/ (tx' = new /\ tx.event[current] # "none")
        BY <1>23 DEF MarkProcessed, new
    <2>4. SameResults(tx', db')
        BY <2>1, <2>2, <2>3 DEF SameResults, SameRecords
    <2>5. QED
        BY <2>2, <2>4
<1>24. CASE PassCommit
    BY <1>24 DEF PassCommit
<1>25. CASE PassDbCommit
    BY <1>25 DEF PassDbCommit
<1>26. CASE PassReset
    BY <1>26 DEF PassReset
<1>27. ASSUME NEW d \in Deposits, DepositBegin(d) PROVE Quiet \/ Work \/ Decided
    BY <1>27 DEF DepositBegin
<1>28. ASSUME NEW d \in Deposits, DepositUpdate(d) PROVE Quiet \/ Work \/ Decided
    <2> DEFINE u == Deposit(d).user
               new == [tx EXCEPT !.balance[u] = tx.balance[u] + Deposit(d).amount,
                                 !.version[u] = tx.version[u] + 1,
                                 !.credits = tx.credits \cup {d}]
    <2>1. SameResults(tx, db) => SameResults(new, db)
        BY DEF SameResults, SameRecords
    <2> HIDE DEF new
    <2>2. QED
        BY <1>28, <2>1 DEF DepositUpdate, new
<1>29. ASSUME NEW d \in Deposits, DepositCommit(d) PROVE Quiet \/ Work \/ Decided
    <2>1. /\ pc[d] = "commit" /\ slot = d /\ state = "active" /\ d # Inbox
          /\ pc[Inbox] \notin InboxInside /\ SameResults(tx, db)
        BY <1>29 DEF DepositCommit
    <2>2. /\ pc'[Inbox] = pc[Inbox]
          /\ db' \in {tx, db} /\ tx' \in {tx, db}
          /\ tx' = tx \/ db' = tx'
        BY <1>29, <2>1 DEF DepositCommit
    <2>3. msg' = msg
        BY <1>29 DEF DepositCommit
    <2>4. SameResults(db', db) /\ SameResults(tx', db')
        BY <2>1, <2>2 DEF SameResults, SameRecords
    <2>5. QED
        BY <2>1, <2>2, <2>3, <2>4
<1>30. ASSUME NEW d \in Deposits, DepositDbCommit(d) PROVE Quiet \/ Work \/ Decided
    <2>1. d # Inbox /\ pc'[Inbox] = pc[Inbox] /\ msg' = msg
        BY <1>30 DEF DepositDbCommit
    <2>2. pc[Inbox] \in InboxInside => UNCHANGED <<tx, db, failed>>
        BY <1>30, <2>1 DEF DepositDbCommit
    <2>3. db' \in {tx, db} /\ (tx' = tx \/ tx' = db')
        BY <1>30 DEF DepositDbCommit
    <2>4. pc[Inbox] \notin InboxInside => SameResults(db', db) /\ SameResults(tx', db')
        BY <2>3 DEF SameResults, SameRecords
    <2>5. QED
        BY <2>1, <2>2, <2>4
<1>31. ASSUME NEW d \in Deposits, DepositAbort(d) PROVE Quiet \/ Work \/ Decided
    BY <1>31 DEF DepositAbort
<1>32. ASSUME NEW d \in Deposits, DepositDbRollback(d) PROVE Quiet \/ Work \/ Decided
    <2>1. d # Inbox /\ pc'[Inbox] = pc[Inbox] /\ msg' = msg
        BY <1>32 DEF DepositDbRollback
    <2>2. pc[Inbox] \in InboxInside => UNCHANGED <<tx, db, failed>>
        BY <1>32, <2>1 DEF DepositDbRollback
    <2>3. db' = db /\ tx' \in {tx, db}
        BY <1>32 DEF DepositDbRollback
    <2>4. pc[Inbox] \notin InboxInside => SameResults(db', db) /\ SameResults(tx', db')
        BY <2>3 DEF SameResults, SameRecords
    <2>5. QED
        BY <2>1, <2>2, <2>4
<1>33. ASSUME NEW d \in Deposits, DepositReset(d) PROVE Quiet \/ Work \/ Decided
    BY <1>33 DEF DepositReset
<1>34. ASSUME NEW q \in Openings \cup Readers, QueryBegin(q) PROVE Quiet \/ Work \/ Decided
    BY <1>34 DEF QueryBegin
<1>35. ASSUME NEW q \in Openings \cup Readers, QueryRefused(q) PROVE Quiet \/ Work \/ Decided
    BY <1>35 DEF QueryRefused
<1>36. ASSUME NEW q \in Openings \cup Readers, QueryFault(q) PROVE Quiet \/ Work \/ Decided
    BY <1>36 DEF QueryFault
<1>37. ASSUME NEW c \in Openings, OpeningLookup(c) PROVE Quiet \/ Work \/ Decided
    BY <1>37 DEF OpeningLookup
<1>38. ASSUME NEW c \in Openings, OpeningInsert(c) PROVE Quiet \/ Work \/ Decided
    <2> DEFINE new == [db EXCEPT !.users = @ \cup {Owner(c)}]
    <2>1. SameResults(new, db)
        BY DEF SameResults, SameRecords
    <2> HIDE DEF new
    <2>2. /\ pc[c] = "insert" /\ c # Inbox
          /\ pc[Inbox] \notin InboxInside /\ SameResults(tx, db)
        BY <1>38 DEF OpeningInsert
    <2>3. /\ pc'[Inbox] = pc[Inbox] /\ msg' = msg
          /\ (db' = new /\ tx' = new) \/ (db' = db /\ tx' = tx)
        BY <1>38, <2>2 DEF OpeningInsert, new
    <2>4. SameResults(db', db) /\ SameResults(tx', db')
        BY <2>1, <2>2, <2>3
    <2>5. QED
        BY <2>2, <2>3, <2>4
<1>39. ASSUME NEW c \in Openings, OpeningRead(c) PROVE Quiet \/ Work \/ Decided
    BY <1>39 DEF OpeningRead
<1>40. ASSUME NEW g \in Readers, ReaderRead(g) PROVE Quiet \/ Work \/ Decided
    BY <1>40 DEF ReaderRead
<1>41. CASE MqBreak
    BY <1>41 DEF MqBreak
<1>42. CASE ProcessDies
    BY <1>42 DEF ProcessDies
<1>43. CASE Restart
    BY <1>43 DEF Restart
<1>44. CASE UNCHANGED vars
    BY <1>44
<1>45. QED
    BY <1>1, <1>2, <1>3, <1>4, <1>5, <1>6, <1>7, <1>8, <1>9, <1>10, <1>11, <1>12, <1>13,
       <1>14, <1>15, <1>16, <1>17, <1>18, <1>19, <1>20, <1>21, <1>22, <1>23, <1>24, <1>25,
       <1>26, <1>27, <1>28, <1>29, <1>30, <1>31, <1>32, <1>33, <1>34, <1>35, <1>36, <1>37,
       <1>38, <1>39, <1>40, <1>41, <1>42, <1>43, <1>44
       DEF Next, InboxStep, OutboxStep, DepositStep, OpeningStep, Crash, DanglingDeath

(* What a step does to the results of a pass.                                *)
PassStep ==
    /\ \A m \in batch' : m \in batch \/ (pc[Outbox] = "select" /\ tx.event[m] = "PENDING")
    /\ \/ UNCHANGED published
       \/ \E m \in batch : published' = [published EXCEPT ![m] = @ + 1] /\ UNCHANGED db
    /\ raced => raced'

LEMMA PassSteps == TypeOK /\ [Next]_vars => PassStep
<1> SUFFICES ASSUME TypeOK, [Next]_vars PROVE PassStep
    OBVIOUS
<1> USE ThreadKinds DEF TypeOK, ThreadsType, ConnectionType, PassStep
<1>1. ASSUME NEW m \in Messages, Deliver(m) PROVE PassStep
    BY <1>1 DEF Deliver
<1>2. ASSUME NEW m \in Messages, InboxTake(m) PROVE PassStep
    BY <1>2 DEF InboxTake
<1>3. CASE InboxCheck
    BY <1>3 DEF InboxCheck
<1>4. CASE InboxBegin
    BY <1>4 DEF InboxBegin
<1>5. CASE InboxInsert
    BY <1>5 DEF InboxInsert
<1>6. CASE PayQuery
    BY <1>6 DEF PayQuery
<1>7. CASE PayRead
    BY <1>7 DEF PayRead
<1>8. CASE PayBegin
    BY <1>8 DEF PayBegin
<1>9. CASE PayUpdate
    BY <1>9 DEF PayUpdate
<1>10. CASE PayCommit
    BY <1>10 DEF PayCommit
<1>11. CASE PayDbCommit
    BY <1>11 DEF PayDbCommit
<1>12. CASE PayAbort
    BY <1>12 DEF PayAbort
<1>13. CASE PayDbRollback
    BY <1>13 DEF PayDbRollback
<1>14. CASE PayReset
    BY <1>14 DEF PayReset
<1>15. CASE InboxUpdate
    BY <1>15 DEF InboxUpdate
<1>16. CASE InboxResult
    BY <1>16 DEF InboxResult
<1>17. CASE InboxCommit
    BY <1>17 DEF InboxCommit
<1>18. CASE InboxDbCommit
    BY <1>18 DEF InboxDbCommit
<1>19. CASE InboxReset
    BY <1>19 DEF InboxReset
<1>20. CASE PassBegin
    BY <1>20 DEF PassBegin
<1>21. CASE SelectPending
    BY <1>21 DEF SelectPending, PendingEvents
<1>22. CASE Publish
    BY <1>22 DEF Publish
<1>23. CASE MarkProcessed
    BY <1>23 DEF MarkProcessed
<1>24. CASE PassCommit
    BY <1>24 DEF PassCommit
<1>25. CASE PassDbCommit
    BY <1>25 DEF PassDbCommit
<1>26. CASE PassReset
    BY <1>26 DEF PassReset
<1>27. ASSUME NEW d \in Deposits, DepositBegin(d) PROVE PassStep
    BY <1>27 DEF DepositBegin
<1>28. ASSUME NEW d \in Deposits, DepositUpdate(d) PROVE PassStep
    BY <1>28 DEF DepositUpdate
<1>29. ASSUME NEW d \in Deposits, DepositCommit(d) PROVE PassStep
    BY <1>29 DEF DepositCommit
<1>30. ASSUME NEW d \in Deposits, DepositDbCommit(d) PROVE PassStep
    BY <1>30 DEF DepositDbCommit
<1>31. ASSUME NEW d \in Deposits, DepositAbort(d) PROVE PassStep
    BY <1>31 DEF DepositAbort
<1>32. ASSUME NEW d \in Deposits, DepositDbRollback(d) PROVE PassStep
    BY <1>32 DEF DepositDbRollback
<1>33. ASSUME NEW d \in Deposits, DepositReset(d) PROVE PassStep
    BY <1>33 DEF DepositReset
<1>34. ASSUME NEW q \in Openings \cup Readers, QueryBegin(q) PROVE PassStep
    BY <1>34 DEF QueryBegin
<1>35. ASSUME NEW q \in Openings \cup Readers, QueryRefused(q) PROVE PassStep
    BY <1>35 DEF QueryRefused
<1>36. ASSUME NEW q \in Openings \cup Readers, QueryFault(q) PROVE PassStep
    BY <1>36 DEF QueryFault
<1>37. ASSUME NEW c \in Openings, OpeningLookup(c) PROVE PassStep
    BY <1>37 DEF OpeningLookup
<1>38. ASSUME NEW c \in Openings, OpeningInsert(c) PROVE PassStep
    BY <1>38 DEF OpeningInsert
<1>39. ASSUME NEW c \in Openings, OpeningRead(c) PROVE PassStep
    BY <1>39 DEF OpeningRead
<1>40. ASSUME NEW g \in Readers, ReaderRead(g) PROVE PassStep
    BY <1>40 DEF ReaderRead
<1>41. CASE MqBreak
    BY <1>41 DEF MqBreak
<1>42. CASE ProcessDies
    BY <1>42 DEF ProcessDies
<1>43. CASE Restart
    BY <1>43 DEF Restart
<1>44. CASE UNCHANGED vars
    BY <1>44
<1>45. QED
    BY <1>1, <1>2, <1>3, <1>4, <1>5, <1>6, <1>7, <1>8, <1>9, <1>10, <1>11, <1>12, <1>13,
       <1>14, <1>15, <1>16, <1>17, <1>18, <1>19, <1>20, <1>21, <1>22, <1>23, <1>24, <1>25,
       <1>26, <1>27, <1>28, <1>29, <1>30, <1>31, <1>32, <1>33, <1>34, <1>35, <1>36, <1>37,
       <1>38, <1>39, <1>40, <1>41, <1>42, <1>43, <1>44
       DEF Next, InboxStep, OutboxStep, DepositStep, OpeningStep, Crash, DanglingDeath

LEMMA JudgedStep == PaymentsInv /\ StackInv /\ JudgedInv /\ [Next]_vars => JudgedInv'
<1> SUFFICES ASSUME PaymentsInv, StackInv, JudgedInv, [Next]_vars, ~raced'
             PROVE  (InsideInv /\ OutsideInv /\ UndecidedInv /\ AnsweredInv /\ BatchInv)'
    BY DEF JudgedInv
<1>1. TypeOK /\ TypeOK' /\ OwnerInv
    BY PaymentsInvStep DEF PaymentsInv
<1>2. PassStep /\ ~raced
    BY <1>1, PassSteps DEF PassStep
<1>3. InsideInv /\ OutsideInv /\ UndecidedInv /\ AnsweredInv /\ BatchInv
    BY <1>2 DEF JudgedInv
<1>4. Quiet \/ Work \/ Decided
    BY <1>2, JudgingSteps
<1>5. /\ \A a \in {db, tx} : /\ a.inbox \in [Orders -> {"none", "PENDING", "PROCESSED", "FAILED"}]
                             /\ a.event \in [Messages -> {"none", "PENDING", "PROCESSED"}]
      /\ \A m \in Messages : Request(m).order \in Orders
      /\ pc[Inbox] # "consume" => msg \in Messages
      /\ batch' \subseteq Messages
      /\ published \in [Messages -> Nat]
    BY <1>1, DataAssumption DEF TypeOK, TablesType, Tables, InboxType, OutboxType, ScalarsType
<1>6. pc[Outbox] = "select" => pc[Inbox] \notin InboxInside
    BY <1>1, <1>2, ThreadKinds DEF OwnerInv, Holds
<1>7. \A m \in Messages : db.event[m] # "none" => db'.event[m] # "none"
    BY <1>3, <1>4, <1>5
       DEF Quiet, Work, Advances, Decided, SameResults, SameRecords, InsideInv, InboxInside
<1>8. BatchInv'
    <2>1. \A m \in batch' : m \in Messages /\ db.event[m] # "none"
        BY <1>2, <1>3, <1>5, <1>6
           DEF PassStep, BatchInv, OutsideInv, SameResults, SameRecords
    <2>2. \A m \in Messages : published'[m] > 0 => published[m] > 0 \/ m \in batch
        BY <1>2, <1>5 DEF PassStep
    <2>3. QED
        BY <1>3, <1>7, <2>1, <2>2 DEF BatchInv
<1>9. CASE Quiet
    <2>1. InsideInv'
        BY <1>3, <1>9 DEF Quiet, InsideInv, RowWritten, order
    <2>2. OutsideInv'
        BY <1>9 DEF Quiet, OutsideInv
    <2>3. UndecidedInv'
        BY <1>3, <1>9 DEF Quiet, UndecidedInv, order, SameResults
    <2>4. AnsweredInv'
        BY <1>3, <1>9 DEF Quiet, AnsweredInv, SameResults, SameRecords
    <2>5. QED
        BY <1>8, <2>1, <2>2, <2>3, <2>4
<1>10. CASE Work
    <2>1. db' = db /\ msg' = msg
        BY <1>10 DEF Work, Advances
    <2>2. InsideInv' /\ OutsideInv'
        BY <1>3, <1>5, <1>10, <2>1
           DEF Work, Advances, InsideInv, OutsideInv, RowWritten, order, InboxInside,
               SameResults, SameRecords
    <2>3. UndecidedInv'
        BY <1>3, <1>10, <2>1 DEF Work, Advances, UndecidedInv, InboxInside, order
    <2>4. AnsweredInv'
        BY <1>3, <2>1 DEF AnsweredInv
    <2>5. QED
        BY <1>8, <2>2, <2>3, <2>4
<1>11. CASE Decided
    <2>1. /\ pc[Inbox] = "commit" /\ msg \in Messages
          /\ tx.inbox = [db.inbox EXCEPT ![order] = "FAILED"]
          /\ \A m \in Messages : tx.event[m] = "none" <=> db.event[m] = "none" /\ m # msg
        BY <1>3, <1>5, <1>11 DEF Decided, InsideInv, RowWritten, InboxInside
    <2>2. AnsweredInv'
        <3>1. \A o \in Orders : db.inbox[o] # "none" \/ o = order => tx.inbox[o] # "none"
            BY <1>5, <2>1
        <3>2. QED
            BY <1>3, <1>5, <1>11, <2>1, <3>1 DEF Decided, AnsweredInv, order
    <2>3. QED
        BY <1>8, <1>11, <2>2
           DEF Decided, InsideInv, OutsideInv, UndecidedInv, SameResults, SameRecords
<1>12. QED
    BY <1>4, <1>9, <1>10, <1>11

LEMMA JudgedInvHolds == Spec => [](StackInv /\ JudgedInv)
<1>1. Init => StackInv /\ JudgedInv
    <2> SUFFICES ASSUME Init PROVE StackInv /\ JudgedInv
        OBVIOUS
    <2>1. /\ \A t \in Threads : pc[t] \in {"consume", "sleep", "idle"}
          /\ pc[Inbox] = "consume" /\ stack = Nobody /\ tx = db /\ batch = {}
        BY ThreadKinds DEF Init
    <2>2. \A m \in Messages : db.event[m] = "none" /\ ~(published[m] > 0)
        BY DEF Init, EmptyTables
    <2>3. QED
        BY <2>1, <2>2
           DEF StackInv, Querying, JudgedInv, InsideInv, OutsideInv, UndecidedInv, AnsweredInv,
               BatchInv, InboxInside, SameResults, SameRecords
<1>2. PaymentsInv => TypeOK
    BY DEF PaymentsInv
<1>3. QED
    BY <1>1, <1>2, StackStep, JudgedStep, PaymentsInvariant, PTL DEF Spec

-----------------------------------------------------------------------------
(* The service implements PaymentVerdicts: the commit of                     *)
(* handle_payment_request is Decide (as is one that failed although the      *)
(* server carried it out), the first publish of a result that reaches the    *)
(* queue is Announce, every other step before a race is a stutter, and       *)
(* after a race nothing is promised.                                         *)
VerdictsStep == [Abstract!VerdictsNext]_(Abstract!verdictVars)

(* What a step that stutters leaves alone.                                   *)
Unseen ==
    /\ db'.inbox = db.inbox
    /\ \A m \in Messages :
          /\ db'.event[m] # "none" <=> db.event[m] # "none"
          /\ db'.verdict[m] = db.verdict[m]
          /\ published'[m] > 0 <=> published[m] > 0
    /\ raced' = raced

LEMMA UnseenStutters == Unseen => VerdictsStep
<1> SUFFICES ASSUME Unseen PROVE UNCHANGED Abstract!verdictVars
    BY DEF VerdictsStep
<1> USE DEF Unseen, RecordedResult
<1>1. {RecordedResult(m) : m \in {n \in Messages : db.event[n] # "none"}}' =
      {RecordedResult(m) : m \in {n \in Messages : db.event[n] # "none"}}
    OBVIOUS
<1>2. {RecordedResult(m) : m \in {n \in Messages : published[n] > 0}}' =
      {RecordedResult(m) : m \in {n \in Messages : published[n] > 0}}
    OBVIOUS
<1>3. QED
    BY <1>1, <1>2 DEF Abstract!verdictVars

(* Until the first race every verdict on record is negative, before and      *)
(* after a step.                                                             *)
Negative == \A m \in Messages : db.verdict[m] = FALSE /\ db'.verdict[m] = FALSE

LEMMA Announced ==
    ASSUME PaymentsInv, Negative, ~raced, ~raced', BatchInv, NEW m \in batch,
           published' = [published EXCEPT ![m] = @ + 1], db' = db, ~(published[m] > 0)
    PROVE  Abstract!VerdictsNext
<1> DEFINE judged == {Request(n).order : n \in Messages}
           sent == {RecordedResult(n) : n \in {k \in Messages : published[k] > 0}}
           made == {RecordedResult(n) : n \in {k \in Messages : db.event[k] # "none"}}
<1>1. /\ m \in Messages /\ db.event[m] # "none" /\ Request(m).order \in Orders
      /\ published \in [Messages -> Nat]
    BY DataAssumption DEF BatchInv, PaymentsInv, TypeOK, OutboxType, ScalarsType
<1>2. PICK a \in [request : Messages, order : judged, success : BOOLEAN] : a = RecordedResult(m)
    BY <1>1 DEF RecordedResult, Negative
<1>3. a \in made /\ a \notin sent
    BY <1>1, <1>2 DEF RecordedResult
<1>4. sent' = sent \cup {a}
    <2>1. {k \in Messages : published'[k] > 0} = {k \in Messages : published[k] > 0} \cup {m}
        BY <1>1
    <2>2. QED
        BY <1>1, <1>2, <2>1 DEF RecordedResult
<1>5. Abstract!Announce(a)
    BY <1>3, <1>4 DEF Abstract!Announce, RecordedResult
<1>6. QED
    BY <1>5 DEF Abstract!VerdictsNext

LEMMA DecidedOnce ==
    ASSUME PaymentsInv, Negative, ~raced, ~raced', JudgedInv, Decided, published' = published
    PROVE  Abstract!VerdictsNext
<1> DEFINE judged == {Request(n).order : n \in Messages}
           rows == [o \in judged |-> db.inbox[o]]
           sent == {RecordedResult(n) : n \in {k \in Messages : published[k] > 0}}
           made == {RecordedResult(n) : n \in {k \in Messages : db.event[k] # "none"}}
<1>1. /\ msg \in Messages /\ db' = tx
      /\ tx.inbox = [db.inbox EXCEPT ![order] = "FAILED"]
      /\ \A m \in Messages : tx.event[m] = "none" <=> db.event[m] = "none" /\ m # msg
      /\ db.inbox[order] = "none"
    BY DEF Decided, JudgedInv, InsideInv, UndecidedInv, RowWritten, InboxInside, PaymentsInv,
           TypeOK, InboxType
<1>2. /\ \A m \in Messages : Request(m).order \in Orders
      /\ db.inbox \in [Orders -> {"none", "PENDING", "PROCESSED", "FAILED"}]
    BY DataAssumption DEF PaymentsInv, TypeOK, TablesType, Tables
<1>3. PICK a \in [request : Messages, order : judged, success : BOOLEAN] : a = RecordedResult(msg)
    BY <1>1 DEF RecordedResult, Negative
<1>4. a.order = order /\ order \in judged /\ a.success = FALSE /\ a.request = msg
    BY <1>1, <1>3 DEF RecordedResult, order, Negative
<1>5. rows[a.order] = "none"
    BY <1>1, <1>4
<1>6. \A b \in made : b.order # a.order
    BY <1>1, <1>4 DEF RecordedResult, JudgedInv, AnsweredInv
<1>7. rows' = [rows EXCEPT ![a.order] = "FAILED"]
    <2>1. judged \subseteq Orders
        BY <1>2
    <2>2. \A o \in judged : db'.inbox[o] = IF o = a.order THEN "FAILED" ELSE db.inbox[o]
        BY <1>1, <1>2, <1>4, <2>1
    <2> HIDE DEF judged
    <2>3. QED
        BY <2>2
<1>8. made' = made \cup {a}
    <2>1. {k \in Messages : db'.event[k] # "none"} = {k \in Messages : db.event[k] # "none"} \cup {msg}
        BY <1>1
    <2>2. \A m \in Messages : RecordedResult(m)' = RecordedResult(m)
        BY DEF RecordedResult, Negative
    <2>3. made' = {RecordedResult(n) : n \in {k \in Messages : db'.event[k] # "none"}}
        BY <2>2
    <2>4. QED
        BY <1>1, <1>3, <2>1, <2>3
<1>9. sent' = sent
    BY DEF RecordedResult, Negative
<1>10. Abstract!Decide(a)
    BY <1>4, <1>5, <1>6, <1>7, <1>8, <1>9 DEF Abstract!Decide
<1>11. QED
    BY <1>10 DEF Abstract!VerdictsNext

LEMMA VerdictsSteps == PaymentsInv /\ StackInv /\ JudgedInv /\ [Next]_vars => VerdictsStep
<1> SUFFICES ASSUME PaymentsInv, StackInv, JudgedInv, [Next]_vars PROVE VerdictsStep
    OBVIOUS
<1>1. PassStep /\ PaymentsInv'
    BY PassSteps, PaymentsInvStep DEF PaymentsInv
<1>2. CASE raced'
    BY <1>2 DEF VerdictsStep, Abstract!VerdictsNext
<1>3. CASE ~raced'
    <2>1. ~raced /\ raced' = raced
        BY <1>1, <1>3 DEF PassStep, PaymentsInv, TypeOK, ConnectionType
    <2>2. Negative
        BY <1>1, <1>3, <2>1 DEF PaymentsInv, VerdictInv, Negative
    <2>3. CASE published' = published
        <3>1. CASE Quiet
            BY <2>1, <2>2, <2>3, <3>1, UnseenStutters
               DEF Quiet, SameResults, SameRecords, Unseen, Negative
        <3>2. CASE Work
            BY <2>1, <2>3, <3>2, UnseenStutters DEF Work, Advances, Unseen
        <3>3. CASE Decided
            BY <1>3, <2>1, <2>2, <2>3, <3>3, DecidedOnce DEF VerdictsStep
        <3>4. QED
            BY <1>3, <2>1, <3>1, <3>2, <3>3, JudgingSteps
    <2>4. ASSUME NEW m \in batch, published' = [published EXCEPT ![m] = @ + 1], db' = db
          PROVE  VerdictsStep
        <3>1. published \in [Messages -> Nat]
            BY DEF PaymentsInv, TypeOK, ScalarsType
        <3>2. CASE published[m] > 0
            <4>1. \A n \in Messages : published'[n] > 0 <=> published[n] > 0
                BY <2>4, <3>1, <3>2
            <4>2. QED
                BY <2>1, <2>4, <4>1, UnseenStutters DEF Unseen
        <3>3. CASE ~(published[m] > 0)
            BY <1>3, <2>1, <2>2, <2>4, <3>3, Announced DEF VerdictsStep, JudgedInv
        <3>4. QED
            BY <3>2, <3>3
    <2>5. QED
        BY <1>1, <2>3, <2>4 DEF PassStep
<1>4. QED
    BY <1>2, <1>3

(* Until the first race the payments service implements PaymentVerdicts:     *)
(* copies of a request, failed calls, restarts and a broken RabbitMQ         *)
(* connection never give an order a second result.                           *)
THEOREM Implements == Spec => ImplementsVerdicts
<1>1. Init => Abstract!VerdictsInit
    <2> SUFFICES ASSUME Init PROVE Abstract!VerdictsInit
        OBVIOUS
    <2> DEFINE judged == {Request(m).order : m \in Messages}
    <2>1. Abstract!Judged = judged
        <3>1. \A o \in judged : \E a \in [request : Messages, order : judged, success : BOOLEAN] :
                  a.order = o
            <4> SUFFICES ASSUME NEW m \in Messages
                         PROVE  \E a \in [request : Messages, order : judged, success : BOOLEAN] :
                                    a.order = Request(m).order
                OBVIOUS
            <4> WITNESS [request |-> m, order |-> Request(m).order, success |-> TRUE]
                        \in [request : Messages, order : judged, success : BOOLEAN]
            <4> QED
                OBVIOUS
        <3>2. QED
            BY <3>1 DEF Abstract!Judged
    <2>2. /\ \A o \in judged : db.inbox[o] = "none"
          /\ \A m \in Messages : db.event[m] = "none" /\ ~(published[m] > 0)
        BY DataAssumption DEF Init, EmptyTables
    <2>3. raced = FALSE
        BY DEF Init
    <2>4. QED
        BY <2>1, <2>2, <2>3 DEF Abstract!VerdictsInit
<1>2. QED
    BY <1>1, PaymentsInvariant, JudgedInvHolds, VerdictsSteps, PTL
       DEF Spec, ImplementsVerdicts, Abstract!VerdictsSpec, VerdictsStep

-----------------------------------------------------------------------------
(* The books.  They balance in the committed tables and in the tables of the *)
(* open transaction; a deposit or a payment that is still to be executed is  *)
(* in neither.                                                               *)

CreditsOf(tables, u) == {d \in tables.credits : Deposit(d).user = u}
DebitsOf(tables, u) == {m \in tables.debits : Request(m).user = u}
Deposited == [d \in Deposits |-> Deposit(d).amount]
Requested == [m \in Messages |-> Request(m).amount]

Balanced(tables) ==
    /\ IsFiniteSet(tables.credits) /\ IsFiniteSet(tables.debits)
    /\ \A u \in Users :
          /\ tables.balance[u] = SumFunctionOnSet(Deposited, CreditsOf(tables, u))
                                   - SumFunctionOnSet(Requested, DebitsOf(tables, u))
          /\ tables.version[u] = Cardinality(CreditsOf(tables, u)) + Cardinality(DebitsOf(tables, u))
          /\ tables.balance[u] \in 0 .. Limit

(* A deposit that has not executed its UPDATE, or whose UPDATE found no      *)
(* account, is not in the books.                                             *)
CreditsInv ==
    \A d \in Deposits :
        /\ pc[d] \in {"idle", "update", "abort", "dbRollback", "undo"} => d \notin db.credits \cup tx.credits
        /\ pc[d] = "update" => Deposit(d).amount > 0

(* Nor is a request the inbox thread has not paid.                           *)
Unpaid == {"check", "begin", "insert", "pay", "payRead", "payBegin", "payUpdate"}

DebitsInv ==
    /\ \A m \in Messages : mq[m] # "taken" => m \notin db.debits \cup tx.debits
    /\ pc[Inbox] \in Unpaid => mq[msg] = "taken" /\ msg \notin db.debits \cup tx.debits
    /\ pc[Inbox] \in {"payRead", "payBegin", "payUpdate"} => amount > 0

BooksInv == Balanced(db) /\ Balanced(tx) /\ CreditsInv /\ DebitsInv

-----------------------------------------------------------------------------
(* What a step does to the books: nothing, beyond committing or giving up    *)
(* what the open transaction has done; or one deposit or payment is entered. *)
SameBooks(a, b) ==
    a.balance = b.balance /\ a.version = b.version /\ a.credits = b.credits /\ a.debits = b.debits

BooksQuiet ==
    /\ SameBooks(db', db) \/ SameBooks(db', tx)
    /\ SameBooks(tx', db) \/ SameBooks(tx', tx)

Credits(old, new, d) ==
    LET u == Deposit(d).user IN
    /\ old.balance[u] + Deposit(d).amount <= Limit
    /\ new.balance = [old.balance EXCEPT ![u] = old.balance[u] + Deposit(d).amount]
    /\ new.version = [old.version EXCEPT ![u] = old.version[u] + 1]
    /\ new.credits = old.credits \cup {d}
    /\ new.debits = old.debits

Debits(old, new, m) ==
    LET u == Request(m).user IN
    /\ old.balance[u] >= Request(m).amount
    /\ new.balance = [old.balance EXCEPT ![u] = old.balance[u] - Request(m).amount]
    /\ new.version = [old.version EXCEPT ![u] = old.version[u] + 1]
    /\ new.credits = old.credits
    /\ new.debits = old.debits \cup {m}

Credited(d) ==
    /\ pc[d] = "update" /\ pc' = [pc EXCEPT ![d] = "commit"]
    /\ db' = db
    /\ Credits(tx, tx', d)

Debited ==
    /\ pc[Inbox] = "payUpdate" /\ pc' = [pc EXCEPT ![Inbox] = "payCommit"]
    /\ UNCHANGED <<db, mq, msg>>
    /\ Debits(tx, tx', msg)

BooksMove == BooksQuiet \/ (\E d \in Deposits : Credited(d)) \/ Debited

LEMMA BooksSteps == TypeOK /\ [Next]_vars => BooksMove
<1> SUFFICES ASSUME TypeOK, [Next]_vars PROVE BooksMove
    OBVIOUS
<1> USE ThreadKinds, DataAssumption DEF TypeOK, TablesType, BooksMove, BooksQuiet, SameBooks
<1>1. ASSUME NEW m \in Messages, Deliver(m) PROVE BooksMove
    BY <1>1 DEF Deliver
<1>2. ASSUME NEW m \in Messages, InboxTake(m) PROVE BooksMove
    BY <1>2 DEF InboxTake
<1>3. CASE InboxCheck
    BY <1>3 DEF InboxCheck
<1>4. CASE InboxBegin
    BY <1>4 DEF InboxBegin
<1>5. CASE InboxInsert
    <2>1. SameBooks([tx EXCEPT !.inbox[order] = "PENDING"], tx)
        BY DEF Tables, SameBooks
    <2> QED  BY <1>5, <2>1 DEF InboxInsert, SameBooks
<1>6. CASE PayQuery
    BY <1>6 DEF PayQuery
<1>7. CASE PayRead
    BY <1>7 DEF PayRead
<1>8. CASE PayBegin
    BY <1>8 DEF PayBegin
<1>9. CASE PayUpdate
    <2> DEFINE covered == user \in tx.users /\ tx.balance[user] >= amount /\ tx.version[user] = seen
               new == [tx EXCEPT !.balance[user] = tx.balance[user] - amount,
                                 !.version[user] = tx.version[user] + 1,
                                 !.debits = tx.debits \cup {msg}]
    <2>1. CASE covered /\ Executes(new) /\ Goto(Inbox, "payCommit") /\ UNCHANGED inboxVars
        <3>1. Debits(tx, new, msg)
            BY <2>1 DEF Tables, Debits, user, amount
        <3> HIDE DEF new
        <3> QED  BY <1>9, <2>1, <3>1 DEF PayUpdate, Debited
    <2>2. CASE Executes(tx)
        BY <2>2 DEF SameBooks
    <2>3. CASE StatementThrows(Pay)
        BY <2>3 DEF SameBooks
    <2> QED  BY <1>9, <2>1, <2>2, <2>3 DEF PayUpdate
<1>10. CASE PayCommit
    BY <1>10 DEF PayCommit
<1>11. CASE PayDbCommit
    BY <1>11 DEF PayDbCommit
<1>12. CASE PayAbort
    BY <1>12 DEF PayAbort
<1>13. CASE PayDbRollback
    BY <1>13 DEF PayDbRollback
<1>14. CASE PayReset
    BY <1>14 DEF PayReset
<1>15. CASE InboxUpdate
    <2>1. SameBooks([tx EXCEPT !.inbox[order] = IF success THEN "PROCESSED" ELSE "FAILED"], tx)
        BY DEF Tables, SameBooks
    <2> QED  BY <1>15, <2>1 DEF InboxUpdate, SameBooks
<1>16. CASE InboxResult
    <2>1. SameBooks([tx EXCEPT !.event[msg] = "PENDING", !.verdict[msg] = success], tx)
        BY DEF Tables, SameBooks
    <2> QED  BY <1>16, <2>1 DEF InboxResult, SameBooks
<1>17. CASE InboxCommit
    BY <1>17 DEF InboxCommit
<1>18. CASE InboxDbCommit
    BY <1>18 DEF InboxDbCommit
<1>19. CASE InboxReset
    BY <1>19 DEF InboxReset
<1>20. CASE PassBegin
    BY <1>20 DEF PassBegin
<1>21. CASE SelectPending
    BY <1>21 DEF SelectPending
<1>22. CASE Publish
    BY <1>22 DEF Publish
<1>23. CASE MarkProcessed
    <2>1. SameBooks([tx EXCEPT !.event[current] = "PROCESSED"], tx)
        BY DEF Tables, SameBooks
    <2> QED  BY <1>23, <2>1 DEF MarkProcessed, SameBooks
<1>24. CASE PassCommit
    BY <1>24 DEF PassCommit
<1>25. CASE PassDbCommit
    BY <1>25 DEF PassDbCommit
<1>26. CASE PassReset
    BY <1>26 DEF PassReset
<1>27. ASSUME NEW d \in Deposits, DepositBegin(d) PROVE BooksMove
    BY <1>27 DEF DepositBegin
<1>28. ASSUME NEW d \in Deposits, DepositUpdate(d) PROVE BooksMove
    <2> DEFINE u == Deposit(d).user
               sum == tx.balance[u] + Deposit(d).amount
               new == [tx EXCEPT !.balance[u] = sum, !.version[u] = tx.version[u] + 1,
                                 !.credits = tx.credits \cup {d}]
    <2>1. CASE sum <= Limit /\ Executes(new) /\ Goto(d, "commit")
        <3>1. Credits(tx, new, d)
            BY <2>1 DEF Tables, Credits
        <3> HIDE DEF new
        <3> QED  BY <1>28, <2>1, <3>1 DEF DepositUpdate, Credited
    <2>2. CASE Executes(tx)
        BY <2>2 DEF SameBooks
    <2>3. CASE Refuses \/ StatementThrows(d)
        BY <2>3 DEF SameBooks
    <2> QED  BY <1>28, <2>1, <2>2, <2>3 DEF DepositUpdate
<1>29. ASSUME NEW d \in Deposits, DepositCommit(d) PROVE BooksMove
    BY <1>29 DEF DepositCommit
<1>30. ASSUME NEW d \in Deposits, DepositDbCommit(d) PROVE BooksMove
    BY <1>30 DEF DepositDbCommit
<1>31. ASSUME NEW d \in Deposits, DepositAbort(d) PROVE BooksMove
    BY <1>31 DEF DepositAbort
<1>32. ASSUME NEW d \in Deposits, DepositDbRollback(d) PROVE BooksMove
    BY <1>32 DEF DepositDbRollback
<1>33. ASSUME NEW d \in Deposits, DepositReset(d) PROVE BooksMove
    BY <1>33 DEF DepositReset
<1>34. ASSUME NEW q \in Openings \cup Readers, QueryBegin(q) PROVE BooksMove
    BY <1>34 DEF QueryBegin
<1>35. ASSUME NEW q \in Openings \cup Readers, QueryRefused(q) PROVE BooksMove
    BY <1>35 DEF QueryRefused
<1>36. ASSUME NEW q \in Openings \cup Readers, QueryFault(q) PROVE BooksMove
    BY <1>36 DEF QueryFault
<1>37. ASSUME NEW c \in Openings, OpeningLookup(c) PROVE BooksMove
    BY <1>37 DEF OpeningLookup
<1>38. ASSUME NEW c \in Openings, OpeningInsert(c) PROVE BooksMove
    <2>1. SameBooks([db EXCEPT !.users = @ \cup {Owner(c)}], db)
        BY DEF Tables, SameBooks
    <2> QED  BY <1>38, <2>1 DEF OpeningInsert, SameBooks
<1>39. ASSUME NEW c \in Openings, OpeningRead(c) PROVE BooksMove
    BY <1>39 DEF OpeningRead
<1>40. ASSUME NEW g \in Readers, ReaderRead(g) PROVE BooksMove
    BY <1>40 DEF ReaderRead
<1>41. CASE MqBreak
    BY <1>41 DEF MqBreak
<1>42. CASE ProcessDies
    BY <1>42 DEF ProcessDies
<1>43. CASE Restart
    BY <1>43 DEF Restart
<1>44. CASE UNCHANGED vars
    BY <1>44
<1>45. QED
    BY <1>1, <1>2, <1>3, <1>4, <1>5, <1>6, <1>7, <1>8, <1>9, <1>10, <1>11, <1>12, <1>13,
       <1>14, <1>15, <1>16, <1>17, <1>18, <1>19, <1>20, <1>21, <1>22, <1>23, <1>24, <1>25,
       <1>26, <1>27, <1>28, <1>29, <1>30, <1>31, <1>32, <1>33, <1>34, <1>35, <1>36, <1>37,
       <1>38, <1>39, <1>40, <1>41, <1>42, <1>43, <1>44
       DEF Next, InboxStep, OutboxStep, DepositStep, OpeningStep, Crash, DanglingDeath

(* What a step does to the threads that deposit and pay, as far as the books *)
(* are concerned.                                                            *)
Unbooked == {"idle", "update", "abort", "dbRollback", "undo"}

BookingStep ==
    /\ \A d \in Deposits :
          /\ pc'[d] \in Unbooked => pc[d] \in Unbooked
          /\ pc'[d] = "update" => pc[d] = "update" \/ Deposit(d).amount > 0
    /\ \A m \in Messages : mq[m] = "taken" => mq'[m] = "taken"
    /\ pc'[Inbox] \in Unpaid =>
          \/ pc[Inbox] \in Unpaid /\ msg' = msg
          \/ msg' \in Messages /\ mq[msg'] # "taken" /\ mq'[msg'] = "taken"
    /\ pc'[Inbox] \in {"payRead", "payBegin", "payUpdate"} =>
          msg' = msg /\ (pc[Inbox] \in {"payRead", "payBegin", "payUpdate"} \/ amount > 0)

LEMMA BookingSteps == TypeOK /\ [Next]_vars => BookingStep
<1> SUFFICES ASSUME TypeOK, [Next]_vars PROVE BookingStep
    OBVIOUS
<1> USE ThreadKinds DEF TypeOK, ThreadsType, InboxType, BookingStep, Unbooked, Unpaid
<1>1. ASSUME NEW m \in Messages, Deliver(m) PROVE BookingStep
    BY <1>1 DEF Deliver
<1>2. ASSUME NEW m \in Messages, InboxTake(m) PROVE BookingStep
    BY <1>2 DEF InboxTake
<1>3. CASE InboxCheck
    BY <1>3 DEF InboxCheck
<1>4. CASE InboxBegin
    BY <1>4 DEF InboxBegin
<1>5. CASE InboxInsert
    BY <1>5 DEF InboxInsert
<1>6. CASE PayQuery
    BY <1>6 DEF PayQuery
<1>7. CASE PayRead
    BY <1>7 DEF PayRead
<1>8. CASE PayBegin
    BY <1>8 DEF PayBegin
<1>9. CASE PayUpdate
    BY <1>9 DEF PayUpdate
<1>10. CASE PayCommit
    BY <1>10 DEF PayCommit
<1>11. CASE PayDbCommit
    BY <1>11 DEF PayDbCommit
<1>12. CASE PayAbort
    BY <1>12 DEF PayAbort
<1>13. CASE PayDbRollback
    BY <1>13 DEF PayDbRollback
<1>14. CASE PayReset
    BY <1>14 DEF PayReset
<1>15. CASE InboxUpdate
    BY <1>15 DEF InboxUpdate
<1>16. CASE InboxResult
    BY <1>16 DEF InboxResult
<1>17. CASE InboxCommit
    BY <1>17 DEF InboxCommit
<1>18. CASE InboxDbCommit
    BY <1>18 DEF InboxDbCommit
<1>19. CASE InboxReset
    BY <1>19 DEF InboxReset
<1>20. CASE PassBegin
    BY <1>20 DEF PassBegin
<1>21. CASE SelectPending
    BY <1>21 DEF SelectPending
<1>22. CASE Publish
    BY <1>22 DEF Publish
<1>23. CASE MarkProcessed
    BY <1>23 DEF MarkProcessed
<1>24. CASE PassCommit
    BY <1>24 DEF PassCommit
<1>25. CASE PassDbCommit
    BY <1>25 DEF PassDbCommit
<1>26. CASE PassReset
    BY <1>26 DEF PassReset
<1>27. ASSUME NEW d \in Deposits, DepositBegin(d) PROVE BookingStep
    BY <1>27 DEF DepositBegin
<1>28. ASSUME NEW d \in Deposits, DepositUpdate(d) PROVE BookingStep
    BY <1>28 DEF DepositUpdate
<1>29. ASSUME NEW d \in Deposits, DepositCommit(d) PROVE BookingStep
    BY <1>29 DEF DepositCommit
<1>30. ASSUME NEW d \in Deposits, DepositDbCommit(d) PROVE BookingStep
    BY <1>30 DEF DepositDbCommit
<1>31. ASSUME NEW d \in Deposits, DepositAbort(d) PROVE BookingStep
    BY <1>31 DEF DepositAbort
<1>32. ASSUME NEW d \in Deposits, DepositDbRollback(d) PROVE BookingStep
    BY <1>32 DEF DepositDbRollback
<1>33. ASSUME NEW d \in Deposits, DepositReset(d) PROVE BookingStep
    BY <1>33 DEF DepositReset
<1>34. ASSUME NEW q \in Openings \cup Readers, QueryBegin(q) PROVE BookingStep
    BY <1>34 DEF QueryBegin
<1>35. ASSUME NEW q \in Openings \cup Readers, QueryRefused(q) PROVE BookingStep
    BY <1>35 DEF QueryRefused
<1>36. ASSUME NEW q \in Openings \cup Readers, QueryFault(q) PROVE BookingStep
    BY <1>36 DEF QueryFault
<1>37. ASSUME NEW c \in Openings, OpeningLookup(c) PROVE BookingStep
    BY <1>37 DEF OpeningLookup
<1>38. ASSUME NEW c \in Openings, OpeningInsert(c) PROVE BookingStep
    BY <1>38 DEF OpeningInsert
<1>39. ASSUME NEW c \in Openings, OpeningRead(c) PROVE BookingStep
    BY <1>39 DEF OpeningRead
<1>40. ASSUME NEW g \in Readers, ReaderRead(g) PROVE BookingStep
    BY <1>40 DEF ReaderRead
<1>41. CASE MqBreak
    BY <1>41 DEF MqBreak
<1>42. CASE ProcessDies
    BY <1>42 DEF ProcessDies
<1>43. CASE Restart
    BY <1>43 DEF Restart
<1>44. CASE UNCHANGED vars
    BY <1>44
<1>45. QED
    BY <1>1, <1>2, <1>3, <1>4, <1>5, <1>6, <1>7, <1>8, <1>9, <1>10, <1>11, <1>12, <1>13,
       <1>14, <1>15, <1>16, <1>17, <1>18, <1>19, <1>20, <1>21, <1>22, <1>23, <1>24, <1>25,
       <1>26, <1>27, <1>28, <1>29, <1>30, <1>31, <1>32, <1>33, <1>34, <1>35, <1>36, <1>37,
       <1>38, <1>39, <1>40, <1>41, <1>42, <1>43, <1>44
       DEF Next, InboxStep, OutboxStep, DepositStep, OpeningStep, Crash, DanglingDeath

(* One deposit or payment more: the sums and the counts of its user move     *)
(* with the balance and the version.                                         *)
LEMMA CreditBalances ==
    ASSUME NEW old \in Tables, NEW new \in Tables, Balanced(old), NEW d \in Deposits,
           d \notin old.credits, Deposit(d).amount > 0, Credits(old, new, d)
    PROVE  Balanced(new)
<1> DEFINE u == Deposit(d).user
<1>1. u \in Users /\ Deposited[d] = Deposit(d).amount /\ Deposit(d).amount \in Int /\ Limit \in Nat
    BY DataAssumption DEF Deposited
<1>2. \A e \in Deposits : Deposited[e] \in Int
    BY DataAssumption DEF Deposited
<1>3. IsFiniteSet(new.credits) /\ IsFiniteSet(new.debits)
    BY FS_AddElement DEF Balanced, Credits
<1>4. ASSUME NEW v \in Users
      PROVE  /\ DebitsOf(new, v) = DebitsOf(old, v)
             /\ CreditsOf(new, v) = IF v = u THEN CreditsOf(old, v) \cup {d} ELSE CreditsOf(old, v)
             /\ CreditsOf(old, v) \in SUBSET Deposits /\ d \notin CreditsOf(old, v)
             /\ IsFiniteSet(CreditsOf(old, v)) /\ IsFiniteSet(DebitsOf(old, v))
    <2>1. CreditsOf(old, v) \in SUBSET old.credits /\ DebitsOf(old, v) \in SUBSET old.debits
        BY DEF CreditsOf, DebitsOf
    <2>2. IsFiniteSet(CreditsOf(old, v)) /\ IsFiniteSet(DebitsOf(old, v))
        BY <2>1, FS_Subset DEF Balanced
    <2> QED  BY <2>1, <2>2 DEF CreditsOf, DebitsOf, Credits, Tables
<1>5. ASSUME NEW v \in Users
      PROVE  /\ Cardinality(CreditsOf(old, v)) \in Nat /\ Cardinality(DebitsOf(old, v)) \in Nat
             /\ SumFunctionOnSet(Deposited, CreditsOf(old, v)) \in Int
             /\ old.balance[v] \in Int
             /\ old.version[v] \in Nat
    BY <1>2, <1>4, FS_CardinalityType, SumInt DEF Tables
<1>6. /\ SumFunctionOnSet(Deposited, CreditsOf(new, u))
           = SumFunctionOnSet(Deposited, CreditsOf(old, u)) + Deposit(d).amount
      /\ Cardinality(CreditsOf(new, u)) = Cardinality(CreditsOf(old, u)) + 1
    <2> DEFINE S == CreditsOf(old, u)
    <2>1. IsFiniteSet(S) /\ d \notin S /\ \A e \in S \cup {d} : Deposited[e] \in Int
        BY <1>1, <1>2, <1>4
    <2> HIDE DEF S
    <2>2. SumFunctionOnSet(Deposited, S \cup {d}) = SumFunctionOnSet(Deposited, S) + Deposited[d]
        BY <2>1, SumAdd
    <2>3. Cardinality(S \cup {d}) = Cardinality(S) + 1
        BY <2>1, FS_AddElement
    <2> QED  BY <1>1, <1>4, <2>2, <2>3 DEF S
<1>7. ASSUME NEW v \in Users
      PROVE  /\ new.balance[v] = SumFunctionOnSet(Deposited, CreditsOf(new, v))
                                   - SumFunctionOnSet(Requested, DebitsOf(new, v))
             /\ new.version[v] = Cardinality(CreditsOf(new, v)) + Cardinality(DebitsOf(new, v))
             /\ new.balance[v] \in 0 .. Limit
    <2>1. /\ old.balance[v] = SumFunctionOnSet(Deposited, CreditsOf(old, v))
                                - SumFunctionOnSet(Requested, DebitsOf(old, v))
          /\ old.version[v] = Cardinality(CreditsOf(old, v)) + Cardinality(DebitsOf(old, v))
          /\ old.balance[v] \in 0 .. Limit
        BY DEF Balanced
    <2>2. SumFunctionOnSet(Requested, DebitsOf(old, v)) \in Int
        <3>1. \A m \in DebitsOf(old, v) : Requested[m] \in Int
            BY DataAssumption DEF DebitsOf, Requested, Tables
        <3> QED  BY <1>4, <3>1, SumInt
    <2>3. CASE v = u
        <3>1. new.balance[v] = old.balance[v] + Deposit(d).amount /\ new.version[v] = old.version[v] + 1
            BY <1>1, <2>3 DEF Credits, Tables
        <3>2. old.balance[v] + Deposit(d).amount <= Limit
            BY <2>3 DEF Credits
        <3> HIDE DEF u
        <3> QED  BY <1>1, <1>4, <1>5, <1>6, <2>1, <2>2, <2>3, <3>1, <3>2
    <2>4. CASE v # u
        <3>1. new.balance[v] = old.balance[v] /\ new.version[v] = old.version[v]
            BY <1>1, <2>4 DEF Credits, Tables
        <3> QED  BY <1>4, <2>1, <2>4, <3>1
    <2> QED  BY <2>3, <2>4
<1> QED  BY <1>3, <1>7 DEF Balanced

LEMMA DebitBalances ==
    ASSUME NEW old \in Tables, NEW new \in Tables, Balanced(old), NEW m \in Messages,
           m \notin old.debits, Request(m).amount > 0, Debits(old, new, m)
    PROVE  Balanced(new)
<1> DEFINE u == Request(m).user
<1>1. u \in Users /\ Requested[m] = Request(m).amount /\ Request(m).amount \in Int /\ Limit \in Nat
    BY DataAssumption DEF Requested
<1>2. \A n \in Messages : Requested[n] \in Int
    BY DataAssumption DEF Requested
<1>3. IsFiniteSet(new.credits) /\ IsFiniteSet(new.debits)
    BY FS_AddElement DEF Balanced, Debits
<1>4. ASSUME NEW v \in Users
      PROVE  /\ CreditsOf(new, v) = CreditsOf(old, v)
             /\ DebitsOf(new, v) = IF v = u THEN DebitsOf(old, v) \cup {m} ELSE DebitsOf(old, v)
             /\ DebitsOf(old, v) \in SUBSET Messages /\ m \notin DebitsOf(old, v)
             /\ IsFiniteSet(CreditsOf(old, v)) /\ IsFiniteSet(DebitsOf(old, v))
    <2>1. CreditsOf(old, v) \in SUBSET old.credits /\ DebitsOf(old, v) \in SUBSET old.debits
        BY DEF CreditsOf, DebitsOf
    <2>2. IsFiniteSet(CreditsOf(old, v)) /\ IsFiniteSet(DebitsOf(old, v))
        BY <2>1, FS_Subset DEF Balanced
    <2> QED  BY <2>1, <2>2 DEF CreditsOf, DebitsOf, Debits, Tables
<1>5. ASSUME NEW v \in Users
      PROVE  /\ Cardinality(CreditsOf(old, v)) \in Nat /\ Cardinality(DebitsOf(old, v)) \in Nat
             /\ SumFunctionOnSet(Requested, DebitsOf(old, v)) \in Int
             /\ old.balance[v] \in Int
             /\ old.version[v] \in Nat
    BY <1>2, <1>4, FS_CardinalityType, SumInt DEF Tables
<1>6. /\ SumFunctionOnSet(Requested, DebitsOf(new, u))
           = SumFunctionOnSet(Requested, DebitsOf(old, u)) + Request(m).amount
      /\ Cardinality(DebitsOf(new, u)) = Cardinality(DebitsOf(old, u)) + 1
    <2> DEFINE S == DebitsOf(old, u)
    <2>1. IsFiniteSet(S) /\ m \notin S /\ \A n \in S \cup {m} : Requested[n] \in Int
        BY <1>1, <1>2, <1>4
    <2> HIDE DEF S
    <2>2. SumFunctionOnSet(Requested, S \cup {m}) = SumFunctionOnSet(Requested, S) + Requested[m]
        BY <2>1, SumAdd
    <2>3. Cardinality(S \cup {m}) = Cardinality(S) + 1
        BY <2>1, FS_AddElement
    <2> QED  BY <1>1, <1>4, <2>2, <2>3 DEF S
<1>7. ASSUME NEW v \in Users
      PROVE  /\ new.balance[v] = SumFunctionOnSet(Deposited, CreditsOf(new, v))
                                   - SumFunctionOnSet(Requested, DebitsOf(new, v))
             /\ new.version[v] = Cardinality(CreditsOf(new, v)) + Cardinality(DebitsOf(new, v))
             /\ new.balance[v] \in 0 .. Limit
    <2>1. /\ old.balance[v] = SumFunctionOnSet(Deposited, CreditsOf(old, v))
                                - SumFunctionOnSet(Requested, DebitsOf(old, v))
          /\ old.version[v] = Cardinality(CreditsOf(old, v)) + Cardinality(DebitsOf(old, v))
          /\ old.balance[v] \in 0 .. Limit
        BY DEF Balanced
    <2>2. SumFunctionOnSet(Deposited, CreditsOf(old, v)) \in Int
        <3>1. \A d \in CreditsOf(old, v) : Deposited[d] \in Int
            BY DataAssumption DEF CreditsOf, Deposited, Tables
        <3> QED  BY <1>4, <3>1, SumInt
    <2>3. CASE v = u
        <3>1. new.balance[v] = old.balance[v] - Request(m).amount /\ new.version[v] = old.version[v] + 1
            BY <1>1, <2>3 DEF Debits, Tables
        <3>2. old.balance[v] >= Request(m).amount
            BY <2>3 DEF Debits
        <3> HIDE DEF u
        <3> QED  BY <1>1, <1>4, <1>5, <1>6, <2>1, <2>2, <2>3, <3>1, <3>2
    <2>4. CASE v # u
        <3>1. new.balance[v] = old.balance[v] /\ new.version[v] = old.version[v]
            BY <1>1, <2>4 DEF Debits, Tables
        <3> QED  BY <1>4, <2>1, <2>4, <3>1
    <2> QED  BY <2>3, <2>4
<1> QED  BY <1>3, <1>7 DEF Balanced

LEMMA SameBooksBalance ==
    ASSUME NEW old, NEW new, Balanced(old), SameBooks(new, old)
    PROVE  Balanced(new)
<1>1. \A u \in Users : CreditsOf(new, u) = CreditsOf(old, u) /\ DebitsOf(new, u) = DebitsOf(old, u)
    BY DEF SameBooks, CreditsOf, DebitsOf
<1> QED  BY <1>1 DEF Balanced, SameBooks

LEMMA BooksStep == TypeOK /\ BooksInv /\ [Next]_vars => BooksInv'
<1> SUFFICES ASSUME TypeOK, BooksInv, [Next]_vars PROVE BooksInv'
    OBVIOUS
<1> USE ThreadKinds DEF BooksInv
<1>1. BooksMove /\ BookingStep /\ db \in Tables /\ tx \in Tables /\ tx' \in Tables
    BY BooksSteps, BookingSteps, TablesTypeStep DEF TypeOK, TablesType
<1>2. ASSUME NEW d \in Deposits, pc'[d] \in Unbooked PROVE d \notin db.credits \cup tx.credits
    BY <1>1, <1>2 DEF BookingStep, CreditsInv, Unbooked
<1>3. ASSUME NEW m \in Messages,
             mq'[m] # "taken" \/ (pc'[Inbox] \in Unpaid /\ m = msg')
      PROVE  m \notin db.debits \cup tx.debits
    BY <1>1, <1>3 DEF BookingStep, DebitsInv
<1>4. ASSUME \A d \in Deposits : pc'[d] \in Unbooked => d \notin db'.credits \cup tx'.credits
      PROVE  CreditsInv'
    BY <1>1, <1>4 DEF CreditsInv, BookingStep, Unbooked
<1>5. ASSUME \A m \in Messages :
                mq'[m] # "taken" \/ (pc'[Inbox] \in Unpaid /\ m = msg') => m \notin db'.debits \cup tx'.debits
      PROVE  DebitsInv'
    <2>1. ASSUME pc'[Inbox] \in Unpaid PROVE msg' \in Messages /\ mq'[msg'] = "taken"
        BY <1>1, <2>1 DEF BookingStep, DebitsInv, TypeOK, InboxType, Unpaid
    <2>2. ASSUME pc'[Inbox] \in {"payRead", "payBegin", "payUpdate"} PROVE amount' > 0
        BY <1>1, <2>2 DEF BookingStep, DebitsInv, amount
    <2> QED  BY <1>5, <2>1, <2>2 DEF DebitsInv
<1>6. CASE BooksQuiet
    <2>1. Balanced(db)' /\ Balanced(tx)'
        BY <1>6, SameBooksBalance DEF BooksQuiet
    <2>2. /\ db'.credits \cup tx'.credits \subseteq db.credits \cup tx.credits
          /\ db'.debits \cup tx'.debits \subseteq db.debits \cup tx.debits
        BY <1>6 DEF BooksQuiet, SameBooks
    <2> QED  BY <2>1, <2>2, <1>2, <1>3, <1>4, <1>5
<1>7. ASSUME NEW e \in Deposits, Credited(e) PROVE BooksInv'
    <2>1. e \notin tx.credits /\ Deposit(e).amount > 0
        BY <1>7 DEF Credited, CreditsInv
    <2>2. Balanced(tx)' /\ Balanced(db)'
        BY <1>1, <1>7, <2>1, CreditBalances DEF Credited
    <2>3. /\ db'.credits \cup tx'.credits \subseteq db.credits \cup tx.credits \cup {e}
          /\ db'.debits \cup tx'.debits \subseteq db.debits \cup tx.debits
          /\ pc'[e] = "commit"
        BY <1>7 DEF Credited, Credits, TypeOK, ThreadsType
    <2> QED  BY <1>2, <1>3, <1>4, <1>5, <2>2, <2>3 DEF Unbooked
<1>8. CASE Debited
    <2>1. msg \in Messages /\ msg \notin tx.debits /\ Request(msg).amount > 0 /\ mq[msg] = "taken"
        BY <1>8 DEF Debited, DebitsInv, Unpaid, TypeOK, InboxType, amount
    <2>2. Balanced(tx)' /\ Balanced(db)'
        BY <1>1, <1>8, <2>1, DebitBalances DEF Debited
    <2>3. /\ db'.credits \cup tx'.credits \subseteq db.credits \cup tx.credits
          /\ db'.debits \cup tx'.debits \subseteq db.debits \cup tx.debits \cup {msg}
          /\ mq'[msg] = "taken" /\ pc'[Inbox] = "payCommit"
        BY <1>8, <2>1 DEF Debited, Debits, TypeOK, ThreadsType
    <2> QED  BY <1>2, <1>3, <1>4, <1>5, <2>2, <2>3 DEF Unpaid
<1> QED  BY <1>1, <1>6, <1>7, <1>8 DEF BooksMove

LEMMA BooksInvHolds == Spec => []BooksInv
<1>1. Init => BooksInv
    <2> SUFFICES ASSUME Init PROVE BooksInv
        OBVIOUS
    <2>1. Balanced(EmptyTables)
        <3>1. ASSUME NEW u \in Users
              PROVE  CreditsOf(EmptyTables, u) = {} /\ DebitsOf(EmptyTables, u) = {}
            BY DEF EmptyTables, CreditsOf, DebitsOf
        <3>2. IsFiniteSet({}) /\ Cardinality({}) = 0
            BY FS_EmptySet
        <3>3. /\ EmptyTables.credits = {} /\ EmptyTables.debits = {}
              /\ \A u \in Users : EmptyTables.balance[u] = 0 /\ EmptyTables.version[u] = 0
            BY DEF EmptyTables
        <3>4. /\ SumFunctionOnSet(Deposited, {}) = 0 /\ SumFunctionOnSet(Requested, {}) = 0
              /\ 0 \in 0 .. Limit
            BY SumEmpty, DataAssumption
        <3>5. ASSUME NEW u \in Users
              PROVE  /\ EmptyTables.balance[u] = SumFunctionOnSet(Deposited, CreditsOf(EmptyTables, u))
                                                    - SumFunctionOnSet(Requested, DebitsOf(EmptyTables, u))
                     /\ EmptyTables.version[u] = Cardinality(CreditsOf(EmptyTables, u))
                                                    + Cardinality(DebitsOf(EmptyTables, u))
                     /\ EmptyTables.balance[u] \in 0 .. Limit
            <4>1. CreditsOf(EmptyTables, u) = {} /\ DebitsOf(EmptyTables, u) = {}
                BY <3>1
            <4>2. EmptyTables.balance[u] = 0 /\ EmptyTables.version[u] = 0
                BY <3>3
            <4> QED  BY <3>2, <3>4, <4>1, <4>2
        <3> QED  BY <3>2, <3>3, <3>5 DEF Balanced
    <2>2. db = EmptyTables /\ tx = EmptyTables /\ EmptyTables.credits = {} /\ EmptyTables.debits = {}
        BY DEF Init, EmptyTables
    <2>3. /\ \A d \in Deposits : pc[d] = "idle"
          /\ pc[Inbox] = "consume"
        BY ThreadKinds DEF Init
    <2> QED  BY <2>1, <2>2, <2>3 DEF BooksInv, CreditsInv, DebitsInv, Unpaid
<1>2. PaymentsInv => TypeOK
    BY DEF PaymentsInv
<1> QED  BY <1>1, <1>2, BooksStep, PaymentsInvariant, PTL DEF Spec

(* BooksBalance: races or not, an account holds what was deposited less what *)
(* was paid, its version counts both, and it is never negative nor too large *)
(* for its column.                                                           *)
THEOREM Books == Spec => []BooksBalance
<1>1. BooksInv /\ TypeOK => BooksBalance
    <2> SUFFICES ASSUME BooksInv, TypeOK, NEW u \in Users
                 PROVE  /\ db.balance[u]
                             = SumFunction([d \in CreditsOf(db, u) |-> Deposit(d).amount])
                                 - SumFunction([m \in DebitsOf(db, u) |-> Request(m).amount])
                        /\ db.version[u] = Cardinality(CreditsOf(db, u)) + Cardinality(DebitsOf(db, u))
                        /\ db.balance[u] \in 0 .. Limit
        BY DEF BooksBalance, CreditsOf, DebitsOf
    <2> DEFINE f == [d \in CreditsOf(db, u) |-> Deposit(d).amount]
               g == [m \in DebitsOf(db, u) |-> Request(m).amount]
    <2>1. /\ CreditsOf(db, u) \in SUBSET db.credits /\ CreditsOf(db, u) \in SUBSET Deposits
          /\ DebitsOf(db, u) \in SUBSET db.debits /\ DebitsOf(db, u) \in SUBSET Messages
        BY DEF CreditsOf, DebitsOf, TypeOK, TablesType, Tables
    <2>2. IsFiniteSet(CreditsOf(db, u)) /\ IsFiniteSet(DebitsOf(db, u))
        BY <2>1, FS_Subset DEF BooksInv, Balanced
    <2>3. SumFunction(f) = SumFunctionOnSet(Deposited, CreditsOf(db, u))
        <3>1. DOMAIN f = CreditsOf(db, u) /\ \A d \in CreditsOf(db, u) : f[d] = Deposited[d]
            BY <2>1 DEF Deposited
        <3> HIDE DEF f
        <3> QED  BY <2>2, <3>1, SumOfFunction
    <2>4. SumFunction(g) = SumFunctionOnSet(Requested, DebitsOf(db, u))
        <3>1. DOMAIN g = DebitsOf(db, u) /\ \A m \in DebitsOf(db, u) : g[m] = Requested[m]
            BY <2>1 DEF Requested
        <3> HIDE DEF g
        <3> QED  BY <2>2, <3>1, SumOfFunction
    <2> QED  BY <2>3, <2>4 DEF BooksInv, Balanced
<1>2. PaymentsInv => TypeOK
    BY DEF PaymentsInv
<1> QED  BY <1>1, <1>2, BooksInvHolds, PaymentsInvariant, PTL

-----------------------------------------------------------------------------
(* What the endpoints answer.                                                *)

(* A transaction adds to what is committed, and a request is answered once.  *)
GrowingInv == db.credits \subseteq tx.credits /\ db.users \subseteq tx.users

AnsweredOnceInv == \A t \in HttpThreads : reply[t] # 0 => pc[t] = "done"

DepositInv(d) ==
    /\ pc[d] = "commit" => d \in tx.credits
    /\ pc[d] = "dbCommit" => d \in db.credits /\ (slot = d => state = "committed")
    /\ pc[d] # "reset"
    /\ reply[d] = 200 => d \in db.credits
    /\ faults = 0 /\ reply[d] = 400 => d \notin db.credits \cup tx.credits

DepositsInv == ~raced => \A d \in Deposits : DepositInv(d)

(* The opening whose INSERT succeeded.                                       *)
Opened(c) == pc[c] \in {"toRead", "read"} \/ reply[c] = 201

OpeningsInv ==
    /\ \A c \in Openings : Opened(c) => Owner(c) \in db.users
    /\ \A b, c \in Openings : b # c /\ Owner(b) = Owner(c) => ~(Opened(b) /\ Opened(c))

AnswersInv == GrowingInv /\ AnsweredOnceInv /\ DepositsInv /\ OpeningsInv

LEMMA GrowingStep == TypeOK /\ GrowingInv /\ [Next]_vars => GrowingInv'
<1> SUFFICES ASSUME TypeOK /\ GrowingInv, [Next]_vars PROVE GrowingInv'
    OBVIOUS
<1> USE ThreadKinds DEF TypeOK, ThreadsType, RepliesType, ConnectionType, TablesType, Tables, GrowingInv
<1>1. ASSUME NEW m \in Messages, Deliver(m) PROVE GrowingInv'
    BY <1>1 DEF Deliver
<1>2. ASSUME NEW m \in Messages, InboxTake(m) PROVE GrowingInv'
    BY <1>2 DEF InboxTake
<1>3. CASE InboxCheck
    BY <1>3 DEF InboxCheck
<1>4. CASE InboxBegin
    BY <1>4 DEF InboxBegin
<1>5. CASE InboxInsert
    BY <1>5 DEF InboxInsert
<1>6. CASE PayQuery
    BY <1>6 DEF PayQuery
<1>7. CASE PayRead
    BY <1>7 DEF PayRead
<1>8. CASE PayBegin
    BY <1>8 DEF PayBegin
<1>9. CASE PayUpdate
    <2> DEFINE new == [tx EXCEPT !.balance[user] = tx.balance[user] - amount,
                                 !.version[user] = tx.version[user] + 1,
                                 !.debits = tx.debits \cup {msg}]
    <2>1. new.users = tx.users /\ new.credits = tx.credits
        BY DEF Tables
    <2> HIDE DEF new
    <2>2. CASE Executes(new)
        BY <2>1, <2>2
    <2>3. CASE ~Executes(new)
        BY <1>9, <2>3 DEF PayUpdate, new
    <2> QED  BY <2>2, <2>3
<1>10. CASE PayCommit
    BY <1>10 DEF PayCommit
<1>11. CASE PayDbCommit
    BY <1>11 DEF PayDbCommit
<1>12. CASE PayAbort
    BY <1>12 DEF PayAbort
<1>13. CASE PayDbRollback
    BY <1>13 DEF PayDbRollback
<1>14. CASE PayReset
    BY <1>14 DEF PayReset
<1>15. CASE InboxUpdate
    BY <1>15 DEF InboxUpdate
<1>16. CASE InboxResult
    <2> DEFINE new == [tx EXCEPT !.event[msg] = "PENDING", !.verdict[msg] = success]
    <2>1. new.users = tx.users /\ new.credits = tx.credits
        BY DEF Tables
    <2> HIDE DEF new
    <2>2. CASE Executes(new)
        BY <2>1, <2>2
    <2>3. CASE ~Executes(new)
        BY <1>16, <2>3 DEF InboxResult, new
    <2> QED  BY <2>2, <2>3
<1>17. CASE InboxCommit
    BY <1>17 DEF InboxCommit
<1>18. CASE InboxDbCommit
    BY <1>18 DEF InboxDbCommit
<1>19. CASE InboxReset
    BY <1>19 DEF InboxReset
<1>20. CASE PassBegin
    BY <1>20 DEF PassBegin
<1>21. CASE SelectPending
    BY <1>21 DEF SelectPending
<1>22. CASE Publish
    BY <1>22 DEF Publish
<1>23. CASE MarkProcessed
    BY <1>23 DEF MarkProcessed
<1>24. CASE PassCommit
    BY <1>24 DEF PassCommit
<1>25. CASE PassDbCommit
    BY <1>25 DEF PassDbCommit
<1>26. CASE PassReset
    BY <1>26 DEF PassReset
<1>27. ASSUME NEW d \in Deposits, DepositBegin(d) PROVE GrowingInv'
    BY <1>27 DEF DepositBegin
<1>28. ASSUME NEW d \in Deposits, DepositUpdate(d) PROVE GrowingInv'
    <2> DEFINE new == [tx EXCEPT !.balance[Deposit(d).user] = tx.balance[Deposit(d).user] + Deposit(d).amount,
                                 !.version[Deposit(d).user] = tx.version[Deposit(d).user] + 1,
                                 !.credits = tx.credits \cup {d}]
    <2>1. new.users = tx.users /\ new.credits = tx.credits \cup {d}
        BY DEF Tables
    <2> HIDE DEF new
    <2>2. CASE Executes(new)
        BY <2>1, <2>2
    <2>3. CASE ~Executes(new)
        BY <1>28, <2>3 DEF DepositUpdate, new
    <2> QED  BY <2>2, <2>3
<1>29. ASSUME NEW d \in Deposits, DepositCommit(d) PROVE GrowingInv'
    BY <1>29 DEF DepositCommit
<1>30. ASSUME NEW d \in Deposits, DepositDbCommit(d) PROVE GrowingInv'
    BY <1>30 DEF DepositDbCommit
<1>31. ASSUME NEW d \in Deposits, DepositAbort(d) PROVE GrowingInv'
    BY <1>31 DEF DepositAbort
<1>32. ASSUME NEW d \in Deposits, DepositDbRollback(d) PROVE GrowingInv'
    BY <1>32 DEF DepositDbRollback
<1>33. ASSUME NEW d \in Deposits, DepositReset(d) PROVE GrowingInv'
    BY <1>33 DEF DepositReset
<1>34. ASSUME NEW q \in Openings \cup Readers, QueryBegin(q) PROVE GrowingInv'
    BY <1>34 DEF QueryBegin
<1>35. ASSUME NEW q \in Openings \cup Readers, QueryRefused(q) PROVE GrowingInv'
    BY <1>35 DEF QueryRefused
<1>36. ASSUME NEW q \in Openings \cup Readers, QueryFault(q) PROVE GrowingInv'
    BY <1>36 DEF QueryFault
<1>37. ASSUME NEW c \in Openings, OpeningLookup(c) PROVE GrowingInv'
    BY <1>37 DEF OpeningLookup
<1>38. ASSUME NEW c \in Openings, OpeningInsert(c) PROVE GrowingInv'
    BY <1>38 DEF OpeningInsert
<1>39. ASSUME NEW c \in Openings, OpeningRead(c) PROVE GrowingInv'
    BY <1>39 DEF OpeningRead
<1>40. ASSUME NEW g \in Readers, ReaderRead(g) PROVE GrowingInv'
    BY <1>40 DEF ReaderRead
<1>41. CASE MqBreak
    BY <1>41 DEF MqBreak
<1>42. CASE ProcessDies
    BY <1>42 DEF ProcessDies
<1>43. CASE Restart
    BY <1>43 DEF Restart
<1>44. CASE UNCHANGED vars
    BY <1>44
<1>45. QED
    BY <1>1, <1>2, <1>3, <1>4, <1>5, <1>6, <1>7, <1>8, <1>9, <1>10, <1>11, <1>12, <1>13,
       <1>14, <1>15, <1>16, <1>17, <1>18, <1>19, <1>20, <1>21, <1>22, <1>23, <1>24, <1>25,
       <1>26, <1>27, <1>28, <1>29, <1>30, <1>31, <1>32, <1>33, <1>34, <1>35, <1>36, <1>37,
       <1>38, <1>39, <1>40, <1>41, <1>42, <1>43, <1>44
       DEF Next, InboxStep, OutboxStep, DepositStep, OpeningStep, Crash, DanglingDeath

LEMMA AnsweredOnceStep == TypeOK /\ AnsweredOnceInv /\ [Next]_vars => AnsweredOnceInv'
<1> SUFFICES ASSUME TypeOK /\ AnsweredOnceInv, [Next]_vars PROVE AnsweredOnceInv'
    OBVIOUS
<1> USE ThreadKinds DEF TypeOK, ThreadsType, RepliesType, AnsweredOnceInv
<1>1. ASSUME NEW m \in Messages, Deliver(m) PROVE AnsweredOnceInv'
    BY <1>1 DEF Deliver
<1>2. ASSUME NEW m \in Messages, InboxTake(m) PROVE AnsweredOnceInv'
    BY <1>2 DEF InboxTake
<1>3. CASE InboxCheck
    BY <1>3 DEF InboxCheck
<1>4. CASE InboxBegin
    BY <1>4 DEF InboxBegin
<1>5. CASE InboxInsert
    BY <1>5 DEF InboxInsert
<1>6. CASE PayQuery
    BY <1>6 DEF PayQuery
<1>7. CASE PayRead
    BY <1>7 DEF PayRead
<1>8. CASE PayBegin
    BY <1>8 DEF PayBegin
<1>9. CASE PayUpdate
    BY <1>9 DEF PayUpdate
<1>10. CASE PayCommit
    BY <1>10 DEF PayCommit
<1>11. CASE PayDbCommit
    BY <1>11 DEF PayDbCommit
<1>12. CASE PayAbort
    BY <1>12 DEF PayAbort
<1>13. CASE PayDbRollback
    BY <1>13 DEF PayDbRollback
<1>14. CASE PayReset
    BY <1>14 DEF PayReset
<1>15. CASE InboxUpdate
    BY <1>15 DEF InboxUpdate
<1>16. CASE InboxResult
    BY <1>16 DEF InboxResult
<1>17. CASE InboxCommit
    BY <1>17 DEF InboxCommit
<1>18. CASE InboxDbCommit
    BY <1>18 DEF InboxDbCommit
<1>19. CASE InboxReset
    BY <1>19 DEF InboxReset
<1>20. CASE PassBegin
    BY <1>20 DEF PassBegin
<1>21. CASE SelectPending
    BY <1>21 DEF SelectPending
<1>22. CASE Publish
    BY <1>22 DEF Publish
<1>23. CASE MarkProcessed
    BY <1>23 DEF MarkProcessed
<1>24. CASE PassCommit
    BY <1>24 DEF PassCommit
<1>25. CASE PassDbCommit
    BY <1>25 DEF PassDbCommit
<1>26. CASE PassReset
    BY <1>26 DEF PassReset
<1>27. ASSUME NEW d \in Deposits, DepositBegin(d) PROVE AnsweredOnceInv'
    BY <1>27 DEF DepositBegin
<1>28. ASSUME NEW d \in Deposits, DepositUpdate(d) PROVE AnsweredOnceInv'
    BY <1>28 DEF DepositUpdate
<1>29. ASSUME NEW d \in Deposits, DepositCommit(d) PROVE AnsweredOnceInv'
    BY <1>29 DEF DepositCommit
<1>30. ASSUME NEW d \in Deposits, DepositDbCommit(d) PROVE AnsweredOnceInv'
    BY <1>30 DEF DepositDbCommit
<1>31. ASSUME NEW d \in Deposits, DepositAbort(d) PROVE AnsweredOnceInv'
    BY <1>31 DEF DepositAbort
<1>32. ASSUME NEW d \in Deposits, DepositDbRollback(d) PROVE AnsweredOnceInv'
    BY <1>32 DEF DepositDbRollback
<1>33. ASSUME NEW d \in Deposits, DepositReset(d) PROVE AnsweredOnceInv'
    BY <1>33 DEF DepositReset
<1>34. ASSUME NEW q \in Openings \cup Readers, QueryBegin(q) PROVE AnsweredOnceInv'
    BY <1>34 DEF QueryBegin
<1>35. ASSUME NEW q \in Openings \cup Readers, QueryRefused(q) PROVE AnsweredOnceInv'
    BY <1>35 DEF QueryRefused
<1>36. ASSUME NEW q \in Openings \cup Readers, QueryFault(q) PROVE AnsweredOnceInv'
    BY <1>36 DEF QueryFault
<1>37. ASSUME NEW c \in Openings, OpeningLookup(c) PROVE AnsweredOnceInv'
    BY <1>37 DEF OpeningLookup
<1>38. ASSUME NEW c \in Openings, OpeningInsert(c) PROVE AnsweredOnceInv'
    BY <1>38 DEF OpeningInsert
<1>39. ASSUME NEW c \in Openings, OpeningRead(c) PROVE AnsweredOnceInv'
    BY <1>39 DEF OpeningRead
<1>40. ASSUME NEW g \in Readers, ReaderRead(g) PROVE AnsweredOnceInv'
    BY <1>40 DEF ReaderRead
<1>41. CASE MqBreak
    BY <1>41 DEF MqBreak
<1>42. CASE ProcessDies
    BY <1>42 DEF ProcessDies
<1>43. CASE Restart
    BY <1>43 DEF Restart
<1>44. CASE UNCHANGED vars
    BY <1>44
<1>45. QED
    BY <1>1, <1>2, <1>3, <1>4, <1>5, <1>6, <1>7, <1>8, <1>9, <1>10, <1>11, <1>12, <1>13,
       <1>14, <1>15, <1>16, <1>17, <1>18, <1>19, <1>20, <1>21, <1>22, <1>23, <1>24, <1>25,
       <1>26, <1>27, <1>28, <1>29, <1>30, <1>31, <1>32, <1>33, <1>34, <1>35, <1>36, <1>37,
       <1>38, <1>39, <1>40, <1>41, <1>42, <1>43, <1>44
       DEF Next, InboxStep, OutboxStep, DepositStep, OpeningStep, Crash, DanglingDeath

LEMMA OpeningsStep == TypeOK /\ GrowingInv /\ AnsweredOnceInv /\ StackInv /\ OpeningsInv /\ [Next]_vars => OpeningsInv'
<1> SUFFICES ASSUME TypeOK /\ GrowingInv /\ AnsweredOnceInv /\ StackInv /\ OpeningsInv, [Next]_vars PROVE OpeningsInv'
    OBVIOUS
<1> USE ThreadKinds DEF TypeOK, ThreadsType, RepliesType, TablesType, Tables, GrowingInv, OpeningsInv, Opened
<1>1. ASSUME NEW m \in Messages, Deliver(m) PROVE OpeningsInv'
    BY <1>1 DEF Deliver
<1>2. ASSUME NEW m \in Messages, InboxTake(m) PROVE OpeningsInv'
    BY <1>2 DEF InboxTake
<1>3. CASE InboxCheck
    BY <1>3 DEF InboxCheck
<1>4. CASE InboxBegin
    BY <1>4 DEF InboxBegin
<1>5. CASE InboxInsert
    BY <1>5 DEF InboxInsert
<1>6. CASE PayQuery
    BY <1>6 DEF PayQuery
<1>7. CASE PayRead
    BY <1>7 DEF PayRead
<1>8. CASE PayBegin
    BY <1>8 DEF PayBegin
<1>9. CASE PayUpdate
    BY <1>9 DEF PayUpdate
<1>10. CASE PayCommit
    BY <1>10 DEF PayCommit
<1>11. CASE PayDbCommit
    BY <1>11 DEF PayDbCommit
<1>12. CASE PayAbort
    BY <1>12 DEF PayAbort
<1>13. CASE PayDbRollback
    BY <1>13 DEF PayDbRollback
<1>14. CASE PayReset
    BY <1>14 DEF PayReset
<1>15. CASE InboxUpdate
    BY <1>15 DEF InboxUpdate
<1>16. CASE InboxResult
    BY <1>16 DEF InboxResult
<1>17. CASE InboxCommit
    BY <1>17 DEF InboxCommit
<1>18. CASE InboxDbCommit
    BY <1>18 DEF InboxDbCommit
<1>19. CASE InboxReset
    BY <1>19 DEF InboxReset
<1>20. CASE PassBegin
    BY <1>20 DEF PassBegin
<1>21. CASE SelectPending
    BY <1>21 DEF SelectPending
<1>22. CASE Publish
    BY <1>22 DEF Publish
<1>23. CASE MarkProcessed
    BY <1>23 DEF MarkProcessed
<1>24. CASE PassCommit
    BY <1>24 DEF PassCommit
<1>25. CASE PassDbCommit
    BY <1>25 DEF PassDbCommit
<1>26. CASE PassReset
    BY <1>26 DEF PassReset
<1>27. ASSUME NEW d \in Deposits, DepositBegin(d) PROVE OpeningsInv'
    BY <1>27 DEF DepositBegin
<1>28. ASSUME NEW d \in Deposits, DepositUpdate(d) PROVE OpeningsInv'
    BY <1>28 DEF DepositUpdate
<1>29. ASSUME NEW d \in Deposits, DepositCommit(d) PROVE OpeningsInv'
    BY <1>29 DEF DepositCommit
<1>30. ASSUME NEW d \in Deposits, DepositDbCommit(d) PROVE OpeningsInv'
    BY <1>30 DEF DepositDbCommit
<1>31. ASSUME NEW d \in Deposits, DepositAbort(d) PROVE OpeningsInv'
    BY <1>31 DEF DepositAbort
<1>32. ASSUME NEW d \in Deposits, DepositDbRollback(d) PROVE OpeningsInv'
    BY <1>32 DEF DepositDbRollback
<1>33. ASSUME NEW d \in Deposits, DepositReset(d) PROVE OpeningsInv'
    BY <1>33 DEF DepositReset
<1>34. ASSUME NEW q \in Openings \cup Readers, QueryBegin(q) PROVE OpeningsInv'
    BY <1>34 DEF QueryBegin
<1>35. ASSUME NEW q \in Openings \cup Readers, QueryRefused(q) PROVE OpeningsInv'
    BY <1>35 DEF QueryRefused
<1>36. ASSUME NEW q \in Openings \cup Readers, QueryFault(q) PROVE OpeningsInv'
    BY <1>36 DEF QueryFault
<1>37. ASSUME NEW c \in Openings, OpeningLookup(c) PROVE OpeningsInv'
    BY <1>37 DEF OpeningLookup
<1>38. ASSUME NEW c \in Openings, OpeningInsert(c) PROVE OpeningsInv'
    BY <1>38 DEF OpeningInsert
<1>39. ASSUME NEW c \in Openings, OpeningRead(c) PROVE OpeningsInv'
    BY <1>39 DEF OpeningRead
<1>40. ASSUME NEW g \in Readers, ReaderRead(g) PROVE OpeningsInv'
    BY <1>40 DEF ReaderRead
<1>41. CASE MqBreak
    BY <1>41 DEF MqBreak
<1>42. CASE ProcessDies
    BY <1>42 DEF ProcessDies
<1>43. CASE Restart
    BY <1>43 DEF Restart
<1>44. CASE UNCHANGED vars
    BY <1>44
<1>45. QED
    BY <1>1, <1>2, <1>3, <1>4, <1>5, <1>6, <1>7, <1>8, <1>9, <1>10, <1>11, <1>12, <1>13,
       <1>14, <1>15, <1>16, <1>17, <1>18, <1>19, <1>20, <1>21, <1>22, <1>23, <1>24, <1>25,
       <1>26, <1>27, <1>28, <1>29, <1>30, <1>31, <1>32, <1>33, <1>34, <1>35, <1>36, <1>37,
       <1>38, <1>39, <1>40, <1>41, <1>42, <1>43, <1>44
       DEF Next, InboxStep, OutboxStep, DepositStep, OpeningStep, Crash, DanglingDeath

(* A deposit keeps its credit from its UPDATE to its answer.                 *)
LEMMA DepositStays ==
    ASSUME PaymentsInv, StackInv, CreditsInv, GrowingInv, AnsweredOnceInv, DepositsInv,
           [Next]_vars, ~raced', NEW a \in Deposits
    PROVE  DepositInv(a)'
<1>a. /\ TypeOK /\ ~raced
    BY PassSteps DEF PaymentsInv, PassStep
<1>b. /\ a \in Threads /\ a # Inbox /\ a # Outbox /\ a # Nobody /\ a # Pay
      /\ a \in HttpThreads /\ a \notin Openings \cup Readers
    BY ThreadKinds, NamesAssumption DEF HttpThreads, Threads
<1>c. /\ pc[Inbox] \in InboxInside => Holds(Inbox)
      /\ pc[Inbox] \notin Paying
      /\ pc[Outbox] \in {"select", "publish", "mark"} => Holds(Outbox)
      /\ \A d \in Deposits : pc[d] \in {"update", "commit", "abort"} => Holds(d)
    BY <1>a DEF PaymentsInv, OwnerInv
<1>d. /\ pc[a] = "commit" => a \in tx.credits
      /\ pc[a] = "dbCommit" => a \in db.credits /\ (slot = a => state = "committed")
      /\ pc[a] # "reset"
      /\ reply[a] = 200 => a \in db.credits
      /\ faults = 0 /\ reply[a] = 400 => a \notin db.credits \cup tx.credits
    BY <1>a DEF DepositsInv, DepositInv
<1>e. /\ pc[a] \in {"idle", "update", "abort", "dbRollback", "undo"} => a \notin db.credits \cup tx.credits
      /\ reply[a] # 0 => pc[a] = "done"
      /\ db.credits \subseteq tx.credits
    BY <1>b DEF CreditsInv, AnsweredOnceInv, GrowingInv
<1>f. /\ pc \in [Threads -> InboxSteps \cup OutboxSteps \cup DepositSteps \cup QuerySteps]
      /\ reply \in [HttpThreads -> {0, 200, 201, 400, 404}] /\ faults \in Nat
      /\ pc[a] \in DepositSteps /\ db \in Tables /\ tx \in Tables
      /\ slot = Nobody <=> state = "none"
    BY <1>a DEF TypeOK, ThreadsType, RepliesType, TablesType, ConnectionType, ScalarsType
<1>g. \A t \in Openings : pc[t] = "insert" => stack = t /\ state # "active"
    BY ThreadKinds DEF StackInv, Querying
<1>h. ASSUME pc'[a] = pc[a], reply'[a] = reply[a], faults' \in {faults, faults + 1},
             a \in db'.credits \cup tx'.credits => a \in db.credits \cup tx.credits,
             a \in db.credits => a \in db'.credits,
             pc[a] = "commit" /\ a \in tx.credits => a \in tx'.credits,
             pc[a] = "dbCommit" /\ slot' = a => slot = a /\ state' = state
      PROVE  DepositInv(a)'
    BY <1>d, <1>f, <1>h DEF DepositInv
<1>i. ASSUME NEW t, t # a, ((Resets(t) \/ DbCommits(t)) /\ UNCHANGED envVars) \/ DbCommitThrows(t)
      PROVE  /\ faults' \in {faults, faults + 1}
             /\ a \in db'.credits \cup tx'.credits => a \in db.credits \cup tx.credits
             /\ a \in db.credits => a \in db'.credits
             /\ pc[a] = "commit" /\ a \in tx.credits => a \in tx'.credits
             /\ pc[a] = "dbCommit" /\ slot' = a => slot = a /\ state' = state
    <2>1. pc[a] = "commit" => slot = a /\ state = "active"
        BY <1>c DEF Holds
    <2>2. CASE Resets(t) /\ UNCHANGED envVars
        <3>1. pc[a] # "commit" /\ faults' = faults /\ slot' # a /\ db' = db /\ tx' = db
            BY <1>a, <1>b, <1>i, <2>1, <2>2
        <3> QED  BY <1>e, <1>f, <3>1
    <2>3. CASE DbCommits(t) /\ UNCHANGED envVars
        <3>1. pc[a] # "commit" /\ UNCHANGED <<tx, faults>> /\ slot' # a
            BY <1>a, <1>b, <1>i, <2>1, <2>3
        <3>2. db' \in {db, tx}
            BY <2>3
        <3> QED  BY <1>e, <3>1, <3>2
    <2>4. CASE DbCommitThrows(t) /\ UNCHANGED <<connVars, envVars>>
        BY <2>4
    <2>5. CASE DbCommitThrows(t) /\ CommitFails
        <3>1. pc[a] # "commit" /\ (slot' = a => state = "committed")
            BY <1>a, <1>b, <1>i, <2>1, <2>5
        <3>2. state = "active" /\ faults' = faults + 1
            BY <2>5
        <3>3. PICK outcome \in {db, tx} : db' = outcome /\ tx' = outcome
            BY <2>5
        <3> QED  BY <1>e, <3>1, <3>2, <3>3
    <2> QED  BY <1>i, <2>2, <2>3, <2>4, <2>5
<1> USE ThreadKinds DEF DepositInv, InboxInside, Paying, Holds, DepositSteps
<1>1. ASSUME NEW m \in Messages, Deliver(m) PROVE DepositInv(a)'
    BY <1>1, <1>a, <1>b, <1>c, <1>d, <1>e, <1>f, <1>g DEF Deliver
<1>2. ASSUME NEW m \in Messages, InboxTake(m) PROVE DepositInv(a)'
    BY <1>2, <1>a, <1>b, <1>c, <1>d, <1>e, <1>f, <1>g DEF InboxTake
<1>3. CASE InboxCheck
    BY <1>3, <1>a, <1>b, <1>c, <1>d, <1>e, <1>f, <1>g DEF InboxCheck
<1>4. CASE InboxBegin
    BY <1>4, <1>a, <1>b, <1>c, <1>d, <1>e, <1>f, <1>g DEF InboxBegin
<1>5. CASE InboxInsert
    <2> DEFINE new == [tx EXCEPT !.inbox[order] = "PENDING"]
    <2>1. new.credits = tx.credits
        BY <1>f DEF Tables
    <2> HIDE DEF new
    <2>2. CASE Executes(new)
        <3>1. pc[a] # "commit" /\ pc'[a] = pc[a] /\ reply' = reply /\ faults' \in {faults, faults + 1}
            BY <1>5, <1>b, <1>c, <1>f DEF InboxInsert
        <3>2. tx'.credits = tx.credits /\ UNCHANGED <<slot, state, db>>
            BY <2>1, <2>2
        <3> QED  BY <1>h, <3>1, <3>2
    <2>3. CASE ~Executes(new)
        BY <1>5, <1>a, <1>b, <1>c, <1>d, <1>e, <1>f, <1>g, <2>3 DEF InboxInsert, new
    <2> QED  BY <2>2, <2>3
<1>6. CASE PayQuery
    BY <1>6, <1>a, <1>b, <1>c, <1>d, <1>e, <1>f, <1>g DEF PayQuery
<1>7. CASE PayRead
    BY <1>7, <1>a, <1>b, <1>c, <1>d, <1>e, <1>f, <1>g DEF PayRead
<1>8. CASE PayBegin
    BY <1>8, <1>a, <1>b, <1>c, <1>d, <1>e, <1>f, <1>g DEF PayBegin
<1>9. CASE PayUpdate
    BY <1>9, <1>a, <1>b, <1>c, <1>d, <1>e, <1>f, <1>g DEF PayUpdate
<1>10. CASE PayCommit
    BY <1>10, <1>a, <1>b, <1>c, <1>d, <1>e, <1>f, <1>g DEF PayCommit
<1>11. CASE PayDbCommit
    BY <1>11, <1>a, <1>b, <1>c, <1>d, <1>e, <1>f, <1>g DEF PayDbCommit
<1>12. CASE PayAbort
    BY <1>12, <1>a, <1>b, <1>c, <1>d, <1>e, <1>f, <1>g DEF PayAbort
<1>13. CASE PayDbRollback
    BY <1>13, <1>a, <1>b, <1>c, <1>d, <1>e, <1>f, <1>g DEF PayDbRollback
<1>14. CASE PayReset
    BY <1>14, <1>a, <1>b, <1>c, <1>d, <1>e, <1>f, <1>g DEF PayReset
<1>15. CASE InboxUpdate
    <2> DEFINE new == IF tx.inbox[order] = "none" THEN tx
                   ELSE [tx EXCEPT !.inbox[order] = IF success THEN "PROCESSED" ELSE "FAILED"]
    <2>1. new.credits = tx.credits
        BY <1>f DEF Tables
    <2> HIDE DEF new
    <2>2. CASE Executes(new)
        <3>1. pc[a] # "commit" /\ pc'[a] = pc[a] /\ reply' = reply /\ faults' \in {faults, faults + 1}
            BY <1>15, <1>b, <1>c, <1>f DEF InboxUpdate
        <3>2. tx'.credits = tx.credits /\ UNCHANGED <<slot, state, db>>
            BY <2>1, <2>2
        <3> QED  BY <1>h, <3>1, <3>2
    <2>3. CASE ~Executes(new)
        BY <1>15, <1>a, <1>b, <1>c, <1>d, <1>e, <1>f, <1>g, <2>3 DEF InboxUpdate, new
    <2> QED  BY <2>2, <2>3
<1>16. CASE InboxResult
    <2> DEFINE new == [tx EXCEPT !.event[msg] = "PENDING", !.verdict[msg] = success]
    <2>1. new.credits = tx.credits
        BY <1>f DEF Tables
    <2> HIDE DEF new
    <2>2. CASE Executes(new)
        <3>1. pc[a] # "commit" /\ pc'[a] = pc[a] /\ reply' = reply /\ faults' \in {faults, faults + 1}
            BY <1>16, <1>b, <1>c, <1>f DEF InboxResult
        <3>2. tx'.credits = tx.credits /\ UNCHANGED <<slot, state, db>>
            BY <2>1, <2>2
        <3> QED  BY <1>h, <3>1, <3>2
    <2>3. CASE ~Executes(new)
        BY <1>16, <1>a, <1>b, <1>c, <1>d, <1>e, <1>f, <1>g, <2>3 DEF InboxResult, new
    <2> QED  BY <2>2, <2>3
<1>17. CASE InboxCommit
    BY <1>17, <1>a, <1>b, <1>c, <1>d, <1>e, <1>f, <1>g DEF InboxCommit
<1>18. CASE InboxDbCommit
    <2>1. ((Resets(Inbox) \/ DbCommits(Inbox)) /\ UNCHANGED envVars) \/ DbCommitThrows(Inbox)
        BY <1>18 DEF InboxDbCommit
    <2>2. pc'[a] = pc[a] /\ reply' = reply
        BY <1>18, <1>b, <1>f DEF InboxDbCommit
    <2> HIDE DEF Resets, DbCommits, DbCommitThrows
    <2>3. /\ faults' \in {faults, faults + 1}
          /\ a \in db'.credits \cup tx'.credits => a \in db.credits \cup tx.credits
          /\ a \in db.credits => a \in db'.credits
          /\ pc[a] = "commit" /\ a \in tx.credits => a \in tx'.credits
          /\ pc[a] = "dbCommit" /\ slot' = a => slot = a /\ state' = state
        BY <1>b, <1>i, <2>1
    <2> QED  BY <1>h, <2>2, <2>3
<1>19. CASE InboxReset
    <2>1. Resets(Inbox) /\ UNCHANGED envVars
        BY <1>19 DEF InboxReset
    <2>2. pc'[a] = pc[a] /\ reply' = reply
        BY <1>19, <1>b, <1>f DEF InboxReset
    <2> HIDE DEF Resets, DbCommits, DbCommitThrows
    <2>3. /\ faults' \in {faults, faults + 1}
          /\ a \in db'.credits \cup tx'.credits => a \in db.credits \cup tx.credits
          /\ a \in db.credits => a \in db'.credits
          /\ pc[a] = "commit" /\ a \in tx.credits => a \in tx'.credits
          /\ pc[a] = "dbCommit" /\ slot' = a => slot = a /\ state' = state
        BY <1>b, <1>i, <2>1
    <2> QED  BY <1>h, <2>2, <2>3
<1>20. CASE PassBegin
    BY <1>20, <1>a, <1>b, <1>c, <1>d, <1>e, <1>f, <1>g DEF PassBegin
<1>21. CASE SelectPending
    BY <1>21, <1>a, <1>b, <1>c, <1>d, <1>e, <1>f, <1>g DEF SelectPending
<1>22. CASE Publish
    BY <1>22, <1>a, <1>b, <1>c, <1>d, <1>e, <1>f, <1>g DEF Publish
<1>23. CASE MarkProcessed
    <2> DEFINE new == IF tx.event[current] = "none" THEN tx
                      ELSE [tx EXCEPT !.event[current] = "PROCESSED"]
    <2>1. new.credits = tx.credits
        BY <1>f DEF Tables
    <2>2. pc[a] # "commit" /\ pc'[a] = pc[a] /\ reply' = reply
        BY <1>23, <1>b, <1>c, <1>f DEF MarkProcessed
    <2>3. (Executes(new) /\ UNCHANGED envVars) \/ StatementThrows(Outbox)
        BY <1>23 DEF MarkProcessed
    <2> HIDE DEF new
    <2>4. CASE Executes(new) /\ UNCHANGED envVars
        <3>1. tx'.credits = tx.credits /\ UNCHANGED <<slot, state, db, faults>>
            BY <2>1, <2>4
        <3> QED  BY <1>h, <2>2, <3>1
    <2>5. CASE StatementThrows(Outbox)
        BY <1>b, <1>c, <1>d, <1>e, <1>f, <2>2, <2>5
    <2> QED  BY <2>3, <2>4, <2>5
<1>24. CASE PassCommit
    BY <1>24, <1>a, <1>b, <1>c, <1>d, <1>e, <1>f, <1>g DEF PassCommit
<1>25. CASE PassDbCommit
    <2>1. ((Resets(Outbox) \/ DbCommits(Outbox)) /\ UNCHANGED envVars) \/ DbCommitThrows(Outbox)
        BY <1>25 DEF PassDbCommit
    <2>2. pc'[a] = pc[a] /\ reply' = reply
        BY <1>25, <1>b, <1>f DEF PassDbCommit
    <2> HIDE DEF Resets, DbCommits, DbCommitThrows
    <2>3. /\ faults' \in {faults, faults + 1}
          /\ a \in db'.credits \cup tx'.credits => a \in db.credits \cup tx.credits
          /\ a \in db.credits => a \in db'.credits
          /\ pc[a] = "commit" /\ a \in tx.credits => a \in tx'.credits
          /\ pc[a] = "dbCommit" /\ slot' = a => slot = a /\ state' = state
        BY <1>b, <1>i, <2>1
    <2> QED  BY <1>h, <2>2, <2>3
<1>26. CASE PassReset
    <2>1. Resets(Outbox) /\ UNCHANGED envVars
        BY <1>26 DEF PassReset
    <2>2. pc'[a] = pc[a] /\ reply' = reply
        BY <1>26, <1>b, <1>f DEF PassReset
    <2> HIDE DEF Resets, DbCommits, DbCommitThrows
    <2>3. /\ faults' \in {faults, faults + 1}
          /\ a \in db'.credits \cup tx'.credits => a \in db.credits \cup tx.credits
          /\ a \in db.credits => a \in db'.credits
          /\ pc[a] = "commit" /\ a \in tx.credits => a \in tx'.credits
          /\ pc[a] = "dbCommit" /\ slot' = a => slot = a /\ state' = state
        BY <1>b, <1>i, <2>1
    <2> QED  BY <1>h, <2>2, <2>3
<1>27. ASSUME NEW d \in Deposits, DepositBegin(d) PROVE DepositInv(a)'
    BY <1>27, <1>a, <1>b, <1>c, <1>d, <1>e, <1>f, <1>g DEF DepositBegin
<1>28. ASSUME NEW d \in Deposits, DepositUpdate(d) PROVE DepositInv(a)'
    <2> DEFINE new == [tx EXCEPT !.balance[Deposit(d).user] = tx.balance[Deposit(d).user] + Deposit(d).amount,
                                 !.version[Deposit(d).user] = tx.version[Deposit(d).user] + 1,
                                 !.credits = tx.credits \cup {d}]
    <2>1. new.credits = tx.credits \cup {d}
        BY <1>f DEF Tables
    <2>2. Holds(d) /\ d \in HttpThreads /\ d \in Threads
        BY <1>28, <1>c DEF DepositUpdate, HttpThreads
    <2> HIDE DEF new
    <2>3. CASE Executes(new) /\ Goto(d, "commit") /\ UNCHANGED <<reply, envVars>>
        <3>1. tx'.credits = tx.credits \cup {d} /\ UNCHANGED <<slot, state, db>>
            BY <2>1, <2>3
        <3>2. CASE d = a
            BY <1>d, <1>e, <1>f, <1>28, <2>2, <2>3, <3>1, <3>2 DEF DepositUpdate
        <3>3. CASE d # a
            BY <1>c, <1>d, <1>f, <2>2, <2>3, <3>1, <3>3
        <3> QED  BY <3>2, <3>3
    <2>4. CASE Executes(tx) /\ Goto(d, "abort") /\ UNCHANGED <<reply, envVars>>
        BY <1>b, <1>c, <1>d, <1>e, <1>f, <1>28, <2>2, <2>4
    <2>5. CASE (Refuses \/ ThrowsAtOnce(d)) /\ Answer(d, 400) /\ UNCHANGED envVars
        BY <1>28, <1>a, <1>b, <1>c, <1>d, <1>e, <1>f, <1>g, <2>2, <2>5 DEF DepositUpdate
    <2>6. CASE Refuses /\ Fault /\ Answer(d, 400)
        BY <1>28, <1>a, <1>b, <1>c, <1>d, <1>e, <1>f, <1>g, <2>2, <2>6 DEF DepositUpdate
    <2> QED  BY <1>28, <2>3, <2>4, <2>5, <2>6 DEF DepositUpdate, new
<1>29. ASSUME NEW d \in Deposits, DepositCommit(d) PROVE DepositInv(a)'
    BY <1>29, <1>a, <1>b, <1>c, <1>d, <1>e, <1>f, <1>g DEF DepositCommit
<1>30. ASSUME NEW d \in Deposits, DepositDbCommit(d) PROVE DepositInv(a)'
    <2>1. d \in HttpThreads /\ d \in Threads
        BY DEF HttpThreads
    <2>2. CASE d # a
        <3>1. ((Resets(d) \/ DbCommits(d)) /\ UNCHANGED envVars) \/ DbCommitThrows(d)
            BY <1>30 DEF DepositDbCommit
        <3>2. pc'[a] = pc[a] /\ reply'[a] = reply[a]
            BY <1>30, <1>b, <1>f, <2>1, <2>2 DEF DepositDbCommit
        <3> HIDE DEF Resets, DbCommits, DbCommitThrows
        <3>3. /\ faults' \in {faults, faults + 1}
              /\ a \in db'.credits \cup tx'.credits => a \in db.credits \cup tx.credits
              /\ a \in db.credits => a \in db'.credits
              /\ pc[a] = "commit" /\ a \in tx.credits => a \in tx'.credits
              /\ pc[a] = "dbCommit" /\ slot' = a => slot = a /\ state' = state
            BY <1>i, <2>2, <3>1
        <3> QED  BY <1>h, <3>2, <3>3
    <2>3. CASE d = a /\ Resets(a) /\ Answer(a, 200) /\ UNCHANGED envVars
        BY <1>30, <1>d, <1>e, <1>f, <2>1, <2>3 DEF DepositDbCommit
    <2>4. CASE d = a /\ (DbCommits(a) \/ DbCommitThrows(a))
        <3>1. slot \in {a, Nobody} \/ state = "committed"
            BY <1>a, <2>4
        <3>2. state \notin {"active", "aborted", "broken"}
            BY <1>30, <1>d, <1>f, <2>4, <3>1 DEF DepositDbCommit
        <3> QED  BY <2>4, <3>2
    <2> QED  BY <1>30, <2>2, <2>3, <2>4 DEF DepositDbCommit
<1>31. ASSUME NEW d \in Deposits, DepositAbort(d) PROVE DepositInv(a)'
    BY <1>31, <1>a, <1>b, <1>c, <1>d, <1>e, <1>f, <1>g DEF DepositAbort
<1>32. ASSUME NEW d \in Deposits, DepositDbRollback(d) PROVE DepositInv(a)'
    <2>1. d \in HttpThreads /\ d \in Threads
        BY DEF HttpThreads
    <2>2. pc[d] = "dbRollback" /\ (Answer(d, 400) \/ (Goto(d, "undo") /\ reply' = reply))
        BY <1>32 DEF DepositDbRollback
    <2>3. UNCHANGED envVars /\ UNCHANGED db
          /\ (slot' # a \/ (slot = a /\ (state = "active" \/ state' = state))) /\ tx' \in {db, tx}
          /\ (tx' = tx \/ (slot \notin {d, Nobody} => state = "committed"))
          /\ (slot = a /\ state = "active" => d = a \/ UNCHANGED tx)
        <3>1. CASE Resets(d)
            BY <1>32, <1>a, <1>b, <3>1 DEF DepositDbRollback
        <3>2. CASE DbAborts(d)
            BY <1>32, <1>a, <1>b, <3>2 DEF DepositDbRollback
        <3>3. CASE DbAbortThrows(d)
            BY <1>32, <1>a, <1>b, <3>3 DEF DepositDbRollback
        <3> QED  BY <1>32, <3>1, <3>2, <3>3 DEF DepositDbRollback
    <2>4. CASE d = a
        BY <1>d, <1>e, <1>f, <2>1, <2>2, <2>3, <2>4
    <2>5. CASE d # a
        <3>1. pc'[a] = pc[a] /\ reply'[a] = reply[a] /\ faults' = faults
            BY <1>b, <1>f, <2>1, <2>2, <2>3, <2>5
        <3>2. pc[a] = "commit" => tx' = tx
            BY <1>b, <1>c, <2>3, <2>5
        <3>3. pc[a] = "dbCommit" /\ slot' = a => slot = a /\ state' = state
            BY <1>d, <2>3
        <3> QED  BY <1>e, <1>h, <2>3, <3>1, <3>2, <3>3
    <2> QED  BY <2>4, <2>5
<1>33. ASSUME NEW d \in Deposits, DepositReset(d) PROVE DepositInv(a)'
    <2>1. d \in HttpThreads /\ d \in Threads
        BY DEF HttpThreads
    <2>2. pc[d] \in {"reset", "undo"} /\ Answer(d, IF pc[d] = "reset" THEN 200 ELSE 400)
        BY <1>33 DEF DepositReset
    <2>3. UNCHANGED envVars /\ UNCHANGED db
          /\ (slot' # a \/ (slot = a /\ (state = "active" \/ state' = state))) /\ tx' \in {db, tx}
          /\ (tx' = tx \/ (slot \notin {d, Nobody} => state = "committed"))
          /\ (slot = a /\ state = "active" => d = a \/ UNCHANGED tx)
        BY <1>33, <1>a, <1>b DEF DepositReset
    <2>4. CASE d = a
        BY <1>d, <1>e, <1>f, <2>1, <2>2, <2>3, <2>4
    <2>5. CASE d # a
        <3>1. pc'[a] = pc[a] /\ reply'[a] = reply[a] /\ faults' = faults
            BY <1>b, <1>f, <2>1, <2>2, <2>3, <2>5
        <3>2. pc[a] = "commit" => tx' = tx
            BY <1>b, <1>c, <2>3, <2>5
        <3>3. pc[a] = "dbCommit" /\ slot' = a => slot = a /\ state' = state
            BY <1>d, <2>3
        <3> QED  BY <1>e, <1>h, <2>3, <3>1, <3>2, <3>3
    <2> QED  BY <2>4, <2>5
<1>34. ASSUME NEW q \in Openings \cup Readers, QueryBegin(q) PROVE DepositInv(a)'
    BY <1>34, <1>a, <1>b, <1>c, <1>d, <1>e, <1>f, <1>g DEF QueryBegin
<1>35. ASSUME NEW q \in Openings \cup Readers, QueryRefused(q) PROVE DepositInv(a)'
    BY <1>35, <1>a, <1>b, <1>c, <1>d, <1>e, <1>f, <1>g DEF QueryRefused
<1>36. ASSUME NEW q \in Openings \cup Readers, QueryFault(q) PROVE DepositInv(a)'
    BY <1>36, <1>a, <1>b, <1>c, <1>d, <1>e, <1>f, <1>g DEF QueryFault
<1>37. ASSUME NEW c \in Openings, OpeningLookup(c) PROVE DepositInv(a)'
    BY <1>37, <1>a, <1>b, <1>c, <1>d, <1>e, <1>f, <1>g DEF OpeningLookup
<1>38. ASSUME NEW c \in Openings, OpeningInsert(c) PROVE DepositInv(a)'
    <2>1. pc'[a] = pc[a] /\ reply'[a] = reply[a] /\ UNCHANGED <<slot, state, faults>>
        BY <1>38, <1>b, <1>f DEF OpeningInsert
    <2>2. pc[a] # "commit"
        BY <1>38, <1>c, <1>g DEF OpeningInsert
    <2> DEFINE new == [db EXCEPT !.users = @ \cup {Owner(c)}]
    <2>3. new.credits = db.credits
        BY <1>f DEF Tables
    <2>4. (db' = new /\ tx' = new) \/ UNCHANGED <<db, tx>>
        BY <1>38 DEF OpeningInsert
    <2> HIDE DEF new
    <2> QED  BY <1>h, <2>1, <2>2, <2>3, <2>4
<1>39. ASSUME NEW c \in Openings, OpeningRead(c) PROVE DepositInv(a)'
    BY <1>39, <1>a, <1>b, <1>c, <1>d, <1>e, <1>f, <1>g DEF OpeningRead
<1>40. ASSUME NEW g \in Readers, ReaderRead(g) PROVE DepositInv(a)'
    BY <1>40, <1>a, <1>b, <1>c, <1>d, <1>e, <1>f, <1>g DEF ReaderRead
<1>41. CASE MqBreak
    BY <1>41, <1>a, <1>b, <1>c, <1>d, <1>e, <1>f, <1>g DEF MqBreak
<1>42. CASE ProcessDies
    BY <1>42, <1>a, <1>b, <1>c, <1>d, <1>e, <1>f, <1>g DEF ProcessDies
<1>43. CASE Restart
    BY <1>43, <1>a, <1>b, <1>c, <1>d, <1>e, <1>f, <1>g DEF Restart
<1>44. CASE UNCHANGED vars
    BY <1>44, <1>d
<1>45. QED
    BY <1>1, <1>2, <1>3, <1>4, <1>5, <1>6, <1>7, <1>8, <1>9, <1>10, <1>11, <1>12, <1>13,
       <1>14, <1>15, <1>16, <1>17, <1>18, <1>19, <1>20, <1>21, <1>22, <1>23, <1>24, <1>25,
       <1>26, <1>27, <1>28, <1>29, <1>30, <1>31, <1>32, <1>33, <1>34, <1>35, <1>36, <1>37,
       <1>38, <1>39, <1>40, <1>41, <1>42, <1>43, <1>44
       DEF Next, InboxStep, OutboxStep, DepositStep, OpeningStep, Crash, DanglingDeath

LEMMA AnswersStep ==
    PaymentsInv /\ StackInv /\ CreditsInv /\ AnswersInv /\ [Next]_vars => AnswersInv'
<1> SUFFICES ASSUME PaymentsInv, StackInv, CreditsInv, AnswersInv, [Next]_vars
             PROVE  AnswersInv'
    OBVIOUS
<1>1. TypeOK /\ GrowingInv /\ AnsweredOnceInv /\ DepositsInv /\ OpeningsInv
    BY DEF PaymentsInv, AnswersInv
<1>2. GrowingInv' /\ AnsweredOnceInv' /\ OpeningsInv'
    BY <1>1, GrowingStep, AnsweredOnceStep, OpeningsStep
<1>3. DepositsInv'
    <2> SUFFICES ASSUME ~raced', NEW a \in Deposits PROVE DepositInv(a)'
        BY DEF DepositsInv
    <2> QED  BY <1>1, DepositStays
<1> QED  BY <1>2, <1>3 DEF AnswersInv

LEMMA AnswersInvHolds == Spec => []AnswersInv
<1>1. Init => AnswersInv
    <2> SUFFICES ASSUME Init PROVE AnswersInv
        OBVIOUS
    <2>1. db = EmptyTables /\ tx = EmptyTables /\ EmptyTables.credits = {} /\ EmptyTables.users = {}
        BY DEF Init, EmptyTables
    <2>2. /\ \A t \in HttpThreads : reply[t] = 0 /\ pc[t] = "idle" /\ t \in Threads
          /\ Deposits \cup Openings \subseteq HttpThreads
        BY ThreadKinds DEF Init
    <2>3. GrowingInv /\ AnsweredOnceInv
        BY <2>1, <2>2 DEF GrowingInv, AnsweredOnceInv
    <2>4. DepositsInv
        BY <2>1, <2>2 DEF DepositsInv, DepositInv
    <2>5. OpeningsInv
        BY <2>2 DEF OpeningsInv, Opened
    <2> QED  BY <2>3, <2>4, <2>5 DEF AnswersInv
<1>2. BooksInv => CreditsInv
    BY DEF BooksInv
<1> QED  BY <1>1, <1>2, AnswersStep, PaymentsInvariant, JudgedInvHolds, BooksInvHolds, PTL DEF Spec

(* AnswersAreTrue: as long as no thread has ended another one's transaction, *)
(* a deposit answered 200 is booked and, without a failed database call, one *)
(* answered 400 is not; an account answered 201 exists, and of two openings  *)
(* for one user that test and insert in separate transactions at most one    *)
(* is answered 201.                                                          *)
THEOREM Answers == Spec => []AnswersAreTrue
<1>1. AnswersInv => AnswersAreTrue
    BY DEF AnswersInv, DepositsInv, DepositInv, OpeningsInv, Opened, AnswersAreTrue
<1> QED  BY <1>1, AnswersInvHolds, PTL
=============================================================================
