------------------------- MODULE WebSocketNotifier -------------------------
(***************************************************************************)
(* The websocket service of api-gateway/: one thread runs the io_context   *)
(* with the acceptor and the sessions, another consumes payment.results    *)
(* and notifies the sessions subscribed to the order a result names.       *)
(*                                                                         *)
(* The threads meet in NotificationManager, behind its mutex, and in the   *)
(* strands: send() posts a message, and the io thread later moves it to    *)
(* the session's write queue.  A step is what one thread does between two  *)
(* such meetings; a handler of the io thread that meets the other thread   *)
(* more than once takes several (`handling`).                              *)
(*                                                                         *)
(* A subscription is a weak pointer.  A session lives as long as a pending *)
(* operation, a posted message or a running handler refers to it.          *)
(*                                                                         *)
(* Outside the model: the contents of messages other than the order, the   *)
(* number of the result and the kind; frames that are no subscription,     *)
(* which the session ignores; results that do not parse, which the         *)
(* consumer ignores; exceptions thrown while the process starts.           *)
(***************************************************************************)
EXTENDS Naturals, Sequences, SequencesExt, FiniteSets

CONSTANTS
    Sessions,      \* connections of clients, each used once
    Orders,        \* order ids
    NoOrder,       \* the empty order id, which a client may send as well
    Malformed,     \* a subscription whose order_id is not a string
    Nobody,        \* the io thread runs no handler
    Results,       \* the orders that the messages of payment.results name, in order
    MaxRequests    \* bound: subscriptions each client asks for

ASSUME NamesAssumption ==
    /\ NoOrder \notin Orders
    /\ Malformed \notin Orders \cup {NoOrder}
    /\ Nobody \notin Sessions

ASSUME ResultsAssumption ==
    /\ Results \in Seq(Orders)
    /\ MaxRequests \in [Sessions -> Nat]

VARIABLES
    running,       \* the flag main() shares with the consumer
    ioStopped,     \* ioc.stop() was called
    exited,        \* main() has returned
    consumer,      \* the consumer thread: at the test of the flag, waiting, ended
    mqUp,          \* its RabbitMQ connection works
    taken,         \* results consumed
    accepting,     \* an async_accept is pending
    handling,      \* the handler the io thread is in the middle of
    phase,         \* of each session: none, handshake, open, gone
    net,           \* of each connection: up, closed by the client, reset
    reading,       \* async_read is pending
    orderId,       \* order_id_
    posted,        \* messages posted to the strand
    queue,         \* write_queue_
    writing,       \* writing_
    writes,        \* async_write operations pending
    subs,          \* subscriptions_: order id -> sessions
    asked,         \* history: subscriptions each client asked for
    wanted,        \* history: their orders, malformed requests left out
    received       \* history: messages each client got

stopVars == <<running, ioStopped, exited>>
consumerVars == <<consumer, mqUp, taken>>
mainVars == <<stopVars, consumerVars, accepting>>
strandVars == <<posted, queue, writing, writes, received>>
historyVars == <<asked, wanted>>
sessionVars == <<handling, phase, net, reading, orderId, strandVars, historyVars>>
vars == <<mainVars, sessionVars, subs>>

Ids == Orders \cup {NoOrder}
Idle == [session |-> Nobody, step |-> "idle"]

Ack(o) == [kind |-> "subscribed", order |-> o, number |-> 0]
Update(o, n) == [kind |-> "order_update", order |-> o, number |-> n]
Message == {Ack(o) : o \in Ids} \cup {Update(o, n) : o \in Orders, n \in 1 .. Len(Results)}

(* Some operation, message or handler holds a shared_ptr to the session.     *)
Alive(s) ==
    \/ phase[s] = "handshake"
    \/ reading[s]
    \/ writes[s] > 0
    \/ posted[s] # <<>>
    \/ handling.session = s

Init ==
    /\ running = TRUE
    /\ ioStopped = FALSE
    /\ exited = FALSE
    /\ consumer = "check"
    /\ mqUp = TRUE
    /\ taken = 0
    /\ accepting = TRUE
    /\ handling = Idle
    /\ phase = [s \in Sessions |-> "none"]
    /\ net = [s \in Sessions |-> "up"]
    /\ reading = [s \in Sessions |-> FALSE]
    /\ orderId = [s \in Sessions |-> NoOrder]
    /\ posted = [s \in Sessions |-> <<>>]
    /\ queue = [s \in Sessions |-> <<>>]
    /\ writing = [s \in Sessions |-> FALSE]
    /\ writes = [s \in Sessions |-> 0]
    /\ subs = [o \in Ids |-> {}]
    /\ asked = [s \in Sessions |-> <<>>]
    /\ wanted = [s \in Sessions |-> <<>>]
    /\ received = [s \in Sessions |-> <<>>]

-----------------------------------------------------------------------------
(* NotificationManager.                                                      *)

(* Mutant of Unsubscribed: the session is not found.                         *)
Unsubscribed_Not(s) == subs

(* unsubscribe(order_id_, self), left out while order_id_ is empty.          *)
Unsubscribed(s) ==
    IF orderId[s] = NoOrder THEN subs ELSE [subs EXCEPT ![orderId[s]] = @ \ {s}]

Subscribed(s) == [subs EXCEPT ![orderId[s]] = @ \cup {s}]

(* Mutant of Told: the loop ends at a subscriber that does not live.         *)
Told_StopsAtDead(o) == IF \A s \in subs[o] : Alive(s) THEN subs[o] ELSE {}

(* The sessions notify() sends to, and those that stay on the list.          *)
Told(o) == {s \in subs[o] : Alive(s)}

(* Mutant of Kept: a list that was notified is erased.                       *)
Kept_None(o) == {}

Kept(o) == {s \in subs[o] : Alive(s)}

-----------------------------------------------------------------------------
(* Accepting connections.                                                    *)

(* The io thread takes up a handler.                                         *)
Ready == handling = Idle /\ ~ioStopped

Connect(s) ==
    /\ Ready
    /\ accepting
    /\ phase[s] = "none"
    /\ phase' = [phase EXCEPT ![s] = "handshake"]
    /\ UNCHANGED <<mainVars, handling, net, reading, orderId, strandVars, subs, historyVars>>

(* The handler returns without accepting again.                              *)
AcceptFails ==
    /\ Ready
    /\ accepting
    /\ accepting' = FALSE
    /\ UNCHANGED <<stopVars, consumerVars, sessionVars, subs>>

Handshake(s) ==
    /\ Ready
    /\ phase[s] = "handshake"
    /\ \/ /\ net[s] = "up"
          /\ phase' = [phase EXCEPT ![s] = "open"]
          /\ reading' = [reading EXCEPT ![s] = TRUE]
       \/ /\ phase' = [phase EXCEPT ![s] = "gone"]
          /\ UNCHANGED reading
    /\ UNCHANGED <<mainVars, handling, net, orderId, strandVars, subs, historyVars>>

-----------------------------------------------------------------------------
(* on_read.                                                                  *)

CanRead(s) == Ready /\ reading[s]

(* The stream of a session whose write has failed is failed as well.         *)
WriteFailed(s) == writing[s] /\ writes[s] = 0

(* A request arrives; its handler ends the session's previous subscription.  *)
ReadRequest(s, request) ==
    /\ CanRead(s)
    /\ net[s] = "up"
    /\ Len(asked[s]) < MaxRequests[s]
    /\ asked' = [asked EXCEPT ![s] = Append(@, request)]
    /\ subs' = Unsubscribed(s)

(* The order is an id: the handler goes on, and no read is pending.          *)
ReadSubscribe(s, o) ==
    /\ ReadRequest(s, o)
    /\ handling' = [session |-> s, step |-> "subscribe"]
    /\ orderId' = [orderId EXCEPT ![s] = o]
    /\ reading' = [reading EXCEPT ![s] = FALSE]
    /\ wanted' = [wanted EXCEPT ![s] = Append(@, o)]
    /\ UNCHANGED <<mainVars, phase, net, strandVars>>

(* It is no string: get() throws, order_id_ keeps its value, the session     *)
(* reads on.                                                                 *)
ReadMalformed(s) ==
    /\ ReadRequest(s, Malformed)
    /\ UNCHANGED <<mainVars, handling, phase, net, reading, orderId, strandVars, wanted>>

Subscribe ==
    /\ handling.step = "subscribe"
    /\ LET s == handling.session IN
       /\ subs' = Subscribed(s)
       /\ handling' = [session |-> s, step |-> "answer"]
    /\ UNCHANGED <<mainVars, phase, net, reading, orderId, strandVars, historyVars>>

(* The answer is posted and the next read begins.                            *)
Answer ==
    /\ handling.step = "answer"
    /\ LET s == handling.session IN
       /\ posted' = [posted EXCEPT ![s] = Append(@, Ack(orderId[s]))]
       /\ reading' = [reading EXCEPT ![s] = TRUE]
    /\ handling' = Idle
    /\ UNCHANGED <<mainVars, phase, net, orderId, queue, writing, writes, received, subs, historyVars>>

(* An orderly close ends the subscription.                                   *)
ReadClosed(s) ==
    /\ CanRead(s)
    /\ net[s] = "closed"
    /\ ~WriteFailed(s)
    /\ reading' = [reading EXCEPT ![s] = FALSE]
    /\ phase' = [phase EXCEPT ![s] = "gone"]
    /\ subs' = Unsubscribed(s)
    /\ UNCHANGED <<mainVars, handling, net, orderId, strandVars, historyVars>>

(* Any other error leaves it to the weak pointer.                            *)
ReadFails(s) ==
    /\ CanRead(s)
    /\ net[s] = "reset" \/ WriteFailed(s)
    /\ reading' = [reading EXCEPT ![s] = FALSE]
    /\ phase' = [phase EXCEPT ![s] = "gone"]
    /\ UNCHANGED <<mainVars, handling, net, orderId, strandVars, subs, historyVars>>

-----------------------------------------------------------------------------
(* enqueue_write, do_write and on_write.                                     *)

StartedWrites(s) == IF writing[s] THEN writes[s] ELSE 1

RunPosted(s) ==
    /\ Ready
    /\ posted[s] # <<>>
    /\ posted' = [posted EXCEPT ![s] = Tail(@)]
    /\ queue' = [queue EXCEPT ![s] = Append(@, Head(posted[s]))]
    /\ writing' = [writing EXCEPT ![s] = TRUE]
    /\ writes' = [writes EXCEPT ![s] = StartedWrites(s)]
    /\ UNCHANGED <<mainVars, handling, phase, net, reading, orderId, received, subs, historyVars>>

(* Mutant of Popped: the written message stays in the queue.                 *)
Popped_Not(s) == queue[s]

Popped(s) == Tail(queue[s])

(* Mutant of NextWrites: the next message is not written.                    *)
NextWrites_None(s) == 0

NextWrites(s) == IF Popped(s) = <<>> THEN 0 ELSE 1

(* The written message leaves the queue, and the next one is written.        *)
WriteDone(s) ==
    /\ Ready
    /\ writes[s] > 0
    /\ phase[s] = "open" /\ net[s] # "reset"
    /\ received' = [received EXCEPT ![s] = Append(@, Head(queue[s]))]
    /\ queue' = [queue EXCEPT ![s] = Popped(s)]
    /\ writing' = [writing EXCEPT ![s] = Popped(s) # <<>>]
    /\ writes' = [writes EXCEPT ![s] = NextWrites(s)]
    /\ UNCHANGED <<mainVars, handling, phase, net, reading, orderId, posted, subs, historyVars>>

(* The subscription ends; writing_ stays TRUE and the queue stays.           *)
WriteFails(s) ==
    /\ Ready
    /\ writes[s] > 0
    /\ net[s] # "up"
    /\ writes' = [writes EXCEPT ![s] = 0]
    /\ subs' = Unsubscribed(s)
    /\ UNCHANGED <<mainVars, handling, phase, net, reading, orderId, posted, queue, writing>>
    /\ UNCHANGED <<received, historyVars>>

-----------------------------------------------------------------------------
(* The consumer thread.                                                      *)

ConsumerChecks ==
    /\ consumer = "check"
    /\ consumer' = IF running THEN "wait" ELSE "ended"
    /\ UNCHANGED <<stopVars, mqUp, taken, accepting, sessionVars, subs>>

ConsumerTimesOut ==
    /\ consumer = "wait"
    /\ mqUp
    /\ consumer' = "check"
    /\ UNCHANGED <<stopVars, mqUp, taken, accepting, sessionVars, subs>>

(* A result: the message is posted to every subscriber that lives, and the   *)
(* others are dropped.                                                       *)
Notify ==
    /\ consumer = "wait"
    /\ mqUp
    /\ taken < Len(Results)
    /\ taken' = taken + 1
    /\ consumer' = "check"
    /\ LET o == Results[taken'] IN
       /\ subs' = [subs EXCEPT ![o] = Kept(o)]
       /\ posted' = [s \in Sessions |->
             IF s \in Told(o) THEN Append(posted[s], Update(o, taken')) ELSE posted[s]]
    /\ UNCHANGED <<stopVars, mqUp, accepting>>
    /\ UNCHANGED <<handling, phase, net, reading, orderId, queue, writing, writes, received, historyVars>>

(* consume() throws; the thread stops the io_context and ends.               *)
ConsumerThrows ==
    /\ consumer = "wait"
    /\ ~mqUp
    /\ consumer' = "ended"
    /\ running' = FALSE
    /\ ioStopped' = TRUE
    /\ UNCHANGED <<exited, mqUp, taken, accepting, sessionVars, subs>>

-----------------------------------------------------------------------------
(* main(): SIGINT and SIGTERM, and the end.                                  *)

Signal ==
    /\ Ready
    /\ running' = FALSE
    /\ ioStopped' = TRUE
    /\ UNCHANGED <<exited, consumerVars, accepting, sessionVars, subs>>

(* ioc.run() has returned and the consumer is joined.                        *)
Exit ==
    /\ ioStopped
    /\ handling = Idle
    /\ consumer = "ended"
    /\ ~exited
    /\ exited' = TRUE
    /\ UNCHANGED <<running, ioStopped, consumerVars, accepting, sessionVars, subs>>

-----------------------------------------------------------------------------
(* Clients, the network and RabbitMQ.                                        *)

Disconnect(s, how) ==
    /\ phase[s] # "none"
    /\ net[s] = "up"
    /\ net' = [net EXCEPT ![s] = how]
    /\ UNCHANGED <<mainVars, handling, phase, reading, orderId, strandVars, subs, historyVars>>

MqBreaks ==
    /\ mqUp
    /\ mqUp' = FALSE
    /\ UNCHANGED <<stopVars, consumer, taken, accepting, sessionVars, subs>>

-----------------------------------------------------------------------------
SessionStep(s) ==
    \/ Handshake(s)
    \/ \E o \in Ids : ReadSubscribe(s, o)
    \/ ReadMalformed(s)
    \/ ReadClosed(s) \/ ReadFails(s)
    \/ RunPosted(s) \/ WriteDone(s) \/ WriteFails(s)

ConsumerStep == ConsumerChecks \/ ConsumerTimesOut \/ Notify \/ ConsumerThrows

Next ==
    \/ \E s \in Sessions : Connect(s) \/ SessionStep(s)
    \/ AcceptFails
    \/ Subscribe \/ Answer
    \/ ConsumerStep
    \/ Signal \/ Exit
    \/ \E s \in Sessions, how \in {"closed", "reset"} : Disconnect(s, how)
    \/ MqBreaks

(* The operating system schedules both threads, the io_context runs every    *)
(* handler that is due, and a write to a connection that is up completes.    *)
(* Nothing is assumed of clients, of the network failing, or of results.     *)
Fairness ==
    /\ WF_vars(Subscribe \/ Answer)
    /\ \A s \in Sessions : WF_vars(RunPosted(s)) /\ WF_vars(WriteDone(s) \/ WriteFails(s))
    /\ WF_vars(ConsumerStep)
    /\ WF_vars(Exit)

Spec == Init /\ [][Next]_vars
FairSpec == Spec /\ Fairness

-----------------------------------------------------------------------------
(* Properties.                                                               *)

(* Types; no two writes of a session are pending at a time, and the message  *)
(* a write refers to stays in the queue until it is done.                    *)
TypeOK ==
    /\ running \in BOOLEAN /\ ioStopped \in BOOLEAN /\ exited \in BOOLEAN
    /\ mqUp \in BOOLEAN /\ accepting \in BOOLEAN
    /\ consumer \in {"check", "wait", "ended"}
    /\ taken \in 0 .. Len(Results)
    /\ handling \in {Idle} \cup [session : Sessions, step : {"subscribe", "answer"}]
    /\ phase \in [Sessions -> {"none", "handshake", "open", "gone"}]
    /\ net \in [Sessions -> {"up", "closed", "reset"}]
    /\ reading \in [Sessions -> BOOLEAN]
    /\ orderId \in [Sessions -> Ids]
    /\ posted \in [Sessions -> Seq(Message)]
    /\ queue \in [Sessions -> Seq(Message)]
    /\ writing \in [Sessions -> BOOLEAN]
    /\ writes \in [Sessions -> 0 .. 1]
    /\ subs \in [Ids -> SUBSET Sessions]
    /\ asked \in [Sessions -> Seq(Ids \cup {Malformed})]
    /\ wanted \in [Sessions -> Seq(Ids)]
    /\ received \in [Sessions -> Seq(Message)]
    /\ \A s \in Sessions : (writing[s] <=> queue[s] # <<>>) /\ (writes[s] = 1 => writing[s])

(* on_read and on_write: a session is on the list of the order it names in   *)
(* order_id_ and on no other, whatever is asked of it, and it stays there    *)
(* after its end only when its connection was reset, never after an orderly  *)
(* close.  The empty id is the exception: nobody leaves its list.            *)
ListsAreTrue ==
    \A o \in Orders : \A s \in subs[o] :
        orderId[s] = o /\ (Alive(s) \/ net[s] = "reset")

Acks(messages) == {i \in 1 .. Len(messages) : messages[i].kind = "subscribed"}

(* The client was told that its last request is in force.                    *)
Listening(s, o) ==
    /\ net[s] = "up" /\ ~exited
    /\ asked[s] # <<>> /\ Last(asked[s]) = o
    /\ Cardinality(Acks(received[s])) = Len(wanted[s])

(* on_read and unsubscribe: what "subscribed" tells a client holds until it  *)
(* asks again or the connection ends.  Its session lives and is on the list, *)
(* whatever other sessions, earlier results and dead subscribers did to it.  *)
AckedIsSubscribed ==
    \A s \in Sessions, o \in Ids : Listening(s, o) => Alive(s) /\ s \in subs[o]

(* A client gets no update of an order it has left: after the k-th answer    *)
(* updates are of the k-th order asked for, or of the next one, whose answer *)
(* is posted after the subscription and may be overtaken by a result.        *)
NoStaleUpdates ==
    \A s \in Sessions : \A i \in 1 .. Len(received[s]) :
        received[s][i].kind = "order_update" =>
            LET k == Cardinality({a \in Acks(received[s]) : a < i}) IN
            \E w \in {k, k + 1} \cap 1 .. Len(wanted[s]) : wanted[s][w] = received[s][i].order

(* From the strand to the client: updates keep the order in which results    *)
(* were consumed, and none comes twice.                                      *)
UpdatesInOrder ==
    \A s \in Sessions :
        LET stream == received[s] \o queue[s] \o posted[s]
            updates == {i \in 1 .. Len(stream) : stream[i].kind = "order_update"}
        IN \A i, j \in updates : i < j => stream[i].number < stream[j].number

(* Whatever is posted to a session is received, unless the connection ends   *)
(* or the service stops.                                                     *)
UpdatesArrive ==
    \A s \in Sessions, n \in 1 .. Len(Results) :
        LET in(messages) == \E i \in 1 .. Len(messages) :
                messages[i].kind = "order_update" /\ messages[i].number = n
        IN in(posted[s]) ~> in(received[s]) \/ net[s] # "up" \/ ioStopped

(* The service implements the abstract Notifications: seen from outside,     *)
(* two threads, strands, weak pointers to dead sessions and failing writes   *)
(* are sessions that follow one order each and boxes that only ever take an  *)
(* update for all followers of its order at once, and give them back in      *)
(* that order.                                                               *)
FollowedBy(s) ==
    IF Alive(s) /\ \E o \in Orders : s \in subs[o]
    THEN CHOOSE o \in Orders : s \in subs[o]
    ELSE NoOrder

(* The updates among messages, in their order.                               *)
UpdatesAmong(messages) ==
    LET upTo[n \in 0 .. Len(messages)] ==
            IF n = 0 THEN <<>>
            ELSE IF messages[n].kind = "order_update" THEN Append(upTo[n - 1], messages[n])
            ELSE upTo[n - 1]
    IN upTo[Len(messages)]

Abstract == INSTANCE Notifications
    WITH Nothing <- NoOrder,
         Updates <- {Update(Results[n], n) : n \in 1 .. Len(Results)},
         follows <- [s \in Sessions |-> FollowedBy(s)],
         box <- [s \in Sessions |-> UpdatesAmong(queue[s] \o posted[s])],
         consumed <- [o \in Orders |-> Cardinality({n \in 1 .. taken : Results[n] = o})]

ImplementsNotifications == Abstract!NotificationsSpec
=============================================================================
