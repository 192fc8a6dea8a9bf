---------------------- MODULE WebSocketNotifierProofs ----------------------
(***************************************************************************)
(* Proofs about WebSocketNotifier, for any sessions, orders, results and   *)
(* number of requests: its invariants, and that it implements              *)
(* Notifications.                                                          *)
(***************************************************************************)
EXTENDS WebSocketNotifier, SequenceTheorems, DataTheorems

(* The three parts of the types: the main program, the sessions, the lists.  *)
MainOK ==
    /\ running \in BOOLEAN /\ ioStopped \in BOOLEAN /\ exited \in BOOLEAN
    /\ mqUp \in BOOLEAN /\ accepting \in BOOLEAN
    /\ consumer \in {"check", "wait", "ended"}
    /\ taken \in 0 .. Len(Results)

SessionsOK ==
    /\ handling \in {Idle} \cup [session : Sessions, step : {"subscribe", "answer"}]
    /\ phase \in [Sessions -> {"none", "handshake", "open", "gone"}]
    /\ net \in [Sessions -> {"up", "closed", "reset"}]
    /\ reading \in [Sessions -> BOOLEAN]
    /\ orderId \in [Sessions -> Ids]
    /\ asked \in [Sessions -> Seq(Ids \cup {Malformed})]
    /\ wanted \in [Sessions -> Seq(Ids)]

StrandsOK ==
    /\ posted \in [Sessions -> Seq(Message)]
    /\ queue \in [Sessions -> Seq(Message)]
    /\ writing \in [Sessions -> BOOLEAN]
    /\ writes \in [Sessions -> 0 .. 1]
    /\ received \in [Sessions -> Seq(Message)]
    /\ \A s \in Sessions : (writing[s] <=> queue[s] # <<>>) /\ (writes[s] = 1 => writing[s])

ListsOK == subs \in [Ids -> SUBSET Sessions]

LEMMA TypeParts == TypeOK <=> MainOK /\ SessionsOK /\ StrandsOK /\ ListsOK
BY DEF TypeOK, MainOK, SessionsOK, StrandsOK, ListsOK

LEMMA Appended ==
    ASSUME NEW S, NEW q \in Seq(S), NEW e \in S
    PROVE  Append(q, e) \in Seq(S) /\ Append(q, e) # <<>>
<1>1. Append(q, e) \in Seq(S)
  OBVIOUS
<1>2. Len(Append(q, e)) = Len(q) + 1 /\ Len(q) \in Nat
  OBVIOUS
<1>3. Len(<<>>) = 0
  OBVIOUS
<1> QED
  BY <1>1, <1>2, <1>3

LEMMA UnsubscribedIsTyped ==
    ASSUME ListsOK, SessionsOK, NEW s \in Sessions
    PROVE  Unsubscribed(s) \in [Ids -> SUBSET Sessions]
BY DEF ListsOK, SessionsOK, Unsubscribed

LEMMA HandledSession ==
    ASSUME SessionsOK, handling.step \in {"subscribe", "answer"}
    PROVE  handling.session \in Sessions /\ handling # Idle
BY DEF SessionsOK, Idle

LEMMA TypeStep == TypeOK /\ [Next]_vars => TypeOK'
<1> SUFFICES ASSUME MainOK, SessionsOK, StrandsOK, ListsOK, [Next]_vars
             PROVE  MainOK' /\ SessionsOK' /\ StrandsOK' /\ ListsOK'
  BY TypeParts DEF TypeOK, MainOK, SessionsOK, StrandsOK, ListsOK
<1>1. ASSUME NEW s \in Sessions, Connect(s) \/ Handshake(s)
      PROVE  MainOK' /\ SessionsOK' /\ StrandsOK' /\ ListsOK'
  <2>1. SessionsOK'
    BY <1>1 DEF Connect, Handshake, SessionsOK, historyVars
  <2>2. UNCHANGED <<mainVars, strandVars, subs>>
    BY <1>1 DEF Connect, Handshake
  <2> QED
    BY <2>1, <2>2 DEF MainOK, StrandsOK, ListsOK, mainVars, stopVars, consumerVars, strandVars
<1>2. ASSUME NEW s \in Sessions, NEW o \in Ids, ReadSubscribe(s, o)
      PROVE  MainOK' /\ SessionsOK' /\ StrandsOK' /\ ListsOK'
  <2>1. ListsOK'
    BY <1>2, UnsubscribedIsTyped DEF ReadSubscribe, ReadRequest, ListsOK
  <2>2. SessionsOK'
    BY <1>2 DEF ReadSubscribe, ReadRequest, SessionsOK
  <2>3. MainOK' /\ StrandsOK'
    BY <1>2 DEF ReadSubscribe, ReadRequest, MainOK, StrandsOK, mainVars, stopVars, consumerVars, strandVars
  <2> QED
    BY <2>1, <2>2, <2>3
<1>3. ASSUME NEW s \in Sessions, ReadMalformed(s)
      PROVE  MainOK' /\ SessionsOK' /\ StrandsOK' /\ ListsOK'
  <2>1. ListsOK'
    BY <1>3, UnsubscribedIsTyped DEF ReadMalformed, ReadRequest, ListsOK
  <2>2. SessionsOK'
    BY <1>3 DEF ReadMalformed, ReadRequest, SessionsOK
  <2>3. MainOK' /\ StrandsOK'
    BY <1>3 DEF ReadMalformed, ReadRequest, MainOK, StrandsOK, mainVars, stopVars, consumerVars, strandVars
  <2> QED
    BY <2>1, <2>2, <2>3
<1>4. ASSUME NEW s \in Sessions, ReadClosed(s) \/ ReadFails(s)
      PROVE  MainOK' /\ SessionsOK' /\ StrandsOK' /\ ListsOK'
  <2>1. ListsOK'
    BY <1>4, UnsubscribedIsTyped DEF ReadClosed, ReadFails, ListsOK
  <2>2. SessionsOK'
    BY <1>4 DEF ReadClosed, ReadFails, SessionsOK, historyVars
  <2>3. MainOK' /\ StrandsOK'
    BY <1>4 DEF ReadClosed, ReadFails, MainOK, StrandsOK, mainVars, stopVars, consumerVars, strandVars
  <2> QED
    BY <2>1, <2>2, <2>3
<1>5. CASE Subscribe
  <2> DEFINE s == handling.session
  <2>1. s \in Sessions
    BY <1>5, HandledSession DEF Subscribe
  <2>2. ListsOK'
    BY <1>5, <2>1 DEF Subscribe, Subscribed, ListsOK, SessionsOK
  <2>3. SessionsOK'
    BY <1>5, <2>1 DEF Subscribe, SessionsOK, historyVars
  <2>4. MainOK' /\ StrandsOK'
    BY <1>5 DEF Subscribe, MainOK, StrandsOK, mainVars, stopVars, consumerVars, strandVars
  <2> QED
    BY <2>2, <2>3, <2>4
<1>6. CASE Answer
  <2> DEFINE s == handling.session
  <2>1. s \in Sessions /\ Ack(orderId[s]) \in Message
    BY <1>6, HandledSession DEF Answer, SessionsOK, Message
  <2>2. StrandsOK'
    BY <1>6, <2>1 DEF Answer, StrandsOK
  <2>3. SessionsOK'
    BY <1>6, <2>1 DEF Answer, SessionsOK, historyVars
  <2>4. MainOK' /\ ListsOK'
    BY <1>6 DEF Answer, MainOK, ListsOK, mainVars, stopVars, consumerVars
  <2> QED
    BY <2>2, <2>3, <2>4
<1>7. ASSUME NEW s \in Sessions, RunPosted(s)
      PROVE  MainOK' /\ SessionsOK' /\ StrandsOK' /\ ListsOK'
  <2>1. StartedWrites(s) \in 0 .. 1
    BY DEF StartedWrites, StrandsOK
  <2>2. /\ Head(posted[s]) \in Message /\ Tail(posted[s]) \in Seq(Message)
        /\ Append(queue[s], Head(posted[s])) \in Seq(Message)
        /\ Append(queue[s], Head(posted[s])) # <<>>
    <3>1. posted[s] \in Seq(Message) /\ posted[s] # <<>> /\ queue[s] \in Seq(Message)
      BY <1>7 DEF RunPosted, StrandsOK
    <3>2. Head(posted[s]) \in Message
      BY <3>1
    <3> QED
      BY <3>1, <3>2, Appended
  <2>3. /\ posted' \in [Sessions -> Seq(Message)]
        /\ queue' \in [Sessions -> Seq(Message)]
        /\ received' \in [Sessions -> Seq(Message)]
    <3>1. /\ posted' = [posted EXCEPT ![s] = Tail(posted[s])]
          /\ queue' = [queue EXCEPT ![s] = Append(queue[s], Head(posted[s]))]
          /\ UNCHANGED received
      BY <1>7 DEF RunPosted
    <3> QED
      BY <2>2, <3>1 DEF StrandsOK
  <2>4. writing' \in [Sessions -> BOOLEAN] /\ writes' \in [Sessions -> 0 .. 1]
    <3>1. writing' = [writing EXCEPT ![s] = TRUE] /\ writes' = [writes EXCEPT ![s] = StartedWrites(s)]
      BY <1>7 DEF RunPosted
    <3>2. writing \in [Sessions -> BOOLEAN] /\ writes \in [Sessions -> 0 .. 1]
      BY DEF StrandsOK
    <3> QED
      BY <2>1, <3>1, <3>2
  <2>5. ASSUME NEW t \in Sessions
        PROVE  (writing'[t] <=> queue'[t] # <<>>) /\ (writes'[t] = 1 => writing'[t])
    <3>1. CASE t = s
      BY <1>7, <2>2, <3>1 DEF RunPosted, StrandsOK
    <3>2. CASE t # s
      <4>1. writing'[t] = writing[t] /\ queue'[t] = queue[t] /\ writes'[t] = writes[t]
        BY <1>7, <3>2 DEF RunPosted, StrandsOK
      <4> QED
        BY <4>1 DEF StrandsOK
    <3> QED
      BY <3>1, <3>2
  <2>6. StrandsOK'
    BY <2>3, <2>4, <2>5 DEF StrandsOK
  <2>7. MainOK' /\ SessionsOK' /\ ListsOK'
    BY <1>7 DEF RunPosted, MainOK, SessionsOK, historyVars, ListsOK, mainVars, stopVars, consumerVars
  <2> QED
    BY <2>6, <2>7
<1>8. ASSUME NEW s \in Sessions, WriteDone(s)
      PROVE  MainOK' /\ SessionsOK' /\ StrandsOK' /\ ListsOK'
  <2> DEFINE message == Head(queue[s])
             rest == Popped(s)
  <2>1. queue[s] # <<>>
    BY <1>8 DEF WriteDone, StrandsOK
  <2>2. message \in Message /\ rest \in Seq(Message) /\ NextWrites(s) \in 0 .. 1
    BY <2>1 DEF StrandsOK, Popped, NextWrites
  <2>3. Append(received[s], message) \in Seq(Message)
    BY <2>2 DEF StrandsOK
  <2> HIDE DEF message, rest
  <2>4. /\ posted' \in [Sessions -> Seq(Message)]
        /\ queue' \in [Sessions -> Seq(Message)]
        /\ writes' \in [Sessions -> 0 .. 1]
    BY <1>8, <2>2 DEF WriteDone, StrandsOK, rest
  <2>5. received' \in [Sessions -> Seq(Message)]
    BY <1>8, <2>3 DEF WriteDone, StrandsOK, message
  <2>6. writing' \in [Sessions -> BOOLEAN]
    BY <1>8 DEF WriteDone, StrandsOK
  <2>7. ASSUME NEW t \in Sessions
        PROVE  (writing'[t] <=> queue'[t] # <<>>) /\ (writes'[t] = 1 => writing'[t])
    <3>1. CASE t = s
      <4>1. (writing'[s] <=> rest # <<>>) /\ queue'[s] = rest
        BY <1>8 DEF WriteDone, StrandsOK, rest
      <4>2. writes'[s] = NextWrites(s)
        BY <1>8 DEF WriteDone, StrandsOK
      <4> QED
        BY <3>1, <4>1, <4>2 DEF NextWrites, rest
    <3>2. CASE t # s
      <4>1. writing'[t] = writing[t] /\ queue'[t] = queue[t] /\ writes'[t] = writes[t]
        BY <1>8, <3>2 DEF WriteDone, StrandsOK
      <4> QED
        BY <4>1 DEF StrandsOK
    <3> QED
      BY <3>1, <3>2
  <2>8. StrandsOK'
    BY <2>4, <2>5, <2>6, <2>7 DEF StrandsOK
  <2>9. MainOK' /\ SessionsOK' /\ ListsOK'
    BY <1>8 DEF WriteDone, MainOK, SessionsOK, historyVars, ListsOK, mainVars, stopVars, consumerVars
  <2> QED
    BY <2>8, <2>9
<1>9. ASSUME NEW s \in Sessions, WriteFails(s)
      PROVE  MainOK' /\ SessionsOK' /\ StrandsOK' /\ ListsOK'
  <2>1. ListsOK'
    BY <1>9, UnsubscribedIsTyped DEF WriteFails, ListsOK
  <2>2. StrandsOK'
    BY <1>9 DEF WriteFails, StrandsOK
  <2>3. MainOK' /\ SessionsOK'
    BY <1>9 DEF WriteFails, MainOK, SessionsOK, historyVars, mainVars, stopVars, consumerVars
  <2> QED
    BY <2>1, <2>2, <2>3
<1>10. CASE Notify
  <2> DEFINE o == Results[taken']
  <2>1. taken' \in 1 .. Len(Results) /\ o \in Orders
    BY <1>10, ResultsAssumption DEF Notify, MainOK
  <2>2. Update(o, taken') \in Message
    BY <2>1 DEF Message
  <2>3. Kept(o) \subseteq Sessions /\ o \in Ids
    BY <2>1 DEF Kept, ListsOK, Ids
  <2> HIDE DEF o
  <2>4. ListsOK'
    BY <1>10, <2>3 DEF Notify, ListsOK, o
  <2>5. posted' \in [Sessions -> Seq(Message)]
    <3> SUFFICES ASSUME NEW s \in Sessions
                 PROVE  (IF s \in Told(o) THEN Append(posted[s], Update(o, taken')) ELSE posted[s])
                            \in Seq(Message)
      BY <1>10 DEF Notify, o
    <3> QED
      BY <2>2 DEF StrandsOK
  <2>6. StrandsOK'
    BY <1>10, <2>5 DEF Notify, StrandsOK
  <2>7. SessionsOK'
    BY <1>10 DEF Notify, SessionsOK, historyVars
  <2>8. MainOK'
    BY <1>10, <2>1 DEF Notify, MainOK, stopVars
  <2> QED
    BY <2>4, <2>6, <2>7, <2>8
<1>11. CASE ConsumerChecks \/ ConsumerTimesOut \/ ConsumerThrows \/ Signal \/ Exit \/ MqBreaks \/ AcceptFails
  <2>1. UNCHANGED sessionVars /\ UNCHANGED subs
    BY <1>11 DEF ConsumerChecks, ConsumerTimesOut, ConsumerThrows, Signal, Exit, MqBreaks, AcceptFails
  <2>2. SessionsOK' /\ StrandsOK' /\ ListsOK'
    BY <2>1 DEF sessionVars, historyVars, strandVars, SessionsOK, StrandsOK, ListsOK
  <2>3. ASSUME ConsumerChecks \/ ConsumerTimesOut PROVE MainOK'
    <3>1. UNCHANGED <<stopVars, mqUp, taken, accepting>> /\ consumer' \in {"check", "wait", "ended"}
      BY <2>3 DEF ConsumerChecks, ConsumerTimesOut
    <3> QED
      BY <3>1 DEF MainOK, stopVars
  <2>4. ASSUME ConsumerThrows PROVE MainOK'
    BY <2>4 DEF ConsumerThrows, MainOK
  <2>5. ASSUME Signal PROVE MainOK'
    BY <2>5 DEF Signal, MainOK, consumerVars
  <2>6. ASSUME Exit \/ MqBreaks \/ AcceptFails PROVE MainOK'
    BY <2>6 DEF Exit, MqBreaks, AcceptFails, MainOK, stopVars, consumerVars
  <2>7. MainOK'
    BY <1>11, <2>3, <2>4, <2>5, <2>6
  <2> QED
    BY <2>2, <2>7
<1>12. ASSUME NEW s \in Sessions, NEW how \in {"closed", "reset"}, Disconnect(s, how)
      PROVE  MainOK' /\ SessionsOK' /\ StrandsOK' /\ ListsOK'
  <2>1. SessionsOK'
    BY <1>12 DEF Disconnect, SessionsOK, historyVars
  <2>2. MainOK' /\ StrandsOK' /\ ListsOK'
    BY <1>12 DEF Disconnect, MainOK, StrandsOK, ListsOK, mainVars, stopVars, consumerVars, strandVars
  <2> QED
    BY <2>1, <2>2
<1>13. CASE UNCHANGED vars
  BY <1>13 DEF vars, mainVars, stopVars, consumerVars, sessionVars, historyVars, strandVars,
               MainOK, SessionsOK, StrandsOK, ListsOK
<1> QED
  BY <1>1, <1>2, <1>3, <1>4, <1>5, <1>6, <1>7, <1>8, <1>9, <1>10, <1>11, <1>12, <1>13
  DEF Next, SessionStep, ConsumerStep

LEMMA InitTyped == Init => TypeOK
<1> SUFFICES ASSUME Init PROVE TypeOK
  OBVIOUS
<1>1. <<>> \in Seq(Message) /\ <<>> \in Seq(Ids) /\ <<>> \in Seq(Ids \cup {Malformed})
  OBVIOUS
<1>2. Len(Results) \in Nat
  BY ResultsAssumption
<1>3. MainOK
  <2>1. taken \in 0 .. Len(Results)
    BY <1>2 DEF Init
  <2>2. /\ running \in BOOLEAN /\ ioStopped \in BOOLEAN /\ exited \in BOOLEAN
        /\ mqUp \in BOOLEAN /\ accepting \in BOOLEAN
    BY Zenon DEF Init
  <2> QED
    BY <2>1, <2>2 DEF Init, MainOK
<1>4. SessionsOK
  BY <1>1 DEF Init, SessionsOK, Ids
<1>5. StrandsOK
  BY <1>1 DEF Init, StrandsOK
<1>6. ListsOK
  BY DEF Init, ListsOK
<1> QED
  BY <1>3, <1>4, <1>5, <1>6, TypeParts

(* TypeOK: one write of a session at a time, from a queue that holds what it *)
(* writes.                                                                   *)
THEOREM TypeCorrect == Spec => []TypeOK
BY InitTyped, TypeStep, PTL DEF Spec

-----------------------------------------------------------------------------
(* Lists.                                                                    *)

(* A session on the list of an order names that order.                       *)
NamedInv == \A o \in Orders : \A s \in subs[o] : orderId[s] = o

(* A session whose write failed is on no list, and reads no more requests.   *)
FailedInv ==
    \A s \in Sessions : WriteFailed(s) =>
        /\ net[s] # "up"
        /\ handling.session # s
        /\ \A o \in Orders : s \notin subs[o]

(* A session on a list reads, is being subscribed, or was reset.             *)
ReaderInv ==
    \A s \in Sessions, o \in Orders :
        s \in subs[o] => reading[s] \/ handling.session = s \/ net[s] = "reset"

ListInv == TypeOK /\ NamedInv /\ FailedInv /\ ReaderInv

LEMMA UnsubscribedRemoves ==
    ASSUME TypeOK, NamedInv, NEW s \in Sessions
    PROVE  /\ Unsubscribed(s) \in [Ids -> SUBSET Sessions]
           /\ \A o \in Orders : Unsubscribed(s)[o] = subs[o] \ {s}
<1>1. subs \in [Ids -> SUBSET Sessions] /\ orderId[s] \in Ids
  BY DEF TypeOK
<1>2. ASSUME NEW o \in Orders PROVE Unsubscribed(s)[o] = subs[o] \ {s}
  <2>1. o \in Ids /\ o # NoOrder
    BY NamesAssumption DEF Ids
  <2>2. CASE orderId[s] = NoOrder
    BY <1>1, <2>1, <2>2 DEF Unsubscribed, NamedInv
  <2>3. CASE orderId[s] # NoOrder
    BY <1>1, <2>1, <2>3 DEF Unsubscribed, NamedInv
  <2> QED
    BY <2>2, <2>3
<1> QED
  BY <1>1, <1>2 DEF Unsubscribed

LEMMA ListStep == ListInv /\ [Next]_vars => ListInv'
<1> SUFFICES ASSUME ListInv, [Next]_vars
             PROVE  NamedInv' /\ FailedInv' /\ ReaderInv'
  BY TypeStep DEF ListInv
<1> USE DEF ListInv
<1>0. TypeOK'
  BY TypeStep
<1>1. ASSUME NEW s \in Sessions, Connect(s) \/ Handshake(s)
      PROVE  NamedInv' /\ FailedInv' /\ ReaderInv'
  <2>1. UNCHANGED <<subs, orderId, handling, net, writing, writes>>
    BY <1>1 DEF Connect, Handshake, strandVars
  <2>2. \A t \in Sessions : reading[t] => reading'[t]
    <3>1. reading \in [Sessions -> BOOLEAN]
      BY DEF TypeOK
    <3>2. reading' = reading \/ reading' = [reading EXCEPT ![s] = TRUE]
      BY <1>1 DEF Connect, Handshake
    <3> QED
      BY <3>1, <3>2
  <2> QED
    BY <2>1, <2>2 DEF NamedInv, FailedInv, ReaderInv, WriteFailed
<1>2. ASSUME NEW s \in Sessions, NEW request \in Ids \cup {Malformed}, ReadRequest(s, request),
             UNCHANGED <<net, writing, writes>>,
             \/ UNCHANGED <<orderId, handling, reading>>
             \/ handling' = [session |-> s, step |-> "subscribe"]
                /\ reading' = [reading EXCEPT ![s] = FALSE]
                /\ orderId' = [orderId EXCEPT ![s] = request]
      PROVE  NamedInv' /\ FailedInv' /\ ReaderInv'
  <2>1. \A o \in Orders : subs'[o] = subs[o] \ {s}
    BY <1>2, UnsubscribedRemoves DEF ReadRequest
  <2>2. \A t \in Sessions \ {s} : orderId'[t] = orderId[t] /\ (reading[t] => reading'[t])
    BY <1>2 DEF TypeOK
  <2>3. handling = Idle /\ net[s] = "up" /\ \A t \in Sessions : handling.session # t
    BY <1>2, NamesAssumption DEF ReadRequest, CanRead, Ready, Idle
  <2>4. \A t \in Sessions \ {s} : handling'.session # t
    BY <1>2, <2>3
  <2>5. NamedInv'
    BY <2>1, <2>2 DEF NamedInv, TypeOK, Ids
  <2>6. FailedInv'
    BY <1>2, <2>1, <2>3, <2>4 DEF FailedInv, WriteFailed
  <2>7. ReaderInv'
    BY <1>2, <2>1, <2>2, <2>3 DEF ReaderInv
  <2> QED
    BY <2>5, <2>6, <2>7
<1>3. ASSUME NEW s \in Sessions, ReadClosed(s) \/ WriteFails(s)
      PROVE  NamedInv' /\ FailedInv' /\ ReaderInv'
  <2>1. \A o \in Orders : subs'[o] = subs[o] \ {s}
    BY <1>3, UnsubscribedRemoves DEF ReadClosed, WriteFails
  <2>2. UNCHANGED <<orderId, net, handling, writing>> /\ handling = Idle
    BY <1>3 DEF ReadClosed, WriteFails, strandVars, CanRead, Ready
  <2>3. \A t \in Sessions \ {s} : reading'[t] = reading[t] /\ writes'[t] = writes[t]
    BY <1>3 DEF ReadClosed, WriteFails, strandVars, TypeOK
  <2>4. net[s] # "up" /\ handling.session # s
    BY <1>3, <2>2, NamesAssumption DEF ReadClosed, WriteFails, Idle
  <2>5. NamedInv'
    BY <2>1, <2>2 DEF NamedInv, TypeOK, Ids
  <2>6. FailedInv'
    BY <2>1, <2>2, <2>3, <2>4 DEF FailedInv, WriteFailed
  <2>7. ReaderInv'
    BY <2>1, <2>2, <2>3 DEF ReaderInv
  <2> QED
    BY <2>5, <2>6, <2>7
<1>4. ASSUME NEW s \in Sessions, ReadFails(s)
      PROVE  NamedInv' /\ FailedInv' /\ ReaderInv'
  <2>1. UNCHANGED <<subs, orderId, net, handling, writing, writes>>
    BY <1>4 DEF ReadFails, strandVars
  <2>2. \A t \in Sessions \ {s} : reading'[t] = reading[t]
    BY <1>4 DEF ReadFails, TypeOK
  <2>3. net[s] = "reset" \/ \A o \in Orders : s \notin subs[o]
    BY <1>4 DEF ReadFails, FailedInv
  <2> QED
    BY <2>1, <2>2, <2>3 DEF NamedInv, FailedInv, ReaderInv, WriteFailed
<1>5. ASSUME Subscribe
      PROVE  NamedInv' /\ FailedInv' /\ ReaderInv'
  <2> DEFINE s == handling.session
  <2>1. s \in Sessions /\ subs' = Subscribed(s) /\ handling' = [session |-> s, step |-> "answer"]
    BY <1>5, HandledSession, TypeParts DEF Subscribe
  <2>2. UNCHANGED <<net, reading, orderId, writing, writes>>
    BY <1>5 DEF Subscribe, strandVars
  <2>3. handling'.session = handling.session
    BY <2>1
  <2> HIDE DEF s
  <2>4. \A o \in Orders : subs'[o] = IF o = orderId[s] THEN subs[o] \cup {s} ELSE subs[o]
    BY <2>1 DEF Subscribed, TypeOK, Ids
  <2>5. ~WriteFailed(s)
    BY <2>1 DEF FailedInv, s
  <2>6. NamedInv'
    <3> SUFFICES ASSUME NEW o \in Orders, NEW t \in subs'[o] PROVE orderId'[t] = o
      BY DEF NamedInv
    <3>1. t \in subs[o] \/ (t = s /\ o = orderId[s])
      BY <2>4
    <3> QED
      BY <2>2, <3>1 DEF NamedInv
  <2>7. FailedInv'
    <3> SUFFICES ASSUME NEW t \in Sessions, WriteFailed(t)'
                 PROVE  net'[t] # "up" /\ handling'.session # t /\ \A o \in Orders : t \notin subs'[o]
      BY DEF FailedInv
    <3>1. WriteFailed(t)
      BY <2>2 DEF WriteFailed
    <3>2. t # s
      BY <2>5, <3>1
    <3> QED
      <4>1. net[t] # "up" /\ handling.session # t /\ \A o \in Orders : t \notin subs[o]
        BY <3>1 DEF FailedInv
      <4>2. net'[t] # "up" /\ handling'.session # t
        BY <2>2, <2>3, <4>1
      <4>3. \A o \in Orders : t \notin subs'[o]
        BY <2>4, <3>2, <4>1
      <4> QED
        BY <4>2, <4>3
  <2>8. ReaderInv'
    BY <2>2, <2>3, <2>4 DEF ReaderInv, s
  <2> QED
    BY <2>6, <2>7, <2>8
<1>6. ASSUME Answer
      PROVE  NamedInv' /\ FailedInv' /\ ReaderInv'
  <2>1. handling.session \in Sessions /\ handling' = Idle
    BY <1>6, HandledSession, TypeParts DEF Answer
  <2>2. UNCHANGED <<net, orderId, subs, writing, writes>>
    BY <1>6 DEF Answer
  <2>3. \A t \in Sessions : reading[t] \/ t = handling.session => reading'[t]
    BY <1>6, <2>1 DEF Answer, TypeOK
  <2>4. \A t \in Sessions : handling'.session # t
    BY <2>1, NamesAssumption DEF Idle
  <2> QED
    BY <2>2, <2>3, <2>4 DEF NamedInv, FailedInv, ReaderInv, WriteFailed
<1>7. ASSUME NEW s \in Sessions, RunPosted(s) \/ WriteDone(s)
      PROVE  NamedInv' /\ FailedInv' /\ ReaderInv'
  <2>1. UNCHANGED <<subs, orderId, net, handling, reading>>
    BY <1>7 DEF RunPosted, WriteDone
  <2>2. \A t \in Sessions : WriteFailed(t)' => WriteFailed(t)
    <3> SUFFICES ASSUME NEW t \in Sessions, WriteFailed(t)' PROVE WriteFailed(t)
      OBVIOUS
    <3>1. CASE RunPosted(s)
      <4>1. writes' = [writes EXCEPT ![s] = StartedWrites(s)] /\ writing' = [writing EXCEPT ![s] = TRUE]
        BY <3>1 DEF RunPosted
      <4>2. writes \in [Sessions -> 0 .. 1] /\ writing \in [Sessions -> BOOLEAN]
        BY DEF TypeOK
      <4>3. CASE t = s
        BY <4>1, <4>2, <4>3 DEF WriteFailed, StartedWrites
      <4>4. CASE t # s
        BY <4>1, <4>2, <4>4 DEF WriteFailed
      <4> QED
        BY <4>3, <4>4
    <3>2. CASE WriteDone(s)
      <4>1. /\ writes' = [writes EXCEPT ![s] = NextWrites(s)]
            /\ writing' = [writing EXCEPT ![s] = Popped(s) # <<>>]
        BY <3>2 DEF WriteDone
      <4>2. writes \in [Sessions -> 0 .. 1] /\ writing \in [Sessions -> BOOLEAN]
        BY DEF TypeOK
      <4>3. CASE t = s
        <5>1. writing'[s] <=> Popped(s) # <<>>
          BY <4>1, <4>2
        <5>2. writes'[s] = NextWrites(s)
          BY <4>1, <4>2
        <5> QED
          BY <4>3, <5>1, <5>2 DEF WriteFailed, NextWrites
      <4>4. CASE t # s
        BY <4>1, <4>2, <4>4 DEF WriteFailed
      <4> QED
        BY <4>3, <4>4
    <3> QED
      BY <1>7, <3>1, <3>2
  <2> QED
    BY <2>1, <2>2 DEF NamedInv, FailedInv, ReaderInv
<1>8. ASSUME Notify
      PROVE  NamedInv' /\ FailedInv' /\ ReaderInv'
  <2>1. UNCHANGED <<orderId, net, handling, reading, writing, writes>>
    BY <1>8 DEF Notify
  <2>2. \A o \in Orders : subs'[o] \subseteq subs[o]
    BY <1>8 DEF Notify, Kept, TypeOK, Ids
  <2> QED
    BY <2>1, <2>2 DEF NamedInv, FailedInv, ReaderInv, WriteFailed
<1>9. ASSUME NEW s \in Sessions, NEW how \in {"closed", "reset"}, Disconnect(s, how)
      PROVE  NamedInv' /\ FailedInv' /\ ReaderInv'
  <2>1. UNCHANGED <<subs, orderId, handling, reading, writing, writes>>
    BY <1>9 DEF Disconnect, strandVars
  <2>2. net[s] = "up" /\ net' = [net EXCEPT ![s] = how]
    BY <1>9 DEF Disconnect
  <2>3. \A t \in Sessions : net[t] # "up" => net'[t] = net[t]
    BY <2>2 DEF TypeOK
  <2> QED
    BY <2>1, <2>3 DEF NamedInv, FailedInv, ReaderInv, WriteFailed
<1>10. ASSUME ConsumerChecks \/ ConsumerTimesOut \/ ConsumerThrows \/ Signal \/ Exit \/ MqBreaks
              \/ AcceptFails \/ UNCHANGED vars
      PROVE  NamedInv' /\ FailedInv' /\ ReaderInv'
  <2>1. UNCHANGED sessionVars /\ UNCHANGED subs
    BY <1>10 DEF ConsumerChecks, ConsumerTimesOut, ConsumerThrows, Signal, Exit, MqBreaks, AcceptFails, vars
  <2> QED
    BY <2>1 DEF sessionVars, historyVars, strandVars, NamedInv, FailedInv, ReaderInv, WriteFailed
<1>11. ASSUME NEW s \in Sessions, ReadMalformed(s) \/ \E o \in Ids : ReadSubscribe(s, o)
      PROVE  NamedInv' /\ FailedInv' /\ ReaderInv'
  BY <1>2, <1>11 DEF ReadMalformed, ReadSubscribe, strandVars
<1> QED
  BY <1>1, <1>3, <1>4, <1>5, <1>6, <1>7, <1>8, <1>9, <1>10, <1>11 DEF Next, SessionStep, ConsumerStep

LEMMA ListInvStarts == Init => ListInv
<1> SUFFICES ASSUME Init PROVE NamedInv /\ FailedInv /\ ReaderInv
  BY InitTyped DEF ListInv
<1> QED
  BY DEF Init, NamedInv, FailedInv, ReaderInv, WriteFailed, Ids

LEMMA ListInvHolds == Spec => []ListInv
BY ListInvStarts, ListStep, PTL DEF Spec

(* ListsAreTrue: the list of an order holds only sessions that name it, and  *)
(* of those that have ended only the reset ones.                             *)
THEOREM OneList == Spec => []ListsAreTrue
<1>1. ASSUME ListInv, NEW o \in Orders, NEW s \in subs[o]
      PROVE  orderId[s] = o /\ (Alive(s) \/ net[s] = "reset")
  <2>1. s \in Sessions
    BY <1>1 DEF ListInv, TypeOK, Ids
  <2>2. reading[s] \/ handling.session = s \/ net[s] = "reset"
    BY <1>1, <2>1 DEF ListInv, ReaderInv
  <2>3. Alive(s) \/ net[s] = "reset"
    BY <2>2 DEF Alive
  <2> QED
    BY <1>1, <2>3 DEF ListInv, NamedInv
<1>2. ListInv => ListsAreTrue
  BY <1>1 DEF ListsAreTrue
<1> QED
  BY <1>2, ListInvHolds, PTL

-----------------------------------------------------------------------------
(* Streams.                                                                  *)

(* What a session has sent and is going to send.                             *)
Stream(s) == received[s] \o queue[s] \o posted[s]

IsUpdate(m) == m.kind = "order_update"

LEMMA MessageFields ==
    ASSUME NEW m \in Message
    PROVE  m.number \in Nat /\ (IsUpdate(m) <=> m.kind # "subscribed")
<1>1. Len(Results) \in Nat
  BY ResultsAssumption
<1>2. CASE \E o \in Ids : m = Ack(o)
  BY <1>2 DEF Ack, IsUpdate
<1>3. CASE \E o \in Orders, n \in 1 .. Len(Results) : m = Update(o, n)
  BY <1>1, <1>3 DEF Update, IsUpdate
<1> QED
  BY <1>2, <1>3 DEF Message

LEMMA Shifted ==
    ASSUME NEW S, NEW p \in Seq(S), NEW q \in Seq(S), q # <<>>
    PROVE  /\ Append(p, Head(q)) \in Seq(S) /\ Tail(q) \in Seq(S)
           /\ Append(p, Head(q)) \o Tail(q) = p \o q
<1> DEFINE h == Head(q)
           t == Tail(q)
<1>1. h \in S /\ t \in Seq(S) /\ <<h>> \o t = q
  <2>1. h \in S /\ t \in Seq(S)
    BY HeadTailProperties
  <2>2. Len(q) \in Nat \ {0} /\ h = q[1]
    BY EmptySeq
  <2>3. Len(t) = Len(q) - 1 /\ \A i \in 1 .. Len(t) : t[i] = q[i + 1]
    BY HeadTailProperties
  <2> HIDE DEF h, t
  <2>4. <<h>> \in Seq(S) /\ Len(<<h>>) = 1 /\ <<h>>[1] = h
    BY <2>1
  <2>5. <<h>> \o t \in Seq(S) /\ Len(<<h>> \o t) = Len(q)
    BY <2>1, <2>2, <2>3, <2>4, ConcatProperties
  <2>6. \A i \in 1 .. Len(q) : (<<h>> \o t)[i] = q[i]
    <3> SUFFICES ASSUME NEW i \in 1 .. Len(q) PROVE (<<h>> \o t)[i] = q[i]
      OBVIOUS
    <3>1. (<<h>> \o t)[i] = IF i <= 1 THEN h ELSE t[i - 1]
      BY <2>1, <2>2, <2>3, <2>4, ConcatProperties
    <3>2. i # 1 => i - 1 \in 1 .. Len(t) /\ t[i - 1] = q[i]
      BY <2>2, <2>3
    <3> QED
      BY <2>2, <3>1, <3>2
  <2> QED
    BY <2>1, <2>5, <2>6, SeqEqual
<1> HIDE DEF h, t
<1>2. <<h>> \in Seq(S)
  BY <1>1
<1>3. Append(p, h) = p \o <<h>> /\ Append(p, h) \in Seq(S)
  BY <1>1, AppendIsConcat
<1>4. (p \o <<h>>) \o t = p \o (<<h>> \o t)
  BY <1>1, <1>2, ConcatAssociative
<1> QED
  BY <1>1, <1>3, <1>4 DEF h, t

(* A message that moves from the head of one part to the end of the one      *)
(* before leaves the stream as it is.                                        *)
LEMMA Rearranged ==
    ASSUME NEW S, NEW p \in Seq(S), NEW q \in Seq(S), NEW r \in Seq(S)
    PROVE  /\ p \o q \o r \in Seq(S)
           /\ q # <<>> => Append(p, Head(q)) \o Tail(q) \o r = p \o q \o r
           /\ r # <<>> => p \o Append(q, Head(r)) \o Tail(r) = p \o q \o r
<1>0. ASSUME NEW x \in Seq(S), NEW y \in Seq(S), NEW z \in Seq(S) PROVE (x \o y) \o z = x \o (y \o z)
  BY ConcatAssociative, SMTT(60)
<1>1. p \o q \in Seq(S) /\ p \o q \o r \in Seq(S)
  BY ConcatProperties
<1>2. ASSUME q # <<>> PROVE Append(p, Head(q)) \o Tail(q) \o r = p \o q \o r
  BY <1>2, Shifted
<1>3. ASSUME r # <<>> PROVE p \o Append(q, Head(r)) \o Tail(r) = p \o q \o r
  <2> DEFINE a == Append(q, Head(r))
             t == Tail(r)
  <2>1. a \in Seq(S) /\ t \in Seq(S) /\ a \o t = q \o r
    BY <1>3, Shifted
  <2> HIDE DEF a, t
  <2>2. (p \o a) \o t = p \o (a \o t)
    BY <1>0, <2>1
  <2>3. (p \o q) \o r = p \o (q \o r)
    BY <1>0
  <2>4. (p \o a) \o t = (p \o q) \o r
    BY <2>1, <2>2, <2>3
  <2> QED
    BY <2>4 DEF a, t
<1> QED
  BY <1>1, <1>2, <1>3

LEMMA AppendedAtEnd ==
    ASSUME NEW S, NEW p \in Seq(S), NEW q \in Seq(S), NEW r \in Seq(S), NEW e \in S
    PROVE  p \o q \o Append(r, e) = Append(p \o q \o r, e)
<1>1. p \o q \in Seq(S) /\ p \o q \o r \in Seq(S) /\ <<e>> \in Seq(S)
  BY ConcatProperties
<1>2. Append(r, e) = r \o <<e>>
  BY AppendIsConcat
<1>3. Append(p \o q \o r, e) = (p \o q \o r) \o <<e>>
  BY <1>1, AppendIsConcat
<1>4. ((p \o q) \o r) \o <<e>> = (p \o q) \o (r \o <<e>>)
  BY <1>1, ConcatAssociative, SMTT(60)
<1> QED
  BY <1>2, <1>3, <1>4

LEMMA StreamIsTyped ==
    ASSUME TypeOK, NEW s \in Sessions
    PROVE  Stream(s) \in Seq(Message)
BY ConcatProperties DEF TypeOK, Stream

(* Streams grow at their end, by answers and by updates.                     *)
LEMMA StreamStep ==
    ASSUME TypeOK, [Next]_vars, NEW s \in Sessions
    PROVE  \/ Stream(s)' = Stream(s)
           \/ /\ Answer /\ s = handling.session
              /\ Stream(s)' = Append(Stream(s), Ack(orderId[s]))
              /\ Ack(orderId[s]) \in Message
           \/ /\ Notify /\ s \in Told(Results[taken'])
              /\ Stream(s)' = Append(Stream(s), Update(Results[taken'], taken'))
              /\ Update(Results[taken'], taken') \in Message
<1> DEFINE Goal == \/ Stream(s)' = Stream(s)
                   \/ /\ Answer /\ s = handling.session
                      /\ Stream(s)' = Append(Stream(s), Ack(orderId[s]))
                      /\ Ack(orderId[s]) \in Message
                   \/ /\ Notify /\ s \in Told(Results[taken'])
                      /\ Stream(s)' = Append(Stream(s), Update(Results[taken'], taken'))
                      /\ Update(Results[taken'], taken') \in Message
<1> SUFFICES Goal
  OBVIOUS
<1>1. /\ received \in [Sessions -> Seq(Message)] /\ queue \in [Sessions -> Seq(Message)]
      /\ posted \in [Sessions -> Seq(Message)]
  BY DEF TypeOK
<1> DEFINE a == received[s]
           b == queue[s]
           c == posted[s]
<1>2. a \in Seq(Message) /\ b \in Seq(Message) /\ c \in Seq(Message)
  BY <1>1
<1> HIDE DEF a, b, c
<1>3. CASE UNCHANGED <<received, queue, posted>>
  BY <1>3 DEF Stream
<1>4. ASSUME NEW t \in Sessions, RunPosted(t) PROVE Goal
  <2>1. CASE t = s
    <3>1. /\ posted[s] # <<>> /\ received' = received
          /\ posted'[s] = Tail(posted[s])
          /\ queue'[s] = Append(queue[s], Head(posted[s]))
      BY <1>1, <1>4, <2>1 DEF RunPosted
    <3>2. a \o Append(b, Head(c)) \o Tail(c) = a \o b \o c
      <4>1. c # <<>>
        BY <3>1 DEF c
      <4> QED
        BY <1>2, <4>1, Rearranged, SMTT(60)
    <3> QED
      BY <3>1, <3>2 DEF Stream, a, b, c
  <2>2. CASE t # s
    <3>1. received' = received /\ posted'[s] = posted[s] /\ queue'[s] = queue[s]
      BY <1>1, <1>4, <2>2 DEF RunPosted
    <3> QED
      BY <3>1 DEF Stream
  <2> QED
    BY <2>1, <2>2
<1>5. ASSUME NEW t \in Sessions, WriteDone(t) PROVE Goal
  <2>1. CASE t = s
    <3>1. queue[s] # <<>>
      BY <1>5, <2>1 DEF WriteDone, TypeOK
    <3>2. /\ posted' = posted
          /\ queue'[s] = Tail(queue[s])
          /\ received'[s] = Append(received[s], Head(queue[s]))
      BY <1>1, <1>5, <2>1 DEF WriteDone, Popped
    <3>3. Append(a, Head(b)) \o Tail(b) \o c = a \o b \o c
      <4>1. b # <<>>
        BY <3>1 DEF b
      <4> QED
        BY <1>2, <4>1, Rearranged
    <3> QED
      BY <3>2, <3>3 DEF Stream, a, b, c
  <2>2. CASE t # s
    <3>1. posted' = posted /\ received'[s] = received[s] /\ queue'[s] = queue[s]
      BY <1>1, <1>5, <2>2 DEF WriteDone
    <3> QED
      BY <3>1 DEF Stream
  <2> QED
    BY <2>1, <2>2
<1>6. CASE Answer
  <2>1. CASE s = handling.session
    <3>1. Ack(orderId[s]) \in Message
      BY DEF TypeOK, Message
    <3>2. /\ UNCHANGED <<received, queue>>
          /\ posted'[s] = Append(posted[s], Ack(orderId[s]))
      BY <1>1, <1>6, <2>1 DEF Answer
    <3> DEFINE e == Ack(orderId[s])
    <3> HIDE DEF e
    <3>3. a \o b \o Append(c, e) = Append(a \o b \o c, e)
      <4>1. e \in Message
        BY <3>1 DEF e
      <4> QED
        BY <1>2, <4>1, AppendedAtEnd
    <3>4. Stream(s)' = Append(Stream(s), Ack(orderId[s]))
      BY <3>2, <3>3 DEF Stream, a, b, c, e
    <3> QED
      BY <1>6, <2>1, <3>1, <3>4
  <2>2. CASE s # handling.session
    <3>1. UNCHANGED <<received, queue>> /\ posted'[s] = posted[s]
      BY <1>1, <1>6, <2>2 DEF Answer
    <3> QED
      BY <3>1 DEF Stream
  <2> QED
    BY <2>1, <2>2
<1>7. CASE Notify
  <2> DEFINE e == Update(Results[taken'], taken')
  <2>1. e \in Message
    <3>1. taken' \in 1 .. Len(Results) /\ Results[taken'] \in Orders
      BY <1>7, ResultsAssumption DEF Notify, TypeOK
    <3> QED
      BY <3>1 DEF Message
  <2>2. /\ UNCHANGED <<received, queue>>
        /\ posted'[s] = IF s \in Told(Results[taken']) THEN Append(posted[s], e) ELSE posted[s]
    BY <1>7 DEF Notify
  <2> HIDE DEF e
  <2>3. CASE s \in Told(Results[taken'])
    <3>1. a \o b \o Append(c, e) = Append(a \o b \o c, e)
      BY <1>2, <2>1, AppendedAtEnd
    <3>2. Stream(s)' = Append(Stream(s), e)
      BY <2>2, <2>3, <3>1 DEF Stream, a, b, c
    <3> QED
      BY <1>7, <2>1, <2>3, <3>2 DEF e
  <2>4. CASE s \notin Told(Results[taken'])
    BY <2>2, <2>4 DEF Stream
  <2> QED
    BY <2>3, <2>4
<1> QED
  <2>1. \/ \E t \in Sessions : RunPosted(t) \/ WriteDone(t)
        \/ Answer \/ Notify
        \/ UNCHANGED <<received, queue, posted>>
    BY DEF Next, SessionStep, ConsumerStep, Connect, Handshake, ReadSubscribe, ReadMalformed,
           ReadRequest, ReadClosed, ReadFails, WriteFails, AcceptFails, Subscribe, ConsumerChecks,
           ConsumerTimesOut, ConsumerThrows, Signal, Exit, Disconnect, MqBreaks,
           vars, sessionVars, strandVars
  <2> QED
    BY <1>3, <1>4, <1>5, <1>6, <1>7, <2>1

-----------------------------------------------------------------------------
(* Updates come in order.                                                    *)

InOrder(messages, n) ==
    \A i \in 1 .. Len(messages) : IsUpdate(messages[i]) =>
        /\ messages[i].number <= n
        /\ \A j \in 1 .. i - 1 : IsUpdate(messages[j]) => messages[j].number < messages[i].number

(* Every number is one of a result consumed, so the next one is the largest. *)
InOrderInv == TypeOK /\ \A s \in Sessions : InOrder(Stream(s), taken)

LEMMA SameInOrder ==
    ASSUME NEW q \in Seq(Message), NEW n \in Nat, InOrder(q, n)
    PROVE  InOrder(q, n + 1)
<1>1. \A i \in 1 .. Len(q) : q[i] \in Message /\ q[i].number \in Nat
  BY MessageFields
<1> QED
  BY <1>1 DEF InOrder

LEMMA AppendedInOrder ==
    ASSUME NEW q \in Seq(Message), NEW e \in Message, NEW n \in Nat, InOrder(q, n)
    PROVE  /\ InOrder(q, n + 1)
           /\ ~IsUpdate(e) => InOrder(Append(q, e), n)
           /\ e.number = n + 1 => InOrder(Append(q, e), n + 1)
<1>1. \A i \in 1 .. Len(q) : q[i] \in Message /\ q[i].number \in Nat
  BY MessageFields
<1>2. /\ Len(Append(q, e)) = Len(q) + 1 /\ Append(q, e)[Len(q) + 1] = e /\ Len(q) \in Nat
      /\ \A i \in 1 .. Len(q) : Append(q, e)[i] = q[i]
  BY AppendProperties
<1>3. InOrder(q, n + 1)
  BY <1>1 DEF InOrder
<1>4. ASSUME ~IsUpdate(e) PROVE InOrder(Append(q, e), n)
  BY <1>2, <1>4 DEF InOrder
<1>5. ASSUME e.number = n + 1 PROVE InOrder(Append(q, e), n + 1)
  <2> SUFFICES ASSUME NEW i \in 1 .. Len(q) + 1, IsUpdate(Append(q, e)[i])
               PROVE  /\ Append(q, e)[i].number <= n + 1
                      /\ \A j \in 1 .. i - 1 :
                            IsUpdate(Append(q, e)[j]) => Append(q, e)[j].number < Append(q, e)[i].number
    BY <1>2 DEF InOrder
  <2>1. CASE i = Len(q) + 1
    BY <1>1, <1>2, <1>5, <2>1 DEF InOrder
  <2>2. CASE i # Len(q) + 1
    BY <1>1, <1>2, <2>2 DEF InOrder
  <2> QED
    BY <2>1, <2>2
<1> QED
  BY <1>3, <1>4, <1>5

LEMMA InOrderStep == InOrderInv /\ [Next]_vars => InOrderInv'
<1> SUFFICES ASSUME InOrderInv, [Next]_vars, NEW s \in Sessions PROVE InOrder(Stream(s)', taken')
  BY TypeStep DEF InOrderInv
<1> USE DEF InOrderInv
<1>1. taken \in Nat /\ Stream(s) \in Seq(Message)
  BY StreamIsTyped, ResultsAssumption DEF TypeOK
<1>2. taken' = taken \/ (Notify /\ taken' = taken + 1)
  BY DEF Next, SessionStep, ConsumerStep, Connect, Handshake, ReadSubscribe, ReadMalformed,
         ReadRequest, ReadClosed, ReadFails, RunPosted, WriteDone, WriteFails, AcceptFails,
         Subscribe, Answer, ConsumerChecks, ConsumerTimesOut, Notify, ConsumerThrows, Signal, Exit,
         Disconnect, MqBreaks, vars, mainVars, consumerVars
<1>3. CASE Stream(s)' = Stream(s)
  <2>1. InOrder(Stream(s), taken) /\ InOrder(Stream(s), taken + 1)
    BY <1>1, SameInOrder
  <2> QED
    BY <1>2, <1>3, <2>1
<1>4. CASE /\ Answer /\ s = handling.session
           /\ Stream(s)' = Append(Stream(s), Ack(orderId[s]))
           /\ Ack(orderId[s]) \in Message
  <2>1. taken' = taken /\ ~IsUpdate(Ack(orderId[s]))
    BY <1>4 DEF Answer, mainVars, consumerVars, Ack, IsUpdate
  <2> QED
    BY <1>1, <1>4, <2>1, AppendedInOrder
<1>5. CASE /\ Notify /\ s \in Told(Results[taken'])
           /\ Stream(s)' = Append(Stream(s), Update(Results[taken'], taken'))
           /\ Update(Results[taken'], taken') \in Message
  <2>1. taken' = taken + 1 /\ Update(Results[taken'], taken').number = taken + 1
    BY <1>5 DEF Notify, Update
  <2> QED
    BY <1>1, <1>5, <2>1, AppendedInOrder
<1> QED
  BY <1>3, <1>4, <1>5, StreamStep

LEMMA StreamsStartEmpty == Init => \A s \in Sessions : Stream(s) = <<>>
BY DEF Init, Stream

(* UpdatesInOrder: results keep the order in which they were consumed, from  *)
(* the strand to the client, and none comes twice.                           *)
THEOREM InOrderAlways == Spec => []UpdatesInOrder
<1>1. Init => InOrderInv
  BY InitTyped, StreamsStartEmpty DEF InOrderInv, InOrder
<1>2. InOrderInv => UpdatesInOrder
  <2> SUFFICES ASSUME InOrderInv, NEW s \in Sessions,
                      NEW i \in 1 .. Len(Stream(s)), NEW j \in 1 .. Len(Stream(s)),
                      IsUpdate(Stream(s)[i]), IsUpdate(Stream(s)[j]), i < j
               PROVE  Stream(s)[i].number < Stream(s)[j].number
    BY DEF UpdatesInOrder, Stream, IsUpdate
  <2> QED
    BY StreamIsTyped DEF InOrderInv, InOrder
<1> QED
  BY <1>1, <1>2, InOrderStep, PTL DEF Spec

-----------------------------------------------------------------------------
(* Answers.                                                                  *)

(* The answers that come before a message.                                   *)
Before(messages, i) == {a \in Acks(messages) : a < i}

LEMMA AcksCounted ==
    ASSUME NEW q \in Seq(Message)
    PROVE  /\ IsFiniteSet(Acks(q)) /\ Cardinality(Acks(q)) \in Nat
           /\ \A i : IsFiniteSet(Before(q, i)) /\ Cardinality(Before(q, i)) \in Nat
<1>1. Len(q) \in Nat
  BY LenProperties
<1>2. IsFiniteSet(1 .. Len(q))
  BY <1>1, FS_Interval
<1>3. IsFiniteSet(Acks(q))
  BY <1>2, FS_Subset DEF Acks
<1>4. \A i : IsFiniteSet(Before(q, i))
  BY <1>3, FS_Subset DEF Before
<1> QED
  BY <1>3, <1>4, FS_CardinalityType

LEMMA AcksAppended ==
    ASSUME NEW q \in Seq(Message), NEW e \in Message
    PROVE  /\ e.kind = "subscribed"
                => Cardinality(Acks(Append(q, e))) = Cardinality(Acks(q)) + 1
           /\ e.kind # "subscribed" => Acks(Append(q, e)) = Acks(q)
           /\ \A i \in 1 .. Len(q) : Before(Append(q, e), i) = Before(q, i)
           /\ Before(Append(q, e), Len(q) + 1) = Acks(q)
<1> DEFINE z == Append(q, e)
           n == Len(q)
<1>1. /\ n \in Nat /\ Len(z) = n + 1 /\ z[n + 1] = e
      /\ \A i \in 1 .. n : z[i] = q[i]
  BY LenProperties, AppendProperties
<1> HIDE DEF z, n
<1>2. Acks(q) = {i \in 1 .. n : q[i].kind = "subscribed"}
  BY DEF Acks, n
<1>3. Acks(z) = {i \in 1 .. n + 1 : z[i].kind = "subscribed"}
  BY <1>1 DEF Acks
<1>4. \A i \in 1 .. n : i \in Acks(z) <=> i \in Acks(q)
  BY <1>1, <1>2, <1>3
<1>5. n + 1 \in Acks(z) <=> e.kind = "subscribed"
  BY <1>1, <1>3
<1>6. n + 1 \notin Acks(q) /\ Acks(q) \subseteq 1 .. n /\ Acks(z) \subseteq 1 .. n + 1
  BY <1>1, <1>2, <1>3
<1>7. ASSUME e.kind = "subscribed" PROVE Cardinality(Acks(z)) = Cardinality(Acks(q)) + 1
  <2>1. Acks(z) = Acks(q) \cup {n + 1}
    BY <1>1, <1>4, <1>5, <1>6, <1>7
  <2> QED
    BY <1>6, <2>1, AcksCounted, FS_AddElement
<1>8. ASSUME e.kind # "subscribed" PROVE Acks(z) = Acks(q)
  <2>1. n + 1 \notin Acks(z)
    BY <1>5, <1>8
  <2>2. \A a \in 1 .. n + 1 : a = n + 1 \/ a \in 1 .. n
    BY <1>1
  <2>3. \A a : a \in Acks(z) <=> a \in Acks(q)
    BY <1>4, <1>6, <2>1, <2>2
  <2> HIDE DEF Acks
  <2> QED
    BY <2>3
<1>9. ASSUME NEW i \in 1 .. n PROVE Before(z, i) = Before(q, i)
  BY <1>1, <1>4, <1>6 DEF Before
<1>10. Before(z, n + 1) = Acks(q)
  BY <1>1, <1>4, <1>6 DEF Before
<1> QED
  BY <1>7, <1>8, <1>9, <1>10 DEF z, n

LEMMA LastAppended ==
    ASSUME NEW S, NEW q \in Seq(S), NEW e \in S
    PROVE  Last(Append(q, e)) = e
BY AppendProperties, LenProperties DEF Last

(* What a step does to the requests of a session and to its stream.          *)
LEMMA RequestStep ==
    ASSUME TypeOK, [Next]_vars, NEW s \in Sessions
    PROVE  \/ \E o \in Ids :
                /\ handling = Idle /\ handling'.session = s
                /\ wanted'[s] = Append(wanted[s], o) /\ orderId'[s] = o
                /\ Stream(s)' = Stream(s)
           \/ /\ handling.session = s /\ handling' = Idle
              /\ wanted'[s] = wanted[s] /\ orderId'[s] = orderId[s]
              /\ Ack(orderId[s]) \in Message
              /\ Stream(s)' = Append(Stream(s), Ack(orderId[s]))
           \/ /\ handling'.session = s <=> handling.session = s
              /\ wanted'[s] = wanted[s] /\ orderId'[s] = orderId[s]
              /\ \/ Stream(s)' = Stream(s)
                 \/ \E o \in Orders, n \in Nat :
                       /\ s \in Told(o) /\ Update(o, n) \in Message
                       /\ Stream(s)' = Append(Stream(s), Update(o, n))
<1>1. /\ wanted \in [Sessions -> Seq(Ids)] /\ orderId \in [Sessions -> Ids]
      /\ posted \in [Sessions -> Seq(Message)]
  BY DEF TypeOK
<1>2. CASE Answer /\ s = handling.session
  <2> DEFINE a == received[s]
             b == queue[s]
             c == posted[s]
             e == Ack(orderId[s])
  <2>1. /\ UNCHANGED <<received, queue, wanted, orderId>> /\ handling' = Idle
        /\ posted'[s] = Append(c, e)
    BY <1>1, <1>2 DEF Answer, historyVars
  <2>2. Ack(orderId[s]) \in Message
    BY <1>1 DEF Message
  <2>3. a \o b \o Append(c, e) = Append(a \o b \o c, e)
    <3>1. a \in Seq(Message) /\ b \in Seq(Message) /\ c \in Seq(Message) /\ e \in Message
      BY <2>2 DEF TypeOK
    <3> HIDE DEF a, b, c, e
    <3> QED
      BY <3>1, AppendedAtEnd
  <2>4. Stream(s)' = Append(Stream(s), Ack(orderId[s]))
    BY <2>1, <2>3 DEF Stream
  <2> QED
    BY <1>2, <2>1, <2>2, <2>4
<1>3. ASSUME NEW o \in Ids, ReadSubscribe(s, o)
      PROVE  /\ handling = Idle /\ handling'.session = s
             /\ wanted'[s] = Append(wanted[s], o) /\ orderId'[s] = o
             /\ Stream(s)' = Stream(s)
  <2>1. handling = Idle
    BY <1>3 DEF ReadSubscribe, ReadRequest, CanRead, Ready
  <2>2. handling'.session = s /\ wanted'[s] = Append(wanted[s], o) /\ orderId'[s] = o
    BY <1>1, <1>3 DEF ReadSubscribe
  <2>3. UNCHANGED <<received, queue, posted>>
    BY <1>3 DEF ReadSubscribe, strandVars
  <2> QED
    BY <2>1, <2>2, <2>3 DEF Stream
<1>4. CASE ~(Answer /\ s = handling.session) /\ ~\E o \in Ids : ReadSubscribe(s, o)
  <2>1. /\ handling'.session = s <=> handling.session = s
        /\ wanted'[s] = wanted[s] /\ orderId'[s] = orderId[s]
    <3>1. CASE Answer
      <4>1. UNCHANGED <<wanted, orderId>> /\ handling' = Idle
        BY <3>1 DEF Answer, historyVars
      <4>2. handling.session # s /\ Nobody # s
        BY <1>4, <3>1, NamesAssumption
      <4> QED
        BY <4>1, <4>2 DEF Idle
    <3>2. ASSUME NEW t \in Sessions, NEW o \in Ids, ReadSubscribe(t, o)
          PROVE  /\ handling'.session = s <=> handling.session = s
                 /\ wanted'[s] = wanted[s] /\ orderId'[s] = orderId[s]
      <4>1. t # s /\ Nobody # s
        BY <1>4, <3>2, NamesAssumption
      <4>2. handling = Idle /\ handling'.session = t
        BY <3>2 DEF ReadSubscribe, ReadRequest, CanRead, Ready
      <4>3. wanted'[s] = wanted[s] /\ orderId'[s] = orderId[s]
        BY <1>1, <3>2, <4>1 DEF ReadSubscribe
      <4> QED
        BY <4>1, <4>2, <4>3 DEF Idle
    <3>3. CASE Subscribe
      BY <3>3 DEF Subscribe, historyVars
    <3>4. CASE UNCHANGED <<handling, wanted, orderId>>
      BY <3>4
    <3> QED
      <4>1. \/ Answer \/ Subscribe
            \/ \E t \in Sessions, o \in Ids : ReadSubscribe(t, o)
            \/ UNCHANGED <<handling, wanted, orderId>>
        BY DEF Next, SessionStep, ConsumerStep, Connect, Handshake, ReadMalformed, ReadClosed,
               ReadFails, RunPosted, WriteDone, WriteFails, AcceptFails, ConsumerChecks,
               ConsumerTimesOut, Notify, ConsumerThrows, Signal, Exit, Disconnect, MqBreaks,
               vars, sessionVars, strandVars, historyVars
      <4> QED
        BY <3>1, <3>2, <3>3, <3>4, <4>1
  <2>2. \/ Stream(s)' = Stream(s)
        \/ \E o \in Orders, n \in Nat :
              /\ s \in Told(o) /\ Update(o, n) \in Message
              /\ Stream(s)' = Append(Stream(s), Update(o, n))
    <3>1. ASSUME Notify PROVE taken' \in Nat /\ Results[taken'] \in Orders
      BY <3>1, ResultsAssumption DEF Notify, TypeOK
    <3> QED
      BY <1>4, <3>1, StreamStep
  <2> QED
    BY <2>1, <2>2
<1> QED
  BY <1>2, <1>3, <1>4

-----------------------------------------------------------------------------
(* Every request that names an order is answered, once, when its handler     *)
(* ends, and the session names the order of the last.                        *)
BeingHandled(s) == IF handling.session = s THEN 1 ELSE 0

AnswersInv ==
    \A s \in Sessions :
        Cardinality(Acks(Stream(s))) + BeingHandled(s) = Len(wanted[s])

NamesLastInv ==
    \A s \in Sessions : orderId[s] = IF wanted[s] = <<>> THEN NoOrder ELSE Last(wanted[s])

(* With n answers before it, an update is of the n-th order or of the next.  *)
IsCurrent(messages, orders, i) ==
    \E w \in {Cardinality(Before(messages, i)), Cardinality(Before(messages, i)) + 1} :
        w \in 1 .. Len(orders) /\ orders[w] = messages[i].order

AllCurrent(messages, orders) ==
    \A i \in 1 .. Len(messages) : IsUpdate(messages[i]) => IsCurrent(messages, orders, i)

CurrentInv == \A s \in Sessions : AllCurrent(Stream(s), wanted[s])

AnsweredInv == ListInv /\ AnswersInv /\ NamesLastInv /\ CurrentInv

LEMMA RequestKeepsCurrent ==
    ASSUME NEW q \in Seq(Message), NEW u \in Seq(Ids), NEW o \in Ids, AllCurrent(q, u)
    PROVE  AllCurrent(q, Append(u, o))
<1>1. /\ Len(u) \in Nat /\ Len(Append(u, o)) = Len(u) + 1
      /\ \A w \in 1 .. Len(u) : w \in 1 .. Len(u) + 1 /\ Append(u, o)[w] = u[w]
  BY LenProperties, AppendProperties
<1>2. ASSUME NEW i \in 1 .. Len(q), IsUpdate(q[i]) PROVE IsCurrent(q, Append(u, o), i)
  <2>1. PICK w \in {Cardinality(Before(q, i)), Cardinality(Before(q, i)) + 1} :
            w \in 1 .. Len(u) /\ u[w] = q[i].order
    BY <1>2 DEF AllCurrent, IsCurrent
  <2> QED
    BY <1>1, <2>1 DEF IsCurrent
<1> QED
  BY <1>2 DEF AllCurrent

LEMMA MessageKeepsCurrent ==
    ASSUME NEW q \in Seq(Message), NEW e \in Message, NEW u \in Seq(Ids), AllCurrent(q, u),
           IsUpdate(e) =>
               \E w \in {Cardinality(Acks(q)), Cardinality(Acks(q)) + 1} :
                   w \in 1 .. Len(u) /\ u[w] = e.order
    PROVE  AllCurrent(Append(q, e), u)
<1>1. /\ Len(q) \in Nat /\ Len(Append(q, e)) = Len(q) + 1 /\ Append(q, e)[Len(q) + 1] = e
      /\ \A i \in 1 .. Len(q) : Append(q, e)[i] = q[i]
  BY LenProperties, AppendProperties
<1>2. ASSUME NEW i \in 1 .. Len(q), IsUpdate(q[i]) PROVE IsCurrent(Append(q, e), u, i)
  <2>1. IsCurrent(q, u, i)
    BY <1>2 DEF AllCurrent
  <2>2. Before(Append(q, e), i) = Before(q, i) /\ Append(q, e)[i] = q[i]
    BY <1>1, AcksAppended
  <2> QED
    BY <2>1, <2>2 DEF IsCurrent
<1>3. ASSUME IsUpdate(e) PROVE IsCurrent(Append(q, e), u, Len(q) + 1)
  BY <1>1, <1>3, AcksAppended DEF IsCurrent
<1>4. ASSUME NEW i \in 1 .. Len(q) + 1 PROVE i = Len(q) + 1 \/ i \in 1 .. Len(q)
  BY <1>1
<1> QED
  BY <1>1, <1>2, <1>3, <1>4 DEF AllCurrent

LEMMA AnsweredStep == AnsweredInv /\ [Next]_vars => AnsweredInv'
<1> SUFFICES ASSUME AnsweredInv, [Next]_vars, NEW s \in Sessions
             PROVE  /\ Cardinality(Acks(Stream(s)')) + BeingHandled(s)' = Len(wanted'[s])
                    /\ orderId'[s] = IF wanted'[s] = <<>> THEN NoOrder ELSE Last(wanted'[s])
                    /\ AllCurrent(Stream(s)', wanted'[s])
  BY ListStep DEF AnsweredInv, AnswersInv, NamesLastInv, CurrentInv
<1> DEFINE q == Stream(s)
           u == wanted[s]
           c == Cardinality(Acks(q))
<1>1. TypeOK /\ Nobody # s
  BY NamesAssumption DEF AnsweredInv, ListInv
<1>2. q \in Seq(Message) /\ u \in Seq(Ids) /\ c \in Nat /\ Len(u) \in Nat
  BY <1>1, StreamIsTyped, AcksCounted, LenProperties DEF TypeOK
<1>3. c + BeingHandled(s) = Len(u)
  BY DEF AnsweredInv, AnswersInv
<1>4. orderId[s] = IF u = <<>> THEN NoOrder ELSE Last(u)
  BY DEF AnsweredInv, NamesLastInv
<1>5. AllCurrent(q, u)
  BY DEF AnsweredInv, CurrentInv
<1> HIDE DEF q, u, c
<1>6. ASSUME NEW o \in Ids, handling = Idle, handling'.session = s,
             wanted'[s] = Append(u, o), orderId'[s] = o, Stream(s)' = q
      PROVE  /\ Cardinality(Acks(Stream(s)')) + BeingHandled(s)' = Len(wanted'[s])
             /\ orderId'[s] = IF wanted'[s] = <<>> THEN NoOrder ELSE Last(wanted'[s])
             /\ AllCurrent(Stream(s)', wanted'[s])
  <2>1. BeingHandled(s) = 0 /\ BeingHandled(s)' = 1
    BY <1>1, <1>6 DEF BeingHandled, Idle
  <2>2. Len(wanted'[s]) = Len(u) + 1 /\ wanted'[s] # <<>> /\ Last(wanted'[s]) = o
    BY <1>2, <1>6, AppendProperties, LastAppended
  <2>3. Cardinality(Acks(Stream(s)')) = c
    BY <1>6 DEF c
  <2>4. AllCurrent(Stream(s)', wanted'[s])
    BY <1>2, <1>5, <1>6, RequestKeepsCurrent
  <2> QED
    BY <1>2, <1>3, <1>6, <2>1, <2>2, <2>3, <2>4
<1>7. ASSUME handling.session = s, handling' = Idle, wanted'[s] = u, orderId'[s] = orderId[s],
             Ack(orderId[s]) \in Message, Stream(s)' = Append(q, Ack(orderId[s]))
      PROVE  /\ Cardinality(Acks(Stream(s)')) + BeingHandled(s)' = Len(wanted'[s])
             /\ orderId'[s] = IF wanted'[s] = <<>> THEN NoOrder ELSE Last(wanted'[s])
             /\ AllCurrent(Stream(s)', wanted'[s])
  <2>1. BeingHandled(s) = 1 /\ BeingHandled(s)' = 0
    BY <1>1, <1>7 DEF BeingHandled, Idle
  <2>2. Ack(orderId[s]).kind = "subscribed" /\ ~IsUpdate(Ack(orderId[s]))
    BY DEF Ack, IsUpdate
  <2>3. Cardinality(Acks(Append(q, Ack(orderId[s])))) = c + 1
    BY <1>2, <1>7, <2>2, AcksAppended DEF c
  <2>4. AllCurrent(Stream(s)', wanted'[s])
    BY <1>2, <1>5, <1>7, <2>2, MessageKeepsCurrent
  <2> QED
    BY <1>2, <1>3, <1>4, <1>7, <2>1, <2>3, <2>4
<1>8. ASSUME handling'.session = s <=> handling.session = s,
             wanted'[s] = u, orderId'[s] = orderId[s], Stream(s)' = q
      PROVE  /\ Cardinality(Acks(Stream(s)')) + BeingHandled(s)' = Len(wanted'[s])
             /\ orderId'[s] = IF wanted'[s] = <<>> THEN NoOrder ELSE Last(wanted'[s])
             /\ AllCurrent(Stream(s)', wanted'[s])
  <2>1. BeingHandled(s)' = BeingHandled(s)
    BY <1>8 DEF BeingHandled
  <2> QED
    BY <1>3, <1>4, <1>5, <1>8, <2>1 DEF c
<1>9. ASSUME handling'.session = s <=> handling.session = s,
             wanted'[s] = u, orderId'[s] = orderId[s],
             NEW o \in Orders, NEW n \in Nat, s \in Told(o), Update(o, n) \in Message,
             Stream(s)' = Append(q, Update(o, n))
      PROVE  /\ Cardinality(Acks(Stream(s)')) + BeingHandled(s)' = Len(wanted'[s])
             /\ orderId'[s] = IF wanted'[s] = <<>> THEN NoOrder ELSE Last(wanted'[s])
             /\ AllCurrent(Stream(s)', wanted'[s])
  <2>1. BeingHandled(s)' = BeingHandled(s) /\ BeingHandled(s) \in {0, 1}
    BY <1>9 DEF BeingHandled
  <2>2. /\ Update(o, n).kind = "order_update" /\ Update(o, n).kind # "subscribed"
        /\ Update(o, n).order = o
    BY DEF Update
  <2>3. Acks(Append(q, Update(o, n))) = Acks(q)
    BY <1>2, <1>9, <2>2, AcksAppended
  <2>4. orderId[s] = o /\ o # NoOrder
    BY <1>9, NamesAssumption DEF Told, AnsweredInv, ListInv, NamedInv
  <2>5. u # <<>> /\ u[Len(u)] = o /\ Len(u) \in 1 .. Len(u)
    BY <1>2, <1>4, <2>4, EmptySeq DEF Last
  <2>6. Len(u) \in {c, c + 1}
    BY <1>2, <1>3, <2>1
  <2>7. AllCurrent(Stream(s)', wanted'[s])
    BY <1>2, <1>5, <1>9, <2>2, <2>5, <2>6, MessageKeepsCurrent DEF c
  <2> QED
    BY <1>3, <1>4, <1>9, <2>1, <2>3, <2>7 DEF c
<1> QED
  BY <1>1, <1>6, <1>7, <1>8, <1>9, RequestStep DEF q, u

LEMMA AnsweredInvHolds == Spec => []AnsweredInv
<1>1. Init => AnsweredInv
  <2> SUFFICES ASSUME Init, NEW s \in Sessions
               PROVE  /\ Cardinality(Acks(Stream(s))) + BeingHandled(s) = Len(wanted[s])
                      /\ orderId[s] = IF wanted[s] = <<>> THEN NoOrder ELSE Last(wanted[s])
                      /\ AllCurrent(Stream(s), wanted[s])
    BY ListInvStarts DEF AnsweredInv, AnswersInv, NamesLastInv, CurrentInv
  <2>1. Stream(s) = <<>> /\ wanted[s] = <<>> /\ orderId[s] = NoOrder
    BY StreamsStartEmpty DEF Init
  <2>2. Len(<<>>) = 0 /\ Acks(<<>>) = {}
    BY DEF Acks
  <2>3. BeingHandled(s) = 0
    BY NamesAssumption DEF Init, Idle, BeingHandled
  <2>4. 1 .. Len(<<>>) = {}
    BY <2>2
  <2>5. AllCurrent(Stream(s), wanted[s])
    BY <2>1, <2>4 DEF AllCurrent
  <2>6. Cardinality(Acks(Stream(s))) = 0 /\ Len(wanted[s]) = 0
    BY <2>1, <2>2, FS_EmptySet
  <2> QED
    BY <2>1, <2>3, <2>5, <2>6
<1> QED
  BY <1>1, AnsweredStep, PTL DEF Spec

(* The client has read a first part of the stream.                           *)
LEMMA ReadPart ==
    ASSUME TypeOK, NEW s \in Sessions
    PROVE  /\ received[s] \in Seq(Message) /\ Stream(s) \in Seq(Message)
           /\ Len(received[s]) \in Nat /\ Len(received[s]) <= Len(Stream(s))
           /\ \A i \in 1 .. Len(received[s]) :
                 i \in 1 .. Len(Stream(s)) /\ Stream(s)[i] = received[s][i]
           /\ Acks(received[s]) = {a \in Acks(Stream(s)) : a <= Len(received[s])}
<1> DEFINE p == received[s]
           b == queue[s]
           c == posted[s]
           r == b \o c
<1>1. p \in Seq(Message) /\ b \in Seq(Message) /\ c \in Seq(Message) /\ r \in Seq(Message)
  BY ConcatProperties DEF TypeOK
<1> HIDE DEF p, b, c
<1>2. Stream(s) = p \o r
  <2>1. (p \o b) \o c = p \o (b \o c)
    BY <1>1, ConcatAssociative
  <2> QED
    BY <2>1 DEF Stream, p, b, c
<1> HIDE DEF r
<1>3. /\ p \o r \in Seq(Message) /\ Len(p) \in Nat /\ Len(r) \in Nat
      /\ Len(p \o r) = Len(p) + Len(r)
      /\ \A i \in 1 .. Len(p) + Len(r) : (p \o r)[i] = IF i <= Len(p) THEN p[i] ELSE r[i - Len(p)]
  BY <1>1, ConcatProperties, LenProperties
<1>4. \A i \in 1 .. Len(p) : i \in 1 .. Len(p \o r) /\ (p \o r)[i] = p[i]
  BY <1>3
<1>5. Acks(p) = {a \in Acks(p \o r) : a <= Len(p)}
  BY <1>3, <1>4 DEF Acks
<1> QED
  BY <1>1, <1>2, <1>3, <1>4, <1>5 DEF p

(* NoStaleUpdates: on_read and notify let no update of an order through that *)
(* the client has left and been told so.                                     *)
THEOREM NothingStale == Spec => []NoStaleUpdates
<1>1. ASSUME AnsweredInv, NEW s \in Sessions, NEW i \in 1 .. Len(received[s]),
             IsUpdate(received[s][i])
      PROVE  LET k == Cardinality({a \in Acks(received[s]) : a < i})
             IN  \E w \in {k, k + 1} \cap 1 .. Len(wanted[s]) : wanted[s][w] = received[s][i].order
  <2>1. TypeOK
    BY <1>1 DEF AnsweredInv, ListInv
  <2>2. Stream(s)[i] = received[s][i] /\ i \in 1 .. Len(Stream(s))
    BY <1>1, <2>1, ReadPart
  <2>3. {a \in Acks(received[s]) : a < i} = Before(Stream(s), i)
    <3>1. Acks(received[s]) = {a \in Acks(Stream(s)) : a <= Len(received[s])}
      BY <2>1, ReadPart
    <3>2. Len(received[s]) \in Nat /\ Acks(Stream(s)) \subseteq Nat
      BY <2>1, ReadPart DEF Acks
    <3>3. \A a \in Nat : a < i => a <= Len(received[s])
      BY <3>2
    <3> QED
      BY <3>1, <3>2, <3>3 DEF Before
  <2>4. IsCurrent(Stream(s), wanted[s], i)
    BY <1>1, <2>2 DEF AnsweredInv, CurrentInv, AllCurrent
  <2> QED
    BY <2>2, <2>3, <2>4 DEF IsCurrent
<1>2. AnsweredInv => NoStaleUpdates
  BY <1>1 DEF NoStaleUpdates, IsUpdate
<1> QED
  BY <1>2, AnsweredInvHolds, PTL

-----------------------------------------------------------------------------
(* Subscriptions in force.                                                   *)

(* The last request of a client that is still there, if it named an order,   *)
(* is in force or has its handler running.                                   *)
InForce(s) ==
    /\ orderId[s] = Last(asked[s])
    /\ \/ handling = [session |-> s, step |-> "subscribe"]
       \/ s \in subs[orderId[s]] /\ (reading[s] \/ handling.session = s)

HeldInv ==
    \A s \in Sessions :
        net[s] = "up" /\ asked[s] # <<>> /\ Last(asked[s]) # Malformed => InForce(s)

LEMMA HeldStep == ListInv /\ HeldInv /\ [Next]_vars => HeldInv'
<1> SUFFICES ASSUME ListInv, HeldInv, [Next]_vars, NEW s \in Sessions,
                    net'[s] = "up", asked'[s] # <<>>, Last(asked'[s]) # Malformed
             PROVE  InForce(s)'
  BY DEF HeldInv
<1>1. /\ TypeOK /\ TypeOK' /\ Nobody # s /\ Malformed \notin Ids
      /\ net \in [Sessions -> {"up", "closed", "reset"}] /\ reading \in [Sessions -> BOOLEAN]
      /\ orderId \in [Sessions -> Ids] /\ subs \in [Ids -> SUBSET Sessions]
      /\ asked \in [Sessions -> Seq(Ids \cup {Malformed})]
      /\ handling \in {Idle} \cup [session : Sessions, step : {"subscribe", "answer"}]
  BY TypeStep, NamesAssumption DEF ListInv, TypeOK, Ids
<1>2. net[s] = "up"
  BY <1>1 DEF Next, SessionStep, ConsumerStep, Connect, Handshake, ReadSubscribe, ReadMalformed,
         ReadRequest, ReadClosed, ReadFails, RunPosted, WriteDone, WriteFails, AcceptFails,
         Subscribe, Answer, ConsumerChecks, ConsumerTimesOut, Notify, ConsumerThrows, Signal, Exit,
         Disconnect, MqBreaks, vars, sessionVars
<1>3. ASSUME asked'[s] = asked[s] PROVE InForce(s)
  BY <1>2, <1>3 DEF HeldInv
(* Steps of other sessions, and of this one that leave its list alone.       *)
<1>4. ASSUME asked'[s] = asked[s], UNCHANGED <<orderId, handling>>, reading'[s] = reading[s],
             \A o \in Ids : s \in subs[o] => s \in subs'[o]
      PROVE  InForce(s)'
  BY <1>1, <1>3, <1>4 DEF InForce
<1>5. ASSUME NEW t \in Sessions, NEW o \in Ids, ReadSubscribe(t, o) PROVE InForce(s)'
  <2>1. /\ handling = Idle /\ handling' = [session |-> t, step |-> "subscribe"]
        /\ orderId' = [orderId EXCEPT ![t] = o]
        /\ reading' = [reading EXCEPT ![t] = FALSE]
        /\ asked' = [asked EXCEPT ![t] = Append(@, o)]
        /\ subs' = Unsubscribed(t)
    BY <1>5 DEF ReadSubscribe, ReadRequest, CanRead, Ready
  <2>2. CASE t = s
    <3>1. asked'[s] = Append(asked[s], o) /\ orderId'[s] = o
      BY <1>1, <2>1, <2>2
    <3>2. Last(asked'[s]) = o
      BY <1>1, <3>1, LastAppended
    <3> QED
      BY <2>1, <2>2, <3>1, <3>2 DEF InForce
  <2>3. CASE t # s
    <3>1. /\ asked'[s] = asked[s] /\ orderId'[s] = orderId[s] /\ reading'[s] = reading[s]
      BY <1>1, <2>1, <2>3
    <3>2. s \in subs[orderId[s]] /\ reading[s]
      <4>1. handling.session # s
        BY <1>1, <2>1 DEF Idle
      <4> QED
        BY <1>3, <3>1, <4>1 DEF InForce
    <3>3. s \in subs'[orderId[s]]
      BY <1>1, <2>1, <2>3, <3>2 DEF Unsubscribed
    <3>4. orderId[s] = Last(asked[s])
      BY <1>3, <3>1 DEF InForce
    <3> QED
      BY <3>1, <3>2, <3>3, <3>4 DEF InForce
  <2> QED
    BY <2>2, <2>3
<1>6. ASSUME NEW t \in Sessions, ReadMalformed(t) PROVE InForce(s)'
  <2>1. /\ UNCHANGED <<handling, orderId, reading>>
        /\ asked' = [asked EXCEPT ![t] = Append(@, Malformed)]
        /\ subs' = Unsubscribed(t)
    BY <1>6 DEF ReadMalformed, ReadRequest
  <2>2. t # s
    <3> SUFFICES ASSUME t = s PROVE FALSE
      OBVIOUS
    <3>1. asked'[s] = Append(asked[s], Malformed)
      BY <1>1, <2>1
    <3> QED
      BY <1>1, <3>1, LastAppended
  <2>3. \A o \in Ids : s \in subs[o] => s \in subs'[o]
    BY <1>1, <2>1, <2>2 DEF Unsubscribed
  <2>4. asked'[s] = asked[s]
    BY <1>1, <2>1, <2>2
  <2> QED
    BY <1>4, <2>1, <2>3, <2>4
<1>7. CASE Subscribe
  <2>1. handling.session \in Sessions /\ handling.step = "subscribe"
    BY <1>7, <1>1, HandledSession, TypeParts DEF Subscribe
  <2>2. /\ UNCHANGED <<asked, orderId, reading>>
        /\ handling' = [session |-> handling.session, step |-> "answer"]
        /\ subs' = Subscribed(handling.session)
    BY <1>7 DEF Subscribe, historyVars
  <2>3. orderId[s] = Last(asked[s])
    BY <1>3, <2>2 DEF InForce
  <2>4. CASE handling.session = s
    <3>1. s \in subs'[orderId[s]] /\ handling'.session = s
      BY <1>1, <2>2, <2>4 DEF Subscribed
    <3> QED
      BY <2>2, <2>3, <3>1 DEF InForce
  <2>5. CASE handling.session # s
    <3>1. s \in subs[orderId[s]] /\ reading[s]
      BY <1>3, <2>2, <2>5 DEF InForce
    <3>2. s \in subs'[orderId[s]]
      BY <1>1, <2>1, <2>2, <3>1 DEF Subscribed
    <3> QED
      BY <2>2, <2>3, <3>1, <3>2 DEF InForce
  <2> QED
    BY <2>4, <2>5
<1>8. CASE Answer
  <2>1. /\ UNCHANGED <<asked, orderId, subs>> /\ handling.step = "answer"
        /\ reading' = [reading EXCEPT ![handling.session] = TRUE]
    BY <1>8 DEF Answer, historyVars
  <2>2. /\ orderId[s] = Last(asked[s]) /\ s \in subs[orderId[s]]
        /\ reading[s] \/ handling.session = s
    BY <1>3, <2>1 DEF InForce
  <2>3. reading'[s]
    BY <1>1, <2>1, <2>2
  <2> QED
    BY <2>1, <2>2, <2>3 DEF InForce
<1>9. ASSUME NEW t \in Sessions, ReadClosed(t) \/ ReadFails(t) PROVE InForce(s)'
  <2>1. t # s
    <3>1. CASE ReadClosed(t)
      BY <1>2, <3>1 DEF ReadClosed
    <3>2. CASE ReadFails(t)
      BY <1>2, <3>2 DEF ReadFails, ListInv, FailedInv
    <3> QED
      BY <1>9, <3>1, <3>2
  <2>2. /\ UNCHANGED <<asked, orderId, handling>>
        /\ reading' = [reading EXCEPT ![t] = FALSE]
        /\ subs' = Unsubscribed(t) \/ subs' = subs
    BY <1>9 DEF ReadClosed, ReadFails, historyVars
  <2>3. \A o \in Ids : s \in subs[o] => s \in subs'[o]
    <3>1. \A o \in Ids : s \in subs[o] => s \in Unsubscribed(t)[o]
      BY <1>1, <2>1 DEF Unsubscribed
    <3> QED
      BY <2>2, <3>1
  <2>4. reading'[s] = reading[s]
    BY <1>1, <2>1, <2>2
  <2> QED
    BY <1>4, <2>2, <2>3, <2>4
<1>10. ASSUME NEW t \in Sessions, WriteFails(t) PROVE InForce(s)'
  <2>1. t # s
    BY <1>2, <1>10 DEF WriteFails
  <2>2. UNCHANGED <<asked, orderId, handling, reading>> /\ subs' = Unsubscribed(t)
    BY <1>10 DEF WriteFails, historyVars
  <2>3. \A o \in Ids : s \in subs[o] => s \in subs'[o]
    BY <1>1, <2>1, <2>2 DEF Unsubscribed
  <2> QED
    BY <1>4, <2>2, <2>3
<1>11. CASE Notify
  <2>1. UNCHANGED <<asked, orderId, handling, reading>>
    BY <1>11 DEF Notify, historyVars
  <2>2. InForce(s)
    BY <1>3, <2>1
  <2>3. CASE handling.session = s \/ reading[s]
    <3>1. Alive(s)
      BY <2>3 DEF Alive
    <3>2. \A o \in Ids : s \in subs[o] => s \in subs'[o]
      BY <1>1, <1>11, <3>1 DEF Notify, Kept
    <3> QED
      BY <1>4, <2>1, <3>2
  <2>4. CASE ~(handling.session = s \/ reading[s])
    BY <2>2, <2>4 DEF InForce
  <2> QED
    BY <2>3, <2>4
<1>12. CASE UNCHANGED <<asked, orderId, handling, subs>> /\ reading'[s] = reading[s]
  BY <1>4, <1>12
<1>13. ASSUME NEW t \in Sessions, Handshake(t) PROVE InForce(s)'
  <2>1. UNCHANGED <<asked, orderId, handling, subs>>
    BY <1>13 DEF Handshake, historyVars
  <2>2. reading[s] => reading'[s]
    BY <1>1, <1>13 DEF Handshake
  <2> QED
    BY <1>3, <2>1, <2>2 DEF InForce
<1> QED
  <2>1. \/ \E t \in Sessions : \/ Handshake(t) \/ ReadMalformed(t)
                               \/ ReadClosed(t) \/ ReadFails(t) \/ WriteFails(t)
                               \/ \E o \in Ids : ReadSubscribe(t, o)
        \/ Subscribe \/ Answer \/ Notify
        \/ UNCHANGED <<asked, orderId, handling, subs, reading>>
    BY DEF Next, SessionStep, ConsumerStep, Connect, RunPosted, WriteDone, AcceptFails,
           ConsumerChecks, ConsumerTimesOut, ConsumerThrows, Signal, Exit, Disconnect, MqBreaks,
           vars, sessionVars, historyVars
  <2> QED
    BY <1>5, <1>6, <1>7, <1>8, <1>9, <1>10, <1>11, <1>12, <1>13, <2>1

(* AckedIsSubscribed: between the answer to a request and the client's next  *)
(* request or its end, its session lives and is on the list it asked for.    *)
THEOREM AnsweredIsSubscribed == Spec => []AckedIsSubscribed
<1>1. Init => HeldInv
  BY DEF Init, HeldInv
<1>2. Spec => []HeldInv
  BY <1>1, HeldStep, ListInvHolds, PTL DEF Spec
<1>3. ASSUME AnsweredInv, HeldInv, NEW s \in Sessions, NEW o \in Ids, Listening(s, o)
      PROVE  Alive(s) /\ s \in subs[o]
  <2>1. TypeOK
    BY <1>3 DEF AnsweredInv, ListInv
  <2>2. Acks(received[s]) \subseteq Acks(Stream(s)) /\ IsFiniteSet(Acks(Stream(s)))
    BY <2>1, ReadPart, AcksCounted
  <2>3. /\ Cardinality(Acks(received[s])) \in Nat /\ Cardinality(Acks(Stream(s))) \in Nat
        /\ Cardinality(Acks(received[s])) <= Cardinality(Acks(Stream(s)))
    BY <2>2, FS_Subset, FS_CardinalityType
  <2>4. handling.session # s
    <3>1. Cardinality(Acks(Stream(s))) + BeingHandled(s) = Len(wanted[s])
      BY <1>3 DEF AnsweredInv, AnswersInv
    <3>2. Cardinality(Acks(received[s])) = Len(wanted[s])
      BY <1>3 DEF Listening
    <3> QED
      BY <2>3, <3>1, <3>2 DEF BeingHandled
  <2>5. orderId[s] = o /\ s \in subs[o] /\ reading[s]
    <3>1. o # Malformed
      BY NamesAssumption DEF Ids
    <3>2. InForce(s) /\ Last(asked[s]) = o
      BY <1>3, <3>1 DEF HeldInv, Listening
    <3> QED
      BY <2>4, <3>2 DEF InForce
  <2> QED
    BY <2>5 DEF Alive
<1>4. AnsweredInv /\ HeldInv => AckedIsSubscribed
  BY <1>3 DEF AckedIsSubscribed
<1> QED
  BY <1>2, <1>4, AnsweredInvHolds, PTL

-----------------------------------------------------------------------------
(* The updates among messages.                                               *)

(* The function whose last value UpdatesAmong(q) is.                         *)
Collecting(q, n, g) ==
    g = [k \in 0 .. n |->
            IF k = 0 THEN <<>>
            ELSE IF q[k].kind = "order_update" THEN Append(g[k - 1], q[k])
            ELSE g[k - 1]]

LEMMA UpdatesExpanded ==
    ASSUME NEW q
    PROVE  UpdatesAmong(q) = (CHOOSE g : Collecting(q, Len(q), g))[Len(q)]
BY Zenon DEF UpdatesAmong, Collecting

LEMMA CollectingExists ==
    ASSUME NEW q
    PROVE  \A n \in Nat : \E g : Collecting(q, n, g)
<1> DEFINE T == {n \in Nat : \E g : Collecting(q, n, g)}
<1>1. 0 \in T
  <2> DEFINE g == [k \in 0 .. 0 |-> <<>>]
  <2>1. Collecting(q, 0, g)
    <3>1. \A k \in 0 .. 0 : k = 0
      OBVIOUS
    <3> QED
      BY <3>1, Zenon DEF Collecting
  <2> QED
    BY <2>1
<1>2. ASSUME NEW n \in Nat, n \in T PROVE n + 1 \in T
  <2>1. PICK g : Collecting(q, n, g)
    BY <1>2
  <2> DEFINE h == [k \in 0 .. n + 1 |->
                      IF k = 0 THEN <<>>
                      ELSE IF q[k].kind = "order_update" THEN Append(g[k - 1], q[k])
                      ELSE g[k - 1]]
  <2>2. ASSUME NEW k \in 0 .. n + 1, k # 0 PROVE h[k - 1] = g[k - 1]
    <3>1. k - 1 \in 0 .. n /\ k - 1 \in 0 .. n + 1
      BY <2>2
    <3> DEFINE j == k - 1
    <3> HIDE DEF j
    <3>2. j \in 0 .. n /\ j \in 0 .. n + 1
      BY <3>1 DEF j
    <3>3. g[j] = IF j = 0 THEN <<>>
                 ELSE IF q[j].kind = "order_update" THEN Append(g[j - 1], q[j])
                 ELSE g[j - 1]
      BY <2>1, <3>2, Zenon DEF Collecting
    <3>4. h[j] = IF j = 0 THEN <<>>
                 ELSE IF q[j].kind = "order_update" THEN Append(g[j - 1], q[j])
                 ELSE g[j - 1]
      BY <3>2, Zenon
    <3> QED
      BY <3>3, <3>4, Zenon DEF j
  <2>3. Collecting(q, n + 1, h)
    BY <2>2, Zenon DEF Collecting
  <2> HIDE DEF h
  <2>4. n + 1 \in Nat
    OBVIOUS
  <2> QED
    BY <2>3, <2>4
<1> HIDE DEF T
<1>3. Nat \subseteq T
  BY <1>1, <1>2, NatSetInduction
<1> QED
  BY <1>3 DEF T

LEMMA Collected ==
    ASSUME NEW q, Len(q) \in Nat
    PROVE  \E g : /\ UpdatesAmong(q) = g[Len(q)]
                  /\ g[0] = <<>>
                  /\ \A n \in Nat : n + 1 <= Len(q) =>
                        g[n + 1] = IF IsUpdate(q[n + 1]) THEN Append(g[n], q[n + 1]) ELSE g[n]
<1> DEFINE g == CHOOSE x : Collecting(q, Len(q), x)
<1>1. Collecting(q, Len(q), g)
  BY CollectingExists, Zenon
<1>2. UpdatesAmong(q) = g[Len(q)]
  BY UpdatesExpanded
<1> HIDE DEF g
<1>3. \A k \in 0 .. Len(q) : g[k] = IF k = 0 THEN <<>>
                                    ELSE IF q[k].kind = "order_update" THEN Append(g[k - 1], q[k])
                                    ELSE g[k - 1]
  BY <1>1, Zenon DEF Collecting
<1>4. g[0] = <<>>
  BY <1>3
<1>5. ASSUME NEW n \in Nat, n + 1 <= Len(q)
      PROVE  g[n + 1] = IF IsUpdate(q[n + 1]) THEN Append(g[n], q[n + 1]) ELSE g[n]
  <2>1. n + 1 \in 0 .. Len(q) /\ n + 1 # 0 /\ (n + 1) - 1 = n
    BY <1>5
  <2> QED
    BY <1>3, <2>1 DEF IsUpdate
<1> QED
  BY <1>2, <1>4, <1>5

LEMMA UpdatesEmpty == UpdatesAmong(<<>>) = <<>>
<1>1. Len(<<>>) = 0
  OBVIOUS
<1> QED
  BY <1>1, Collected

LEMMA UpdatesTyped ==
    ASSUME NEW S, NEW q \in Seq(S)
    PROVE  UpdatesAmong(q) \in Seq(S)
<1>1. Len(q) \in Nat /\ \A n \in 1 .. Len(q) : q[n] \in S
  BY LenProperties
<1>2. PICK g : /\ UpdatesAmong(q) = g[Len(q)]
               /\ g[0] = <<>>
               /\ \A n \in Nat : n + 1 <= Len(q) =>
                     g[n + 1] = IF IsUpdate(q[n + 1]) THEN Append(g[n], q[n + 1]) ELSE g[n]
  BY <1>1, Collected
<1> DEFINE T == {n \in Nat : n <= Len(q) => g[n] \in Seq(S)}
<1>3. 0 \in T
  <2>1. <<>> \in Seq(S)
    OBVIOUS
  <2> QED
    BY <1>2, <2>1
<1>4. ASSUME NEW n \in Nat, n \in T PROVE n + 1 \in T
  <2>1. ASSUME n + 1 <= Len(q) PROVE g[n + 1] \in Seq(S)
    <3>1. g[n] \in Seq(S) /\ q[n + 1] \in S
      BY <1>1, <1>4, <2>1
    <3>2. Append(g[n], q[n + 1]) \in Seq(S)
      BY <3>1, AppendProperties
    <3> QED
      BY <1>2, <2>1, <3>1, <3>2
  <2> QED
    BY <2>1
<1> HIDE DEF T
<1>5. Nat \subseteq T
  BY <1>3, <1>4, NatSetInduction
<1> QED
  BY <1>1, <1>2, <1>5 DEF T

(* One message more.                                                         *)
LEMMA UpdatesAppended ==
    ASSUME NEW S, NEW q \in Seq(S), NEW e \in S
    PROVE  UpdatesAmong(Append(q, e)) = IF IsUpdate(e) THEN Append(UpdatesAmong(q), e) ELSE UpdatesAmong(q)
<1> DEFINE p == Append(q, e)
<1>1. /\ Len(q) \in Nat /\ Len(p) = Len(q) + 1 /\ p[Len(q) + 1] = e
      /\ \A n \in 1 .. Len(q) : p[n] = q[n]
  BY AppendProperties
<1> HIDE DEF p
<1>2. PICK g : /\ UpdatesAmong(q) = g[Len(q)]
               /\ g[0] = <<>>
               /\ \A n \in Nat : n + 1 <= Len(q) =>
                     g[n + 1] = IF IsUpdate(q[n + 1]) THEN Append(g[n], q[n + 1]) ELSE g[n]
  BY <1>1, Collected
<1>3. PICK h : /\ UpdatesAmong(p) = h[Len(p)]
               /\ h[0] = <<>>
               /\ \A n \in Nat : n + 1 <= Len(p) =>
                     h[n + 1] = IF IsUpdate(p[n + 1]) THEN Append(h[n], p[n + 1]) ELSE h[n]
  <2>1. Len(p) \in Nat
    BY <1>1
  <2> QED
    BY <2>1, Collected
<1> DEFINE T == {n \in Nat : n <= Len(q) => h[n] = g[n]}
<1>4. 0 \in T
  BY <1>2, <1>3
<1>5. ASSUME NEW n \in Nat, n \in T PROVE n + 1 \in T
  <2>1. ASSUME n + 1 <= Len(q) PROVE h[n + 1] = g[n + 1]
    <3>1. n + 1 <= Len(p) /\ p[n + 1] = q[n + 1] /\ h[n] = g[n]
      BY <1>1, <1>5, <2>1
    <3> QED
      BY <1>2, <1>3, <2>1, <3>1
  <2> QED
    BY <2>1
<1> HIDE DEF T
<1>6. Nat \subseteq T
  BY <1>4, <1>5, NatSetInduction
<1>7. h[Len(q)] = g[Len(q)]
  BY <1>1, <1>6 DEF T
<1>8. UpdatesAmong(p) = IF IsUpdate(e) THEN Append(UpdatesAmong(q), e) ELSE UpdatesAmong(q)
  BY <1>1, <1>2, <1>3, <1>7
<1> QED
  BY <1>8 DEF p

(* A sequence that is not empty is one message after another one.            *)
LEMMA LastSplit ==
    ASSUME NEW S, NEW q \in Seq(S), q # <<>>
    PROVE  \E p \in Seq(S), e \in S : q = Append(p, e) /\ Len(p) = Len(q) - 1
<1>1. Len(q) \in Nat \ {0} /\ \A n \in 1 .. Len(q) : q[n] \in S
  BY EmptySeq, LenProperties
<1> DEFINE n == Len(q) - 1
           p == [i \in 1 .. n |-> q[i]]
<1>2. n \in Nat /\ Len(q) = n + 1
  BY <1>1
<1>3. \A i \in 1 .. n : q[i] \in S
  BY <1>1, <1>2
<1>4. p \in Seq(S) /\ Len(p) = n /\ \A i \in 1 .. n : p[i] = q[i]
  <2> HIDE DEF n
  <2>1. p \in [1 .. n -> S]
    BY <1>3
  <2> QED
    BY <1>2, <2>1, SeqDef, LenProperties
<1> HIDE DEF n, p
<1>5. q[n + 1] \in S
  BY <1>1, <1>2
<1>6. Append(p, q[n + 1]) = q
  <2> DEFINE r == Append(p, q[n + 1])
  <2>1. /\ r \in Seq(S) /\ Len(r) = n + 1 /\ r[n + 1] = q[n + 1]
        /\ \A i \in 1 .. n : r[i] = q[i]
    BY <1>4, <1>5, AppendProperties
  <2> HIDE DEF r
  <2>2. \A i \in 1 .. Len(r) : r[i] = q[i]
    BY <1>2, <2>1
  <2>3. r = q
    BY <1>2, <2>1, <2>2, SeqEqual
  <2> QED
    BY <2>3 DEF r
<1> QED
  BY <1>2, <1>4, <1>5, <1>6 DEF n

LEMMA TailAppended ==
    ASSUME NEW S, NEW p \in Seq(S), p # <<>>, NEW e \in S
    PROVE  Head(Append(p, e)) = Head(p) /\ Tail(Append(p, e)) = Append(Tail(p), e)
<1> DEFINE q == Append(p, e)
           t == Tail(p)
<1>1. Len(p) \in Nat \ {0}
  BY EmptySeq
<1>2. /\ q \in Seq(S) /\ Len(q) = Len(p) + 1 /\ q[Len(p) + 1] = e
      /\ \A i \in 1 .. Len(p) : q[i] = p[i]
  BY AppendProperties
<1>3. t \in Seq(S) /\ Len(t) = Len(p) - 1 /\ \A i \in 1 .. Len(t) : t[i] = p[i + 1]
  BY HeadTailProperties
<1>4. /\ Append(t, e) \in Seq(S) /\ Len(Append(t, e)) = Len(t) + 1 /\ Append(t, e)[Len(t) + 1] = e
      /\ \A i \in 1 .. Len(t) : Append(t, e)[i] = t[i]
  <2> HIDE DEF t
  <2> QED
    BY <1>3, AppendProperties
<1> HIDE DEF q, t
<1>5. q # <<>>
  BY <1>1, <1>2, EmptySeq
<1>6. Tail(q) \in Seq(S) /\ Len(Tail(q)) = Len(q) - 1 /\ \A i \in 1 .. Len(Tail(q)) : Tail(q)[i] = q[i + 1]
  BY <1>2, <1>5, HeadTailProperties
<1> DEFINE a == Append(t, e)
           b == Tail(q)
<1>7. a \in Seq(S) /\ b \in Seq(S) /\ Len(a) = Len(p) /\ Len(b) = Len(p)
  BY <1>1, <1>2, <1>3, <1>4, <1>6
<1>8. ASSUME NEW i \in 1 .. Len(p) PROVE b[i] = a[i]
  <2>1. CASE i = Len(p)
    BY <1>1, <1>2, <1>3, <1>4, <1>6, <2>1
  <2>2. CASE i # Len(p)
    BY <1>1, <1>2, <1>3, <1>4, <1>6, <2>2
  <2> QED
    BY <2>1, <2>2
<1> HIDE DEF a, b
<1>9. a = b
  BY <1>7, <1>8, SeqEqual
<1>10. Head(q) = q[1] /\ Head(p) = p[1] /\ q[1] = p[1]
  BY <1>1, <1>2
<1> QED
  BY <1>9, <1>10 DEF a, b, q, t

(* One message less, from the other end.                                     *)
LEMMA UpdatesHeadOff ==
    ASSUME NEW S, NEW q \in Seq(S), q # <<>>
    PROVE  UpdatesAmong(q) = IF IsUpdate(Head(q)) THEN <<Head(q)>> \o UpdatesAmong(Tail(q))
                             ELSE UpdatesAmong(Tail(q))
<1> DEFINE Splits(r) == UpdatesAmong(r) = IF IsUpdate(Head(r)) THEN <<Head(r)>> \o UpdatesAmong(Tail(r))
                                          ELSE UpdatesAmong(Tail(r))
           T == {n \in Nat : \A r \in Seq(S) : Len(r) = n + 1 => Splits(r)}
<1>1. ASSUME NEW r \in Seq(S), NEW p \in Seq(S), NEW e \in S, r = Append(p, e), p = <<>>
      PROVE  Splits(r)
  <2>1. Head(r) = e /\ Tail(r) = <<>>
    BY <1>1
  <2>2. UpdatesAmong(r) = IF IsUpdate(e) THEN Append(<<>>, e) ELSE <<>>
    BY <1>1, UpdatesAppended, UpdatesEmpty
  <2>3. <<e>> \o <<>> = <<e>> /\ Append(<<>>, e) = <<e>>
    OBVIOUS
  <2> QED
    BY <2>1, <2>2, <2>3, UpdatesEmpty
<1>2. ASSUME NEW r \in Seq(S), NEW p \in Seq(S), NEW e \in S, r = Append(p, e), p # <<>>, Splits(p)
      PROVE  Splits(r)
  <2>1. Head(r) = Head(p) /\ Tail(r) = Append(Tail(p), e) /\ Head(p) \in S /\ Tail(p) \in Seq(S)
    BY <1>2, TailAppended, HeadTailProperties
  <2> DEFINE h == Head(p)
             t == Tail(p)
             u == UpdatesAmong(t)
  <2>2. h \in S /\ t \in Seq(S) /\ u \in Seq(S)
    BY <2>1, UpdatesTyped
  <2>3. /\ UpdatesAmong(r) = IF IsUpdate(e) THEN Append(UpdatesAmong(p), e) ELSE UpdatesAmong(p)
        /\ UpdatesAmong(Append(t, e)) = IF IsUpdate(e) THEN Append(u, e) ELSE u
    BY <1>2, <2>2, UpdatesAppended
  <2>4. UpdatesAmong(p) = IF IsUpdate(h) THEN <<h>> \o u ELSE u
    BY <1>2
  <2> HIDE DEF h, t, u
  <2>5. Append(<<h>> \o u, e) = <<h>> \o Append(u, e)
    <3>1. <<h>> \in Seq(S) /\ <<e>> \in Seq(S)
      BY <2>2
    <3>2. <<h>> \o u \in Seq(S)
      BY <2>2, <3>1, ConcatProperties
    <3>3. Append(u, e) = u \o <<e>> /\ Append(<<h>> \o u, e) = (<<h>> \o u) \o <<e>>
      BY <2>2, <3>2, AppendIsConcat
    <3> QED
      BY <2>2, <3>1, <3>3, ConcatAssociative
  <2>6. UpdatesAmong(r) = IF IsUpdate(h) THEN <<h>> \o UpdatesAmong(Append(t, e))
                          ELSE UpdatesAmong(Append(t, e))
    BY <2>3, <2>4, <2>5
  <2> QED
    BY <2>1, <2>6 DEF h, t
<1> HIDE DEF Splits
<1>0. Len(<<>>) = 0 /\ \A x \in Seq(S) : x # <<>> => Len(x) \in Nat \ {0}
  BY EmptySeq
<1>3. 0 \in T
  <2> SUFFICES ASSUME NEW r \in Seq(S), Len(r) = 1 PROVE Splits(r)
    OBVIOUS
  <2>1. r # <<>>
    BY <1>0
  <2>2. PICK p \in Seq(S), e \in S : r = Append(p, e) /\ Len(p) = Len(r) - 1
    BY <2>1, LastSplit
  <2>3. p = <<>>
    BY <1>0, <2>2
  <2> QED
    BY <1>1, <2>2, <2>3
<1>4. ASSUME NEW n \in Nat, n \in T PROVE n + 1 \in T
  <2> SUFFICES ASSUME NEW r \in Seq(S), Len(r) = n + 2 PROVE Splits(r)
    OBVIOUS
  <2>1. r # <<>>
    BY <1>0
  <2>2. PICK p \in Seq(S), e \in S : r = Append(p, e) /\ Len(p) = Len(r) - 1
    BY <2>1, LastSplit
  <2>3. p # <<>> /\ Len(p) = n + 1
    BY <1>0, <2>2
  <2>4. Splits(p)
    BY <1>4, <2>3
  <2> QED
    BY <1>2, <2>2, <2>3, <2>4
<1>5. Nat \subseteq T
  <2> HIDE DEF T
  <2> QED
    BY <1>3, <1>4, NatSetInduction
<1>6. Len(q) - 1 \in Nat
  BY <1>0
<1>7. Splits(q)
  BY <1>5, <1>6
<1> QED
  BY <1>7 DEF Splits

(* The messages between the strand of a session and its client.              *)
Waiting(s) == queue[s] \o posted[s]

LEMMA WaitingTyped ==
    ASSUME TypeOK, NEW s \in Sessions
    PROVE  Waiting(s) \in Seq(Message) /\ UpdatesAmong(Waiting(s)) \in Seq(Message)
<1>1. Waiting(s) \in Seq(Message)
  BY ConcatProperties DEF TypeOK, Waiting
<1> QED
  BY <1>1, UpdatesTyped

LEMMA RestAppended ==
    ASSUME NEW S, NEW q \in Seq(S), NEW r \in Seq(S), NEW e \in S
    PROVE  q \o Append(r, e) = Append(q \o r, e)
<1>1. q \o r \in Seq(S) /\ <<e>> \in Seq(S)
  BY ConcatProperties
<1>2. Append(r, e) = r \o <<e>> /\ Append(q \o r, e) = (q \o r) \o <<e>>
  BY <1>1, AppendIsConcat
<1> QED
  BY <1>1, <1>2, ConcatAssociative

LEMMA HeadOff ==
    ASSUME NEW S, NEW q \in Seq(S), q # <<>>, NEW r \in Seq(S)
    PROVE  /\ q \o r \in Seq(S) /\ q \o r # <<>> /\ Head(q \o r) = Head(q)
           /\ Tail(q \o r) = Tail(q) \o r
<1>1. Len(q) \in Nat \ {0} /\ Len(r) \in Nat /\ Len(<<>>) = 0
  BY EmptySeq, LenProperties
<1>2. /\ q \o r \in Seq(S) /\ Len(q \o r) = Len(q) + Len(r)
      /\ \A i \in 1 .. Len(q) + Len(r) : (q \o r)[i] = IF i <= Len(q) THEN q[i] ELSE r[i - Len(q)]
  BY ConcatProperties
<1> DEFINE p == q \o r
           t == Tail(q)
<1>3. p \in Seq(S) /\ p # <<>>
  BY <1>1, <1>2
<1>4. t \in Seq(S) /\ Len(t) = Len(q) - 1 /\ \A i \in 1 .. Len(t) : t[i] = q[i + 1]
  BY HeadTailProperties
<1>5. Tail(p) \in Seq(S) /\ Len(Tail(p)) = Len(p) - 1 /\ \A i \in 1 .. Len(Tail(p)) : Tail(p)[i] = p[i + 1]
  <2> HIDE DEF p
  <2> QED
    BY <1>3, HeadTailProperties
<1>6. /\ t \o r \in Seq(S) /\ Len(t \o r) = Len(t) + Len(r)
      /\ \A i \in 1 .. Len(t) + Len(r) : (t \o r)[i] = IF i <= Len(t) THEN t[i] ELSE r[i - Len(t)]
  <2> HIDE DEF t
  <2> QED
    BY <1>4, ConcatProperties
<1> DEFINE a == Tail(p)
           b == t \o r
<1>7. p[1] = q[1]
  BY <1>1, <1>2
<1>8. /\ Len(p) = Len(q) + Len(r)
      /\ \A i \in 1 .. Len(q) + Len(r) : p[i] = IF i <= Len(q) THEN q[i] ELSE r[i - Len(q)]
  BY <1>2
<1>9. a \in Seq(S) /\ b \in Seq(S)
  BY <1>5, <1>6
<1>10. /\ Len(a) = Len(p) - 1 /\ \A i \in 1 .. Len(a) : a[i] = p[i + 1]
       /\ Len(b) = Len(t) + Len(r)
       /\ \A i \in 1 .. Len(t) + Len(r) : b[i] = IF i <= Len(t) THEN t[i] ELSE r[i - Len(t)]
  BY <1>5, <1>6
<1>11. Head(p) = p[1] /\ Head(q) = q[1]
  OBVIOUS
<1> HIDE DEF p, t, a, b
<1>12. Len(a) = Len(b)
  BY <1>1, <1>4, <1>8, <1>10
<1>13. ASSUME NEW i \in 1 .. Len(a) PROVE a[i] = b[i]
  <2>1. i \in Nat /\ i + 1 \in 1 .. Len(q) + Len(r) /\ i \in 1 .. Len(t) + Len(r)
    BY <1>1, <1>4, <1>8, <1>10
  <2>2. /\ a[i] = IF i + 1 <= Len(q) THEN q[i + 1] ELSE r[(i + 1) - Len(q)]
        /\ b[i] = IF i <= Len(t) THEN t[i] ELSE r[i - Len(t)]
    BY <1>8, <1>10, <2>1
  <2>3. CASE i + 1 <= Len(q)
    <3>1. i \in 1 .. Len(t)
      BY <1>1, <1>4, <2>1, <2>3
    <3> QED
      BY <1>4, <2>2, <2>3, <3>1
  <2>4. CASE ~(i + 1 <= Len(q))
    <3>1. ~(i <= Len(t)) /\ (i + 1) - Len(q) = i - Len(t)
      BY <1>1, <1>4, <2>1, <2>4
    <3> QED
      BY <2>2, <2>4, <3>1
  <2> QED
    BY <2>3, <2>4
<1>14. a = b
  BY <1>9, <1>12, <1>13, SeqEqual
<1> QED
  BY <1>2, <1>3, <1>7, <1>11, <1>14 DEF p, t, a, b

(* What a written message leaves of the updates.                             *)
LEMMA UpdatesDelivered ==
    ASSUME NEW S, NEW q \in Seq(S), q # <<>>
    PROVE  \/ UpdatesAmong(Tail(q)) = UpdatesAmong(q)
           \/ /\ UpdatesAmong(q) # <<>>
              /\ UpdatesAmong(Tail(q)) = Tail(UpdatesAmong(q))
<1> DEFINE h == Head(q)
           u == UpdatesAmong(Tail(q))
<1>1. h \in S /\ u \in Seq(S)
  BY HeadTailProperties, UpdatesTyped
<1>2. UpdatesAmong(q) = IF IsUpdate(h) THEN <<h>> \o u ELSE u
  BY UpdatesHeadOff
<1> HIDE DEF h, u
<1>3. <<h>> \in Seq(S) /\ <<h>> # <<>> /\ Tail(<<h>>) = <<>>
  BY <1>1
<1>4. <<h>> \o u # <<>> /\ Tail(<<h>> \o u) = Tail(<<h>>) \o u
  BY <1>1, <1>3, HeadOff
<1>5. <<>> \o u = u
  BY <1>1, ConcatEmptySeq
<1> QED
  BY <1>2, <1>3, <1>4, <1>5 DEF u

-----------------------------------------------------------------------------
(* The service implements Notifications.                                     *)

(* A session that is open reads or has its handler running; one that is not  *)
(* open yet is on no list, and neither is one being subscribed.              *)
OpenInv == \A s \in Sessions : phase[s] = "open" => reading[s] \/ handling.session = s

YoungInv ==
    \A s \in Sessions : phase[s] \in {"none", "handshake"} =>
        /\ ~reading[s] /\ handling.session # s
        /\ \A o \in Orders : s \notin subs[o]

LeftInv ==
    handling.step = "subscribe" => \A o \in Orders : handling.session \notin subs[o]

LifeInv == OpenInv /\ YoungInv /\ LeftInv

LEMMA LifeStep == ListInv /\ LifeInv /\ [Next]_vars => LifeInv'
<1> SUFFICES ASSUME ListInv, LifeInv, [Next]_vars PROVE LifeInv'
  OBVIOUS
<1>1. /\ TypeOK /\ NamedInv /\ Idle.session = Nobody /\ Idle.step # "subscribe" /\ Nobody \notin Sessions
      /\ phase \in [Sessions -> {"none", "handshake", "open", "gone"}]
      /\ reading \in [Sessions -> BOOLEAN] /\ subs \in [Ids -> SUBSET Sessions]
      /\ Orders \subseteq Ids
  BY NamesAssumption DEF ListInv, TypeOK, Idle, Ids
<1>2. ASSUME NEW s \in Sessions, Connect(s) \/ Handshake(s) PROVE LifeInv'
  <2>1. UNCHANGED <<handling, subs>> /\ handling = Idle /\ phase[s] \in {"none", "handshake"}
    BY <1>2 DEF Connect, Handshake, Ready
  <2>2. \A t \in Sessions \ {s} : phase'[t] = phase[t] /\ reading'[t] = reading[t]
    BY <1>1, <1>2 DEF Connect, Handshake
  <2>3. \/ phase'[s] = "handshake" /\ reading'[s] = reading[s]
        \/ phase'[s] = "open" /\ reading'[s]
        \/ phase'[s] = "gone"
    BY <1>1, <1>2 DEF Connect, Handshake
  <2> QED
    BY <1>1, <2>1, <2>2, <2>3 DEF LifeInv, OpenInv, YoungInv, LeftInv
(* Handlers of a session that reads, and those that end its list.            *)
<1>3. ASSUME NEW s \in Sessions, handling = Idle, reading[s],
             subs' = Unsubscribed(s) \/ subs' = subs,
             \A t \in Sessions \ {s} : phase'[t] = phase[t] /\ reading'[t] = reading[t],
             \/ phase'[s] = "gone" /\ handling' = handling
             \/ phase'[s] = phase[s] /\ reading'[s] /\ handling' = handling
             \/ /\ phase'[s] = phase[s] /\ handling' = [session |-> s, step |-> "subscribe"]
                /\ subs' = Unsubscribed(s)
      PROVE  LifeInv'
  <2>1. \A o \in Orders : Unsubscribed(s)[o] = subs[o] \ {s}
    BY <1>1, UnsubscribedRemoves
  <2>2. \A o \in Orders : subs'[o] \subseteq subs[o]
    BY <1>3, <2>1
  <2>3. phase[s] \notin {"none", "handshake"}
    BY <1>3 DEF LifeInv, YoungInv
  <2>4. \A t \in Sessions : handling.session # t /\ (handling'.session = t => t = s)
    BY <1>1, <1>3
  <2>5. OpenInv'
    BY <1>3, <2>4 DEF LifeInv, OpenInv
  <2>6. YoungInv'
    BY <1>3, <2>2, <2>3, <2>4 DEF LifeInv, YoungInv
  <2>7. LeftInv'
    BY <1>1, <1>3, <2>1 DEF LeftInv
  <2> QED
    BY <2>5, <2>6, <2>7 DEF LifeInv
<1>4. ASSUME NEW s \in Sessions, NEW o \in Ids, ReadSubscribe(s, o) PROVE LifeInv'
  <2>1. /\ handling = Idle /\ reading[s] /\ subs' = Unsubscribed(s) /\ phase' = phase
        /\ handling' = [session |-> s, step |-> "subscribe"]
        /\ reading' = [reading EXCEPT ![s] = FALSE]
    BY <1>4 DEF ReadSubscribe, ReadRequest, CanRead, Ready
  <2>2. \A t \in Sessions \ {s} : reading'[t] = reading[t]
    BY <1>1, <2>1
  <2> QED
    BY <1>3, <2>1, <2>2
<1>5. ASSUME NEW s \in Sessions, ReadMalformed(s) PROVE LifeInv'
  <2>1. /\ handling = Idle /\ reading[s] /\ subs' = Unsubscribed(s)
        /\ UNCHANGED <<handling, phase, reading>>
    BY <1>5 DEF ReadMalformed, ReadRequest, CanRead, Ready
  <2> QED
    BY <1>3, <2>1
<1>6. ASSUME NEW s \in Sessions, ReadClosed(s) \/ ReadFails(s) PROVE LifeInv'
  <2>1. /\ handling = Idle /\ reading[s] /\ handling' = handling
        /\ subs' = Unsubscribed(s) \/ subs' = subs
        /\ phase' = [phase EXCEPT ![s] = "gone"] /\ reading' = [reading EXCEPT ![s] = FALSE]
    BY <1>6 DEF ReadClosed, ReadFails, CanRead, Ready
  <2>2. /\ \A t \in Sessions \ {s} : phase'[t] = phase[t] /\ reading'[t] = reading[t]
        /\ phase'[s] = "gone"
    BY <1>1, <2>1
  <2> QED
    BY <1>3, <2>1, <2>2
<1>7. CASE Subscribe
  <2> DEFINE s == handling.session
  <2>1. /\ s \in Sessions /\ subs' = Subscribed(s) /\ handling' = [session |-> s, step |-> "answer"]
        /\ UNCHANGED <<phase, reading>>
    BY <1>7, <1>1, HandledSession, TypeParts DEF Subscribe
  <2>2. \A o \in Orders : subs'[o] \subseteq subs[o] \cup {s}
    BY <1>1, <2>1 DEF Subscribed
  <2>3. handling'.session = s /\ handling'.step # "subscribe"
    BY <2>1
  <2> QED
    BY <2>1, <2>2, <2>3 DEF LifeInv, OpenInv, YoungInv, LeftInv
<1>8. CASE Answer
  <2> DEFINE s == handling.session
  <2>1. /\ s \in Sessions /\ reading' = [reading EXCEPT ![s] = TRUE] /\ handling' = Idle
        /\ UNCHANGED <<phase, subs>>
    BY <1>8, <1>1, HandledSession, TypeParts DEF Answer
  <2>2. /\ reading'[s] /\ phase[s] \notin {"none", "handshake"}
        /\ \A t \in Sessions \ {s} : reading'[t] = reading[t]
    BY <1>1, <2>1 DEF LifeInv, YoungInv
  <2>3. \A t \in Sessions : handling'.session # t
    BY <1>1, <2>1
  <2> HIDE DEF s
  <2>4. OpenInv'
    BY <2>1, <2>2 DEF LifeInv, OpenInv, s
  <2> QED
    BY <1>1, <2>1, <2>2, <2>3, <2>4 DEF LifeInv, YoungInv, LeftInv
<1>9. ASSUME UNCHANGED <<handling, phase, reading>>, \A o \in Orders : subs'[o] \subseteq subs[o]
      PROVE  LifeInv'
  BY <1>9 DEF LifeInv, OpenInv, YoungInv, LeftInv
<1>10. ASSUME NEW s \in Sessions, WriteFails(s) PROVE LifeInv'
  <2>1. UNCHANGED <<handling, phase, reading>> /\ subs' = Unsubscribed(s)
    BY <1>10 DEF WriteFails
  <2>2. \A o \in Orders : subs'[o] \subseteq subs[o]
    BY <1>1, <2>1, UnsubscribedRemoves
  <2> QED
    BY <1>9, <2>1, <2>2
<1>11. CASE Notify
  <2>1. UNCHANGED <<handling, phase, reading>>
    BY <1>11 DEF Notify
  <2>2. \A o \in Orders : subs'[o] \subseteq subs[o]
    BY <1>1, <1>11 DEF Notify, Kept
  <2> QED
    BY <1>9, <2>1, <2>2
<1>12. CASE UNCHANGED <<handling, phase, reading, subs>>
  BY <1>9, <1>12
<1> QED
  <2>1. \/ \E t \in Sessions : \/ Connect(t) \/ Handshake(t) \/ ReadMalformed(t)
                               \/ ReadClosed(t) \/ ReadFails(t) \/ WriteFails(t)
                               \/ \E o \in Ids : ReadSubscribe(t, o)
        \/ Subscribe \/ Answer \/ Notify
        \/ UNCHANGED <<handling, phase, reading, subs>>
    BY DEF Next, SessionStep, ConsumerStep, RunPosted, WriteDone, AcceptFails,
           ConsumerChecks, ConsumerTimesOut, ConsumerThrows, Signal, Exit, Disconnect, MqBreaks,
           vars, sessionVars
  <2> QED
    BY <1>2, <1>4, <1>5, <1>6, <1>7, <1>8, <1>10, <1>11, <1>12, <2>1

LEMMA LifeInvHolds == Spec => []LifeInv
<1>1. Init => LifeInv
  BY NamesAssumption DEF Init, LifeInv, OpenInv, YoungInv, LeftInv, Idle, Ids
<1> QED
  BY <1>1, LifeStep, ListInvHolds, PTL DEF Spec

(* What FollowedBy says, for a session that is on one list at most.          *)
LEMMA Chosen ==
    ASSUME NEW lists, NEW s, NEW alive \in BOOLEAN, NEW f,
           \A a, b \in Orders : s \in lists[a] /\ s \in lists[b] => a = b,
           f = IF alive /\ \E o \in Orders : s \in lists[o]
               THEN CHOOSE o \in Orders : s \in lists[o]
               ELSE NoOrder
    PROVE  f \in Orders \cup {NoOrder} /\ \A o \in Orders : f = o <=> alive /\ s \in lists[o]
<1>1. CASE alive /\ \E o \in Orders : s \in lists[o]
  <2>1. f = CHOOSE o \in Orders : s \in lists[o]
    BY <1>1
  <2>2. f \in Orders /\ s \in lists[f]
    BY <1>1, <2>1, Zenon
  <2> QED
    BY <1>1, <2>2
<1>2. CASE ~(alive /\ \E o \in Orders : s \in lists[o])
  BY <1>2, NamesAssumption
<1> QED
  BY <1>1, <1>2

LEMMA Followed ==
    ASSUME ListInv, NEW s \in Sessions
    PROVE  /\ FollowedBy(s) \in Orders \cup {NoOrder}
           /\ \A o \in Orders : FollowedBy(s) = o <=> Alive(s) /\ s \in subs[o]
<1>1. Alive(s) \in BOOLEAN
  BY DEF Alive, ListInv, TypeOK
<1>2. \A a, b \in Orders : s \in subs[a] /\ s \in subs[b] => a = b
  BY DEF ListInv, NamedInv
<1>3. FollowedBy(s) = IF Alive(s) /\ \E o \in Orders : s \in subs[o]
                      THEN CHOOSE o \in Orders : s \in subs[o]
                      ELSE NoOrder
  BY DEF FollowedBy
<1> QED
  BY <1>1, <1>2, <1>3, Chosen

LEMMA FollowedNext ==
    ASSUME ListInv', NEW s \in Sessions
    PROVE  /\ FollowedBy(s)' \in Orders \cup {NoOrder}
           /\ \A o \in Orders : FollowedBy(s)' = o <=> Alive(s)' /\ s \in subs'[o]
<1>1. Alive(s)' \in BOOLEAN
  BY DEF Alive, ListInv, TypeOK
<1>2. \A a, b \in Orders : s \in subs'[a] /\ s \in subs'[b] => a = b
  BY DEF ListInv, NamedInv
<1>3. FollowedBy(s)' = IF Alive(s)' /\ \E o \in Orders : s \in subs'[o]
                       THEN CHOOSE o \in Orders : s \in subs'[o]
                       ELSE NoOrder
  BY DEF FollowedBy
<1> QED
  BY <1>1, <1>2, <1>3, Chosen

LEMMA SameFollowed ==
    ASSUME ListInv, ListInv', NEW s \in Sessions,
           \A o \in Orders : (Alive(s) /\ s \in subs[o]) <=> (Alive(s)' /\ s \in subs'[o])
    PROVE  FollowedBy(s)' = FollowedBy(s)
BY Followed, FollowedNext, NamesAssumption

(* The updates on their way to a client.                                     *)
Box(s) == UpdatesAmong(Waiting(s))

LEMMA QuietBoxes ==
    ASSUME TypeOK, NEW s \in Sessions,
           \/ UNCHANGED <<queue, posted>>
           \/ Answer
           \/ \E t \in Sessions : RunPosted(t)
    PROVE  Box(s)' = Box(s)
<1>1. /\ queue \in [Sessions -> Seq(Message)] /\ posted \in [Sessions -> Seq(Message)]
      /\ orderId[s] \in Ids
  BY DEF TypeOK
<1>2. CASE UNCHANGED <<queue, posted>>
  BY <1>2 DEF Box, Waiting
<1>3. CASE Answer
  <2>1. CASE s = handling.session
    <3> DEFINE e == Ack(orderId[s])
               q == queue[s]
               r == posted[s]
    <3>1. queue' = queue /\ posted'[s] = Append(r, e)
      BY <1>1, <1>3, <2>1 DEF Answer
    <3>2. e \in Message /\ ~IsUpdate(e) /\ q \in Seq(Message) /\ r \in Seq(Message)
      BY <1>1 DEF Message, Ack, IsUpdate
    <3>3. Waiting(s)' = q \o Append(r, e) /\ Waiting(s) = q \o r
      BY <3>1 DEF Waiting
    <3> HIDE DEF e, q, r
    <3>4. q \o Append(r, e) = Append(q \o r, e) /\ q \o r \in Seq(Message)
      BY <3>2, RestAppended, ConcatProperties
    <3>5. UpdatesAmong(Append(q \o r, e)) = UpdatesAmong(q \o r)
      BY <3>2, <3>4, UpdatesAppended
    <3>6. Box(s)' = UpdatesAmong(Waiting(s)') /\ Box(s) = UpdatesAmong(Waiting(s))
      BY DEF Box
    <3> QED
      BY <3>3, <3>4, <3>5, <3>6
  <2>2. CASE s # handling.session
    <3>1. UNCHANGED queue /\ posted'[s] = posted[s]
      BY <1>1, <1>3, <2>2 DEF Answer
    <3> QED
      BY <3>1 DEF Box, Waiting
  <2> QED
    BY <2>1, <2>2
<1>4. ASSUME NEW t \in Sessions, RunPosted(t) PROVE Box(s)' = Box(s)
  <2>1. CASE t = s
    <3>1. /\ posted[s] # <<>> /\ posted'[s] = Tail(posted[s])
          /\ queue'[s] = Append(queue[s], Head(posted[s]))
      BY <1>1, <1>4, <2>1 DEF RunPosted
    <3>2. Append(queue[s], Head(posted[s])) \o Tail(posted[s]) = queue[s] \o posted[s]
      BY <1>1, <3>1, Shifted, SMTT(60)
    <3> QED
      BY <3>1, <3>2 DEF Box, Waiting
  <2>2. CASE t # s
    <3>1. posted'[s] = posted[s] /\ queue'[s] = queue[s]
      BY <1>1, <1>4, <2>2 DEF RunPosted
    <3> QED
      BY <3>1 DEF Box, Waiting
  <2> QED
    BY <2>1, <2>2
<1> QED
  BY <1>2, <1>3, <1>4

LEMMA DeliveredBoxes ==
    ASSUME TypeOK, NEW t \in Sessions, WriteDone(t)
    PROVE  /\ \A s \in Sessions \ {t} : Box(s)' = Box(s)
           /\ \/ Box(t)' = Box(t)
              \/ Box(t) # <<>> /\ Box(t)' = Tail(Box(t))
<1>1. /\ queue \in [Sessions -> Seq(Message)] /\ posted \in [Sessions -> Seq(Message)]
      /\ queue[t] # <<>> /\ posted' = posted /\ queue' = [queue EXCEPT ![t] = Tail(queue[t])]
  BY DEF TypeOK, WriteDone, Popped
<1>2. ASSUME NEW s \in Sessions \ {t} PROVE Box(s)' = Box(s)
  <2>1. queue'[s] = queue[s] /\ posted'[s] = posted[s]
    BY <1>1
  <2> QED
    BY <2>1 DEF Box, Waiting
<1>3. Waiting(t)' = Tail(queue[t]) \o posted[t]
  BY <1>1 DEF Waiting
<1>4. Waiting(t) \in Seq(Message) /\ Waiting(t) # <<>> /\ Waiting(t)' = Tail(Waiting(t))
  <2> DEFINE q == queue[t]
             r == posted[t]
  <2>1. q \in Seq(Message) /\ r \in Seq(Message) /\ q # <<>>
    BY <1>1
  <2>2. Waiting(t) = q \o r /\ Waiting(t)' = Tail(q) \o r
    BY <1>3 DEF Waiting
  <2> HIDE DEF q, r
  <2>3. q \o r \in Seq(Message) /\ q \o r # <<>> /\ Tail(q \o r) = Tail(q) \o r
    BY <2>1, HeadOff
  <2> QED
    BY <2>2, <2>3
<1> DEFINE w == Waiting(t)
<1>5. \/ UpdatesAmong(Tail(w)) = UpdatesAmong(w)
      \/ UpdatesAmong(w) # <<>> /\ UpdatesAmong(Tail(w)) = Tail(UpdatesAmong(w))
  BY <1>4, UpdatesDelivered
<1>6. Box(t)' = UpdatesAmong(Waiting(t)') /\ Box(t) = UpdatesAmong(w)
  BY DEF Box
<1> QED
  BY <1>2, <1>4, <1>5, <1>6

LEMMA NotifiedBoxes ==
    ASSUME TypeOK, NEW s \in Sessions, Notify
    PROVE  /\ taken' = taken + 1 /\ taken' \in 1 .. Len(Results) /\ Results[taken'] \in Orders
           /\ Box(s)' = IF s \in Told(Results[taken'])
                        THEN Append(Box(s), Update(Results[taken'], taken')) ELSE Box(s)
<1>1. /\ queue \in [Sessions -> Seq(Message)] /\ posted \in [Sessions -> Seq(Message)]
      /\ taken' = taken + 1 /\ taken' \in 1 .. Len(Results) /\ Results[taken'] \in Orders
  BY ResultsAssumption DEF Notify, TypeOK
<1> DEFINE e == Update(Results[taken'], taken')
           q == queue[s]
           r == posted[s]
<1>2. e \in Message /\ IsUpdate(e) /\ q \in Seq(Message) /\ r \in Seq(Message)
  BY <1>1 DEF Message, Update, IsUpdate
<1>3. queue' = queue /\ posted'[s] = IF s \in Told(Results[taken']) THEN Append(r, e) ELSE r
  BY DEF Notify
<1>4. /\ Waiting(s)' = IF s \in Told(Results[taken']) THEN q \o Append(r, e) ELSE q \o r
      /\ Waiting(s) = q \o r
  BY <1>3 DEF Waiting
<1> HIDE DEF e, q, r
<1>5. q \o Append(r, e) = Append(q \o r, e) /\ q \o r \in Seq(Message)
  BY <1>2, RestAppended, ConcatProperties
<1>6. UpdatesAmong(Append(q \o r, e)) = Append(UpdatesAmong(q \o r), e)
  BY <1>2, <1>5, UpdatesAppended
<1>7. Box(s)' = UpdatesAmong(Waiting(s)') /\ Box(s) = UpdatesAmong(Waiting(s))
  BY DEF Box
<1>8. Box(s)' = IF s \in Told(Results[taken']) THEN Append(Box(s), e) ELSE Box(s)
  BY <1>4, <1>5, <1>6, <1>7
<1> QED
  BY <1>1, <1>8 DEF e

(* Steps after which every session follows what it did before.               *)
LEMMA QuietFollowed ==
    ASSUME ListInv, ListInv', LifeInv, NEW t \in Sessions,
           Connect(t) \/ Handshake(t) \/ RunPosted(t) \/ WriteDone(t),
           NEW s \in Sessions
    PROVE  FollowedBy(s)' = FollowedBy(s)
<1>0. handling = Idle /\ UNCHANGED <<handling, subs>>
  BY DEF Connect, Handshake, RunPosted, WriteDone, Ready
<1>1. /\ TypeOK /\ handling = Idle /\ UNCHANGED <<handling, subs>> /\ handling.session # s
      /\ phase \in [Sessions -> {"none", "handshake", "open", "gone"}]
      /\ reading \in [Sessions -> BOOLEAN] /\ posted \in [Sessions -> Seq(Message)]
      /\ writes \in [Sessions -> 0 .. 1] /\ writing \in [Sessions -> BOOLEAN]
  BY <1>0, NamesAssumption DEF Idle, ListInv, TypeOK
<1>2. SUFFICES ASSUME NEW o \in Orders, s \in subs[o] PROVE Alive(s) <=> Alive(s)'
  BY <1>1, SameFollowed
<1>3. CASE t # s
  <2>1. /\ phase'[s] = phase[s] /\ reading'[s] = reading[s] /\ posted'[s] = posted[s]
        /\ writes'[s] = writes[s]
    BY <1>1, <1>3 DEF Connect, Handshake, RunPosted, WriteDone, strandVars
  <2> QED
    BY <1>1, <2>1 DEF Alive
<1>4. CASE t = s
  <2>1. ~Connect(t) /\ ~Handshake(t)
    BY <1>2, <1>4 DEF Connect, Handshake, LifeInv, YoungInv
  <2>2. CASE RunPosted(t)
    <3>1. posted[s] # <<>> /\ writes'[s] = StartedWrites(s) /\ ~WriteFailed(s)
      BY <1>1, <1>2, <1>4, <2>2 DEF RunPosted, ListInv, FailedInv
    <3>2. writes'[s] > 0
      BY <1>1, <3>1 DEF StartedWrites, WriteFailed
    <3> QED
      BY <3>1, <3>2 DEF Alive
  <2>3. CASE WriteDone(t)
    <3>1. reading[s] /\ reading'[s]
      BY <1>1, <1>4, <2>3 DEF WriteDone, LifeInv, OpenInv
    <3> QED
      BY <3>1 DEF Alive
  <2> QED
    BY <2>1, <2>2, <2>3
<1> QED
  BY <1>3, <1>4

LEMMA AnswerFollowed ==
    ASSUME ListInv, ListInv', Answer, NEW s \in Sessions
    PROVE  FollowedBy(s)' = FollowedBy(s)
<1> DEFINE t == handling.session
<1>1. /\ TypeOK /\ t \in Sessions /\ handling' = Idle /\ handling'.session # s
      /\ posted' = [posted EXCEPT ![t] = Append(@, Ack(orderId[t]))]
      /\ reading' = [reading EXCEPT ![t] = TRUE]
      /\ UNCHANGED <<phase, writes, subs>>
      /\ reading \in [Sessions -> BOOLEAN] /\ posted \in [Sessions -> Seq(Message)]
  BY HandledSession, TypeParts, NamesAssumption DEF Answer, ListInv, TypeOK, Idle
<1>2. Alive(s) <=> Alive(s)'
  <2>1. CASE s = t
    <3>1. reading'[s]
      BY <1>1, <2>1
    <3> QED
      BY <2>1, <3>1 DEF Alive
  <2>2. CASE s # t
    <3>1. reading'[s] = reading[s] /\ posted'[s] = posted[s]
      BY <1>1, <2>2
    <3> QED
      BY <1>1, <2>2, <3>1 DEF Alive
  <2> QED
    BY <2>1, <2>2
<1> QED
  BY <1>1, <1>2, SameFollowed

LEMMA NotifyFollowed ==
    ASSUME ListInv, ListInv', Notify, NEW s \in Sessions
    PROVE  FollowedBy(s)' = FollowedBy(s)
<1> DEFINE r == Results[taken']
<1>0. TypeOK /\ Len(Results) \in Nat
  BY ResultsAssumption DEF ListInv
<1>1. /\ r \in Orders /\ Orders \subseteq Ids /\ UNCHANGED <<handling, phase, reading, writes>>
      /\ subs' = [subs EXCEPT ![r] = Kept(r)] /\ subs \in [Ids -> SUBSET Sessions]
      /\ posted'[s] = IF s \in Told(r) THEN Append(posted[s], Update(r, taken')) ELSE posted[s]
      /\ posted \in [Sessions -> Seq(Message)]
  BY <1>0, NotifiedBoxes DEF Notify, TypeOK, Ids
<1>5. Update(r, taken') \in Message
  BY <1>0, NotifiedBoxes DEF Message
<1> HIDE DEF r
<1>2. Alive(s)' <=> Alive(s)
  <2>1. CASE s \in Told(r)
    <3>1. Alive(s) /\ posted'[s] # <<>>
      BY <1>1, <1>5, <2>1, Appended DEF Told
    <3> QED
      BY <3>1 DEF Alive
  <2>2. CASE s \notin Told(r)
    BY <1>1, <2>2 DEF Alive
  <2> QED
    BY <2>1, <2>2
<1>3. \A o \in Orders : subs'[o] = IF o = r THEN {x \in subs[o] : Alive(x)} ELSE subs[o]
  BY <1>1 DEF Kept
<1>4. \A o \in Orders : (Alive(s) /\ s \in subs[o]) <=> (Alive(s)' /\ s \in subs'[o])
  BY <1>2, <1>3
<1> QED
  BY <1>4, SameFollowed

LEMMA UnseenFollowed ==
    ASSUME UNCHANGED <<handling, phase, reading, posted, writes, subs>>, NEW s \in Sessions
    PROVE  FollowedBy(s)' = FollowedBy(s)
BY DEF FollowedBy, Alive

(* A session that leaves its list, or stays where it is.                     *)
LEMMA LeaveFollowed ==
    ASSUME ListInv, ListInv', NEW t \in Sessions,
           \/ ReadMalformed(t) \/ ReadClosed(t) \/ ReadFails(t) \/ WriteFails(t)
           \/ \E o \in Ids : ReadSubscribe(t, o)
    PROVE  /\ \A s \in Sessions \ {t} : FollowedBy(s)' = FollowedBy(s)
           /\ FollowedBy(t)' \in {FollowedBy(t), NoOrder}
<1>1. /\ TypeOK /\ NamedInv /\ handling = Idle /\ Nobody \notin Sessions
      /\ phase \in [Sessions -> {"none", "handshake", "open", "gone"}]
      /\ reading \in [Sessions -> BOOLEAN] /\ writes \in [Sessions -> 0 .. 1]
  BY NamesAssumption
  DEF ReadMalformed, ReadClosed, ReadFails, WriteFails, ReadSubscribe, ReadRequest, Ready, CanRead,
      ListInv, TypeOK
<1>2. \A o \in Orders : Unsubscribed(t)[o] = subs[o] \ {t}
  BY <1>1, UnsubscribedRemoves
<1>3. ASSUME NEW s \in Sessions \ {t} PROVE FollowedBy(s)' = FollowedBy(s)
  <2>1. /\ phase'[s] = phase[s] /\ reading'[s] = reading[s] /\ writes'[s] = writes[s]
        /\ posted' = posted /\ handling.session # s /\ handling'.session # s
    BY <1>1, <1>3
    DEF ReadMalformed, ReadClosed, ReadFails, WriteFails, ReadSubscribe, ReadRequest, strandVars, Idle
  <2>2. subs' = subs \/ subs' = Unsubscribed(t)
    BY DEF ReadMalformed, ReadClosed, ReadFails, WriteFails, ReadSubscribe, ReadRequest
  <2>3. \A o \in Orders : s \in subs[o] <=> s \in subs'[o]
    BY <1>2, <1>3, <2>2
  <2>4. Alive(s) <=> Alive(s)'
    BY <2>1 DEF Alive
  <2> QED
    BY <2>3, <2>4, SameFollowed
<1>4. FollowedBy(t)' \in {FollowedBy(t), NoOrder}
  <2>1. CASE subs' = Unsubscribed(t)
    <3>1. \A o \in Orders : t \notin subs'[o]
      BY <1>2, <2>1
    <3> QED
      BY <3>1, FollowedNext
  <2>2. CASE ReadFails(t)
    <3>1. Alive(t) /\ subs' = subs
      BY <2>2 DEF ReadFails, CanRead, Alive
    <3>2. CASE Alive(t)'
      BY <3>1, <3>2, SameFollowed
    <3>3. CASE ~Alive(t)'
      BY <3>3, FollowedNext
    <3> QED
      BY <3>2, <3>3
  <2> QED
    BY <2>1, <2>2 DEF ReadMalformed, ReadClosed, WriteFails, ReadSubscribe, ReadRequest
<1> QED
  BY <1>3, <1>4

(* The consumer counts a result for the order it names.                      *)
Taken(n, o) == {i \in 1 .. n : Results[i] = o}

LEMMA OneMoreTaken ==
    ASSUME NEW n \in Nat, NEW o
    PROVE  Cardinality(Taken(n + 1, o)) = Cardinality(Taken(n, o)) + (IF Results[n + 1] = o THEN 1 ELSE 0)
<1>1. IsFiniteSet(Taken(n, o)) /\ n + 1 \notin Taken(n, o) /\ Cardinality(Taken(n, o)) \in Nat
  <2>1. IsFiniteSet(1 .. n)
    BY FS_Interval
  <2>2. Taken(n, o) \subseteq 1 .. n /\ n + 1 \notin Taken(n, o)
    BY DEF Taken
  <2> QED
    BY <2>1, <2>2, FS_Subset, FS_CardinalityType
<1>2. 1 .. n + 1 = (1 .. n) \cup {n + 1}
  OBVIOUS
<1>3. CASE Results[n + 1] = o
  <2>1. Taken(n + 1, o) = Taken(n, o) \cup {n + 1}
    BY <1>2, <1>3 DEF Taken
  <2>2. Cardinality(Taken(n, o) \cup {n + 1}) = Cardinality(Taken(n, o)) + 1
    BY <1>1, FS_AddElement
  <2> QED
    BY <1>3, <2>1, <2>2
<1>4. CASE Results[n + 1] # o
  <2>1. Taken(n + 1, o) = Taken(n, o)
    BY <1>2, <1>4 DEF Taken
  <2> QED
    BY <1>1, <1>4, <2>1
<1> QED
  BY <1>3, <1>4

NotifierStep == [Abstract!NotificationsNext]_(Abstract!notificationVars)

LEMMA Stutters ==
    ASSUME \A s \in Sessions : FollowedBy(s)' = FollowedBy(s) /\ Box(s)' = Box(s), taken' = taken
    PROVE  NotifierStep
<1>1. /\ [s \in Sessions |-> FollowedBy(s)]' = [s \in Sessions |-> FollowedBy(s)]
      /\ [s \in Sessions |-> UpdatesAmong(queue[s] \o posted[s])]'
            = [s \in Sessions |-> UpdatesAmong(queue[s] \o posted[s])]
  BY Zenon DEF Box, Waiting
<1>2. [o \in Orders |-> Cardinality({n \in 1 .. taken : Results[n] = o})]'
         = [o \in Orders |-> Cardinality({n \in 1 .. taken : Results[n] = o})]
  BY Zenon
<1> QED
  BY <1>1, <1>2 DEF NotifierStep, Abstract!notificationVars

LEMMA Leaves ==
    ASSUME NEW t \in Sessions,
           \A s \in Sessions \ {t} : FollowedBy(s)' = FollowedBy(s),
           FollowedBy(t)' = NoOrder,
           \A s \in Sessions : Box(s)' = Box(s), taken' = taken
    PROVE  NotifierStep
<1> DEFINE F == [s \in Sessions |-> FollowedBy(s)]
<1>1. F' = [F EXCEPT ![t] = NoOrder]
  BY Zenon
<1>2. [s \in Sessions |-> UpdatesAmong(queue[s] \o posted[s])]'
         = [s \in Sessions |-> UpdatesAmong(queue[s] \o posted[s])]
  BY Zenon DEF Box, Waiting
<1>3. [o \in Orders |-> Cardinality({n \in 1 .. taken : Results[n] = o})]'
         = [o \in Orders |-> Cardinality({n \in 1 .. taken : Results[n] = o})]
  BY Zenon
<1>4. Abstract!Leave(t)
  BY <1>1, <1>2, <1>3 DEF Abstract!Leave
<1> QED
  BY <1>4 DEF NotifierStep, Abstract!NotificationsNext

LEMMA Joins ==
    ASSUME NEW t \in Sessions, NEW r \in Orders, FollowedBy(t) = NoOrder,
           \A s \in Sessions \ {t} : FollowedBy(s)' = FollowedBy(s),
           FollowedBy(t)' = r,
           \A s \in Sessions : Box(s)' = Box(s), taken' = taken
    PROVE  NotifierStep
<1> DEFINE F == [s \in Sessions |-> FollowedBy(s)]
<1>1. F' = [F EXCEPT ![t] = r] /\ F[t] = NoOrder
  BY Zenon
<1>2. [s \in Sessions |-> UpdatesAmong(queue[s] \o posted[s])]'
         = [s \in Sessions |-> UpdatesAmong(queue[s] \o posted[s])]
  BY Zenon DEF Box, Waiting
<1>3. [o \in Orders |-> Cardinality({n \in 1 .. taken : Results[n] = o})]'
         = [o \in Orders |-> Cardinality({n \in 1 .. taken : Results[n] = o})]
  BY Zenon
<1>4. Abstract!Join(t, r)
  BY <1>1, <1>2, <1>3 DEF Abstract!Join
<1> QED
  BY <1>4 DEF NotifierStep, Abstract!NotificationsNext

LEMMA Delivers ==
    ASSUME NEW t \in Sessions, Box(t) # <<>>, Box(t)' = Tail(Box(t)),
           \A s \in Sessions \ {t} : Box(s)' = Box(s),
           \A s \in Sessions : FollowedBy(s)' = FollowedBy(s), taken' = taken
    PROVE  NotifierStep
<1> DEFINE B == [s \in Sessions |-> UpdatesAmong(queue[s] \o posted[s])]
<1>1. \A s \in Sessions : B[s] = Box(s) /\ B'[s] = Box(s)'
  BY Zenon DEF Box, Waiting
<1>2. [s \in Sessions |-> FollowedBy(s)]' = [s \in Sessions |-> FollowedBy(s)]
  BY Zenon
<1>3. [o \in Orders |-> Cardinality({n \in 1 .. taken : Results[n] = o})]'
         = [o \in Orders |-> Cardinality({n \in 1 .. taken : Results[n] = o})]
  BY Zenon
<1>4. B' = [B EXCEPT ![t] = Tail(B[t])] /\ B[t] # <<>>
  <2>1. /\ B = [s \in Sessions |-> B[s]]
        /\ B' = [s \in Sessions |-> B'[s]]
    OBVIOUS
  <2> HIDE DEF B
  <2> QED
    BY <1>1, <2>1
<1>5. Abstract!Deliver(t)
  BY <1>2, <1>3, <1>4, Zenon DEF Abstract!Deliver
<1> QED
  BY <1>5 DEF NotifierStep, Abstract!NotificationsNext

LEMMA Pushes ==
    ASSUME TypeOK, NEW n \in 1 .. Len(Results), taken' = n, taken = n - 1, Results[n] \in Orders,
           \A s \in Sessions :
               /\ FollowedBy(s)' = FollowedBy(s)
               /\ Box(s)' = IF FollowedBy(s) = Results[n]
                            THEN Append(Box(s), Update(Results[n], n)) ELSE Box(s)
    PROVE  NotifierStep
<1> DEFINE u == Update(Results[n], n)
           B == [s \in Sessions |-> UpdatesAmong(queue[s] \o posted[s])]
           F == [s \in Sessions |-> FollowedBy(s)]
           C == [o \in Orders |-> Cardinality({i \in 1 .. taken : Results[i] = o})]
<1>1. u \in {Update(Results[i], i) : i \in 1 .. Len(Results)} /\ u.order = Results[n]
  BY DEF Update
<1>2. F' = F
  BY Zenon
<1>3. B' = [s \in Sessions |-> IF F[s] = u.order THEN Append(B[s], u) ELSE B[s]]
  <2>1. \A s \in Sessions : B[s] = Box(s) /\ B'[s] = Box(s)' /\ F[s] = FollowedBy(s)
    BY Zenon DEF Box, Waiting
  <2>2. B' = [s \in Sessions |-> B'[s]]
    OBVIOUS
  <2> HIDE DEF B, F, u
  <2>3. \A s \in Sessions : B'[s] = IF F[s] = u.order THEN Append(B[s], u) ELSE B[s]
    BY <1>1, <2>1 DEF u
  <2> QED
    BY <2>2, <2>3, Zenon
<1>4. C' = [C EXCEPT ![u.order] = C[u.order] + 1]
  <2>1. \A o \in Orders : C[o] = Cardinality(Taken(n - 1, o)) /\ C'[o] = Cardinality(Taken(n, o))
    BY Zenon DEF Taken
  <2>2. C = [o \in Orders |-> C[o]] /\ C' = [o \in Orders |-> C'[o]]
    OBVIOUS
  <2>3. n - 1 \in Nat /\ (n - 1) + 1 = n
    BY ResultsAssumption
  <2> DEFINE m == n - 1
  <2> HIDE DEF C, m, u
  <2>4. m \in Nat /\ m + 1 = n /\ \A o \in Orders : C[o] = Cardinality(Taken(m, o))
    BY <2>1, <2>3 DEF m
  <2>5. \A o \in Orders : Cardinality(Taken(n, o)) = Cardinality(Taken(m, o)) + (IF Results[n] = o THEN 1 ELSE 0)
    BY <2>4, OneMoreTaken
  <2>6. \A o \in Orders : Cardinality(Taken(m, o)) \in Nat
    <3> SUFFICES ASSUME NEW o \in Orders PROVE Cardinality(Taken(m, o)) \in Nat
      OBVIOUS
    <3>1. IsFiniteSet(1 .. m)
      BY <2>4, FS_Interval
    <3> QED
      BY <3>1, FS_Subset, FS_CardinalityType DEF Taken
  <2>7. \A o \in Orders : C'[o] = IF o = u.order THEN C[o] + 1 ELSE C[o]
    BY <1>1, <2>1, <2>4, <2>5, <2>6
  <2> QED
    BY <1>1, <2>2, <2>7
<1>5. Abstract!Push(u)
  BY <1>2, <1>3, <1>4, Zenon DEF Abstract!Push
<1>6. Abstract!NotificationsNext
  BY <1>1, <1>5 DEF Abstract!NotificationsNext
<1> QED
  BY <1>6 DEF NotifierStep

LEMMA NotifierSteps == ListInv /\ LifeInv /\ [Next]_vars => NotifierStep
<1> SUFFICES ASSUME ListInv, LifeInv, [Next]_vars PROVE NotifierStep
  OBVIOUS
<1>1. TypeOK /\ ListInv'
  BY ListStep DEF ListInv
<1>2. ASSUME NEW t \in Sessions, Connect(t) \/ Handshake(t) \/ RunPosted(t) PROVE NotifierStep
  <2>1. \A s \in Sessions : FollowedBy(s)' = FollowedBy(s)
    BY <1>1, <1>2, QuietFollowed
  <2>2. RunPosted(t) \/ UNCHANGED <<queue, posted>>
    BY <1>2 DEF Connect, Handshake, strandVars
  <2>3. \A s \in Sessions : Box(s)' = Box(s)
    BY <1>1, <2>2, QuietBoxes
  <2>4. taken' = taken
    BY <1>2 DEF Connect, Handshake, RunPosted, mainVars, consumerVars
  <2> QED
    BY <2>1, <2>3, <2>4, Stutters
<1>3. ASSUME NEW t \in Sessions, WriteDone(t) PROVE NotifierStep
  <2>1. \A s \in Sessions : FollowedBy(s)' = FollowedBy(s)
    BY <1>1, <1>3, QuietFollowed
  <2>2. taken' = taken
    BY <1>3 DEF WriteDone, mainVars, consumerVars
  <2>3. /\ \A s \in Sessions \ {t} : Box(s)' = Box(s)
        /\ \/ Box(t)' = Box(t)
           \/ Box(t) # <<>> /\ Box(t)' = Tail(Box(t))
    BY <1>1, <1>3, DeliveredBoxes
  <2> QED
    BY <2>1, <2>2, <2>3, Stutters, Delivers
<1>4. ASSUME NEW t \in Sessions,
             \/ ReadMalformed(t) \/ ReadClosed(t) \/ ReadFails(t) \/ WriteFails(t)
             \/ \E o \in Ids : ReadSubscribe(t, o)
      PROVE  NotifierStep
  <2>1. /\ \A s \in Sessions \ {t} : FollowedBy(s)' = FollowedBy(s)
        /\ FollowedBy(t)' \in {FollowedBy(t), NoOrder}
    BY <1>1, <1>4, LeaveFollowed
  <2>2. UNCHANGED <<queue, posted, taken>>
    BY <1>4 DEF ReadMalformed, ReadClosed, ReadFails, WriteFails, ReadSubscribe, ReadRequest,
           strandVars, mainVars, consumerVars
  <2>3. \A s \in Sessions : Box(s)' = Box(s)
    BY <1>1, <2>2, QuietBoxes
  <2>4. CASE FollowedBy(t)' = FollowedBy(t)
    BY <2>1, <2>2, <2>3, <2>4, Stutters
  <2>5. CASE FollowedBy(t)' = NoOrder
    BY <2>1, <2>2, <2>3, <2>5, Leaves
  <2> QED
    BY <2>1, <2>4, <2>5
<1>5. CASE Subscribe
  <2>0. PICK t \in Sessions : t = handling.session
    BY <1>1, <1>5, HandledSession, TypeParts DEF Subscribe
  <2>1. /\ subs' = Subscribed(t)
        /\ handling' = [session |-> t, step |-> "answer"]
        /\ UNCHANGED <<phase, reading, queue, posted, writes, taken>>
        /\ \A o \in Orders : t \notin subs[o]
    BY <1>5, <2>0
    DEF Subscribe, strandVars, mainVars, consumerVars, LifeInv, LeftInv
  <2>2. handling'.session = t /\ \A s \in Sessions : handling'.session = s <=> handling.session = s
    BY <2>0, <2>1
  <2>3. subs \in [Ids -> SUBSET Sessions] /\ orderId[t] \in Ids /\ Orders \subseteq Ids
    BY <1>1 DEF TypeOK, Ids
  <2>4. \A o \in Orders : subs'[o] = IF o = orderId[t] THEN subs[o] \cup {t} ELSE subs[o]
    BY <2>1, <2>3 DEF Subscribed
  <2>5. \A s \in Sessions : Alive(s)' <=> Alive(s)
    BY <2>1, <2>2 DEF Alive
  <2>6. \A s \in Sessions \ {t} : FollowedBy(s)' = FollowedBy(s)
    <3> SUFFICES ASSUME NEW s \in Sessions \ {t} PROVE FollowedBy(s)' = FollowedBy(s)
      OBVIOUS
    <3>1. \A o \in Orders : (Alive(s) /\ s \in subs[o]) <=> (Alive(s)' /\ s \in subs'[o])
      BY <2>4, <2>5
    <3> QED
      BY <1>1, <3>1, SameFollowed
  <2>7. \A s \in Sessions : Box(s)' = Box(s)
    BY <1>1, <2>1, QuietBoxes
  <2>8. FollowedBy(t) = NoOrder
    BY <2>1, Followed
  <2>9. CASE orderId[t] \in Orders
    <3>1. Alive(t)'
      BY <2>2 DEF Alive
    <3>2. FollowedBy(t)' = orderId[t]
      BY <1>1, <2>1, <2>4, <2>9, <3>1, FollowedNext
    <3> QED
      BY <2>1, <2>6, <2>7, <2>8, <2>9, <3>2, Joins
  <2>10. CASE orderId[t] \notin Orders
    <3>1. \A o \in Orders : t \notin subs'[o]
      BY <2>1, <2>4, <2>10
    <3>2. FollowedBy(t)' = FollowedBy(t)
      BY <1>1, <2>1, <2>8, <3>1, FollowedNext
    <3> QED
      BY <2>1, <2>6, <2>7, <3>2, Stutters
  <2> QED
    BY <2>9, <2>10
<1>6. CASE Answer
  <2>1. \A s \in Sessions : FollowedBy(s)' = FollowedBy(s) /\ Box(s)' = Box(s)
    BY <1>1, <1>6, AnswerFollowed, QuietBoxes
  <2>2. taken' = taken
    BY <1>6 DEF Answer, mainVars, consumerVars
  <2> QED
    BY <2>1, <2>2, Stutters
<1>7. CASE Notify
  <2> DEFINE n == taken'
  <2>1. taken' = taken + 1 /\ n \in 1 .. Len(Results) /\ Results[n] \in Orders /\ taken = n - 1
    <3>1. taken \in Nat /\ taken' = taken + 1
      BY <1>1, <1>7, ResultsAssumption DEF TypeOK, Notify
    <3>2. taken' \in 1 .. Len(Results) /\ Results[taken'] \in Orders
      BY <1>1, <1>7, <3>1, ResultsAssumption DEF TypeOK, Notify
    <3> QED
      BY <3>1, <3>2
  <2>2. \A s \in Sessions : FollowedBy(s)' = FollowedBy(s)
    BY <1>1, <1>7, NotifyFollowed
  <2>3. ASSUME NEW s \in Sessions
        PROVE  Box(s)' = IF FollowedBy(s) = Results[n]
                         THEN Append(Box(s), Update(Results[n], n)) ELSE Box(s)
    <3>1. s \in Told(Results[n]) <=> FollowedBy(s) = Results[n]
      BY <2>1, Followed DEF Told
    <3>2. Box(s)' = IF s \in Told(Results[n])
                    THEN Append(Box(s), Update(Results[n], n)) ELSE Box(s)
      BY <1>1, <1>7, NotifiedBoxes
    <3> QED
      BY <3>1, <3>2
  <2> QED
    BY <1>1, <2>1, <2>2, <2>3, Pushes
<1>8. CASE UNCHANGED <<handling, phase, reading, queue, posted, writes, subs, taken>>
  <2>1. \A s \in Sessions : FollowedBy(s)' = FollowedBy(s) /\ Box(s)' = Box(s)
    BY <1>1, <1>8, UnseenFollowed, QuietBoxes
  <2> QED
    BY <1>8, <2>1, Stutters
<1> QED
  <2>1. \/ \E t \in Sessions : \/ Connect(t) \/ Handshake(t) \/ RunPosted(t) \/ WriteDone(t)
                               \/ ReadMalformed(t) \/ ReadClosed(t) \/ ReadFails(t) \/ WriteFails(t)
                               \/ \E o \in Ids : ReadSubscribe(t, o)
        \/ Subscribe \/ Answer \/ Notify
        \/ UNCHANGED <<handling, phase, reading, queue, posted, writes, subs, taken>>
    BY DEF Next, SessionStep, ConsumerStep, AcceptFails, ConsumerChecks, ConsumerTimesOut,
           ConsumerThrows, Signal, Exit, Disconnect, MqBreaks, vars, sessionVars, mainVars,
           consumerVars, strandVars
  <2> QED
    BY <1>2, <1>3, <1>4, <1>5, <1>6, <1>7, <1>8, <2>1

LEMMA NotifierStarts == Init => Abstract!NotificationsInit
<1> SUFFICES ASSUME Init PROVE Abstract!NotificationsInit
  OBVIOUS
<1>1. ASSUME NEW s \in Sessions PROVE FollowedBy(s) = NoOrder
  <2>1. \A o \in Orders : s \notin subs[o]
    BY DEF Init, Ids
  <2> QED
    BY <2>1 DEF FollowedBy
<1>2. ASSUME NEW s \in Sessions PROVE UpdatesAmong(queue[s] \o posted[s]) = <<>>
  <2>1. queue[s] \o posted[s] = <<>>
    BY ConcatEmptySeq DEF Init
  <2> QED
    BY <2>1, UpdatesEmpty
<1>3. ASSUME NEW o \in Orders PROVE Cardinality({n \in 1 .. taken : Results[n] = o}) = 0
  <2>1. {n \in 1 .. taken : Results[n] = o} = {}
    BY DEF Init
  <2> QED
    BY <2>1, FS_EmptySet
<1> QED
  BY <1>1, <1>2, <1>3, Zenon DEF Abstract!NotificationsInit

(* ImplementsNotifications: whatever the two threads, the strands, dead      *)
(* sessions and failing writes do, seen from outside an update goes to all   *)
(* the sessions that follow its order at once and to no other, and each      *)
(* session is given its updates in that order.                               *)
THEOREM Implements == Spec => ImplementsNotifications
BY NotifierStarts, NotifierSteps, ListInvHolds, LifeInvHolds, PTL
DEF Spec, ImplementsNotifications, Abstract!NotificationsSpec, NotifierStep
=============================================================================
