---------------------------- MODULE Notifications ----------------------------
(***************************************************************************)
(* What the websocket service promises, without threads, strands, weak     *)
(* pointers or pending writes: a session follows at most one order, an     *)
(* update reaches every session that follows its order when the result is  *)
(* consumed, and no other, and each session gets its updates in that       *)
(* order.  An update nobody follows is dropped.                            *)
(***************************************************************************)
EXTENDS Naturals, Sequences

CONSTANTS Sessions, Orders, Nothing, Updates    \* an update names its order

VARIABLES
    follows,       \* the order each session follows, or Nothing
    box,           \* updates on their way to each session
    consumed       \* of each order: results that were consumed

notificationVars == <<follows, box, consumed>>

NotificationsInit ==
    /\ follows = [s \in Sessions |-> Nothing]
    /\ box = [s \in Sessions |-> <<>>]
    /\ consumed = [o \in Orders |-> 0]

(* on_read and subscribe; a session leaves its order before it joins another *)
(* one.                                                                      *)
Join(s, o) ==
    /\ follows[s] = Nothing
    /\ follows' = [follows EXCEPT ![s] = o]
    /\ UNCHANGED <<box, consumed>>

Leave(s) ==
    /\ follows' = [follows EXCEPT ![s] = Nothing]
    /\ UNCHANGED <<box, consumed>>

(* The consumer takes a result and notifies.                                 *)
Push(u) ==
    /\ consumed' = [consumed EXCEPT ![u.order] = @ + 1]
    /\ box' = [s \in Sessions |-> IF follows[s] = u.order THEN Append(box[s], u) ELSE box[s]]
    /\ UNCHANGED follows

Deliver(s) ==
    /\ box[s] # <<>>
    /\ box' = [box EXCEPT ![s] = Tail(@)]
    /\ UNCHANGED <<follows, consumed>>

(* Connections are gone, and what was under way with them.                   *)
End(ended) ==
    /\ follows' = [s \in Sessions |-> IF s \in ended THEN Nothing ELSE follows[s]]
    /\ box' = [s \in Sessions |-> IF s \in ended THEN <<>> ELSE box[s]]
    /\ UNCHANGED consumed

NotificationsNext ==
    \/ \E s \in Sessions :
          \/ \E o \in Orders : Join(s, o)
          \/ Leave(s) \/ Deliver(s)
    \/ \E ended \in SUBSET Sessions : End(ended)
    \/ \E u \in Updates : Push(u)

NotificationsSpec == NotificationsInit /\ [][NotificationsNext]_notificationVars
=============================================================================
