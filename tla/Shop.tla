-------------------------------- MODULE Shop --------------------------------
(***************************************************************************)
(* The shop as a whole: the page (OrderPage) and the three services it     *)
(* talks to, each as the promise its own module is shown to keep:          *)
(* OrderPlacement for the orders service, PaymentVerdicts for the payments *)
(* service, Notifications for the websocket service.  The queues           *)
(* payment.requests and payment.results join them; a result may be         *)
(* consumed more than once, late, or, when the websocket service dies with *)
(* it, never.                                                              *)
(*                                                                         *)
(* The page reaches the services under the paths they serve, which takes a *)
(* proxy that routes /api and /ws to them; nginx.conf does not.            *)
(***************************************************************************)
EXTENDS OrderPage

CONSTANTS
    MaxRequests,   \* bound: orders whose payment is requested
    MaxCopies      \* bound: times the result of an order is consumed

ASSUME BoundsAssumption == MaxRequests \in Nat /\ MaxCopies \in Nat

VARIABLES
    placed, requested,               \* orders service
    row, results, announced,         \* payments service
    follows, box, consumed,          \* websocket service
    alone,         \* history: each request was alone on its way, and answered
    disowned       \* history: live sockets whose entry another socket's close took

(* PaymentRequest and PaymentResult: one request per order.                  *)
Answers == {[request |-> o, order |-> o, success |-> v] : o \in Orders, v \in BOOLEAN}

Placement == INSTANCE OrderPlacement
    WITH Requests <- Orders,
         confirmed <- {o \in Orders : post[o] \in {"created", "done"}}
Payments == INSTANCE PaymentVerdicts WITH trusted <- TRUE
Notifier == INSTANCE Notifications
    WITH Sessions <- Sockets, Nothing <- None, Updates <- Answers

ordersVars == <<placed, requested>>
paymentsVars == <<row, results, announced>>
notifierVars == <<follows, box, consumed>>
serverVars == <<ordersVars, paymentsVars, notifierVars>>
historyVars == <<alone, disowned>>
vars == <<pageVars, serverVars, historyVars>>

Init ==
    /\ PageInit
    /\ Placement!PlacementInit
    /\ Payments!VerdictsInit
    /\ Notifier!NotificationsInit
    /\ alone = TRUE
    /\ disowned = {}

-----------------------------------------------------------------------------
(* The page, and what its requests do to the services.                       *)

(* Sockets the page has closed in this step end for the notifier as well.    *)
Ended == {s \in Sockets : conn[s] # Over /\ conn'[s] = Over}

Rendering ==
    /\ Render
    /\ Notifier!End(Ended)
    /\ disowned' = disowned \ Ended
    /\ UNCHANGED <<ordersVars, paymentsVars, alone>>

Editing(u) ==
    /\ EditUser(u)
    /\ Notifier!End(Ended)
    /\ alone' = (alone /\ Waiting = 0)
    /\ disowned' = disowned \ Ended
    /\ UNCHANGED <<ordersVars, paymentsVars>>

(* get_user_orders.                                                          *)
Reading(k) ==
    /\ LoadReads(k, {o \in placed : owner[o] = loads[k].user})
    /\ UNCHANGED <<serverVars, historyVars>>

Loading(k) ==
    \/ LoadArrives(k) /\ UNCHANGED <<serverVars, historyVars>>
    \/ LoadFails(k) /\ alone' = FALSE /\ UNCHANGED <<serverVars, disowned>>

Clicking(o) ==
    /\ Click(o)
    /\ alone' = (alone /\ Waiting = 0)
    /\ UNCHANGED <<serverVars, disowned>>

(* create_order commits; the client may have given up.                       *)
Placing(o) ==
    /\ post[o] # "none"
    /\ UNCHANGED <<pageVars, paymentsVars, notifierVars, historyVars>>
    /\ Placement!Place(o)

Confirming(o) ==
    /\ PostAnswered(o)
    /\ Placement!Confirm(o)
    /\ UNCHANGED <<paymentsVars, notifierVars, historyVars>>

Creating(o) ==
    \/ PostArrives(o) /\ UNCHANGED <<serverVars, historyVars>>
    \/ PostFails(o) /\ alone' = FALSE /\ UNCHANGED <<serverVars, disowned>>

-----------------------------------------------------------------------------
(* The services.                                                             *)

Requesting(o) ==
    /\ Cardinality(requested) < MaxRequests
    /\ UNCHANGED <<pageVars, paymentsVars, notifierVars, historyVars>>
    /\ Placement!RequestPayment(o)

Deciding(a) ==
    /\ a.order \in requested
    /\ Payments!Decide(a) \/ Payments!Announce(a)
    /\ UNCHANGED <<pageVars, ordersVars, notifierVars, historyVars>>

(* The websocket service consumes a result.                                  *)
Notifying(a) ==
    /\ a \in announced
    /\ consumed[a.order] < MaxCopies
    /\ Notifier!Push(a)
    /\ UNCHANGED <<pageVars, ordersVars, paymentsVars, historyVars>>

-----------------------------------------------------------------------------
(* Sockets.                                                                  *)

(* The socket opens, and its subscription reaches the service.               *)
Opening(s) ==
    /\ Opens(s)
    /\ Notifier!Join(s, conn[s].order)
    /\ UNCHANGED <<ordersVars, paymentsVars, historyVars>>

(* The notification the consumer builds from a result.                       *)
Status(a) == IF a.success THEN "FINISHED" ELSE "CANCELLED"

Hearing(s) ==
    /\ box[s] # <<>>
    /\ MessageArrives(s, Head(box[s]).order, Status(Head(box[s])))
    /\ Notifier!Deliver(s)
    /\ UNCHANGED <<ordersVars, paymentsVars, historyVars>>

(* The socket whose entry the close of another one of the order takes.       *)
Disowned(o, closed) == {t \in Sockets \ {closed} : sockets[o] = t}

Closed(o) ==
    /\ Closes(o)
    /\ disowned' = disowned \cup Disowned(o, None)
    /\ UNCHANGED <<serverVars, alone>>

Broken(s) ==
    /\ Breaks(s)
    /\ Notifier!End({s})
    /\ disowned' = (disowned \ {s}) \cup Disowned(conn[s].order, s)
    /\ UNCHANGED <<ordersVars, paymentsVars, alone>>

-----------------------------------------------------------------------------
OrderStep(o) == \/ Clicking(o) \/ Placing(o) \/ Confirming(o) \/ Creating(o)
                \/ Requesting(o) \/ Closed(o)

Next ==
    \/ Rendering
    \/ \E u \in Users : Editing(u)
    \/ \E k \in DOMAIN loads : Reading(k) \/ Loading(k)
    \/ \E o \in Orders : OrderStep(o)
    \/ \E a \in Answers : Deciding(a) \/ Notifying(a)
    \/ \E s \in Sockets : Opening(s) \/ Hearing(s) \/ Broken(s)

(* The browser renders what is queued and dispatches the messages that have  *)
(* come.  Nothing is assumed of users, services and connections.             *)
Fairness ==
    /\ WF_vars(Rendering)
    /\ WF_vars(\E s \in Sockets : Hearing(s))

Spec == Init /\ [][Next]_vars
FairSpec == Spec /\ Fairness

-----------------------------------------------------------------------------
(* Properties.                                                               *)

Entries == Seq([id : Orders, status : {"NEW", "FINISHED", "CANCELLED"}])

(* Types; an entry of the socket map is a live socket of its order, and a    *)
(* socket follows nothing but its own order.                                 *)
TypeOK ==
    /\ user \in Users
    /\ list \in Entries /\ shown \in Entries
    /\ queued \in BOOLEAN /\ alone \in BOOLEAN
    /\ conn \in [Sockets -> [order : Orders \cup {None},
                             state : {"connecting", "open", "over"}]]
    /\ closing \in [Orders -> Nat]
    /\ loads \in Seq([user : Users, phase : {"sent", "read", "done"}, orders : SUBSET Orders])
    /\ post \in [Orders -> {"none", "sent", "created", "done", "failed"}]
    /\ owner \in [Orders -> Users \cup {None}]
    /\ consumed \in [Orders -> 0 .. MaxCopies]
    /\ sockets \in [Orders -> Sockets \cup {None}]
    /\ \A o \in Orders : sockets[o] # None =>
          conn[sockets[o]].order = o
    /\ \A s \in Sockets : follows[s] \in {None, conn[s].order}

(* loadOrders and createOrder both write the list, and answers overtake each *)
(* other.  As long as no request was sent while another was on its way and   *)
(* all were answered, the page, once it has rendered, shows the user's       *)
(* orders, all of them, no others, and each once.                            *)
ListIsRight ==
    alone /\ Waiting = 0 /\ ~queued =>
        /\ Ids(shown) = {o \in placed : owner[o] = user}
        /\ Len(shown) = Cardinality(Ids(shown))

(* From the payment to the page: through stale lists, duplicate entries and  *)
(* sockets that overlap, a status other than NEW is the result of that order *)
(* on record, so a page never shows an order paid that was not.              *)
StatusIsVerdict ==
    \A i \in DOMAIN list :
        \/ list[i].status = "NEW"
        \/ \E a \in results :
              /\ a.order = list[i].id
              /\ list[i].status = IF a.success THEN "FINISHED" ELSE "CANCELLED"

(* The socket map and the connections agree through user changes, lists that *)
(* drop orders and late close events: a live socket is the one in the map,   *)
(* or the close of an earlier socket of its order has taken its entry (only  *)
(* the latter are never closed by the page).  Without user changes and       *)
(* broken connections every order on the page has its socket.                *)
SocketsAreOwned ==
    /\ \A s \in Sockets :
          conn[s] # Over => sockets[conn[s].order] = s \/ s \in disowned
    /\ Upsets = 0 => \A o \in Ids(shown) : sockets[o] # None

(* An update on its way over the socket the page has for a listed order is   *)
(* shown, unless the page loses that socket, the order leaves the list, or a *)
(* list or the order itself is on its way to the page and may overtake it.   *)
VerdictIsShown ==
    \A o \in Orders :
        sockets[o] # None /\ box[sockets[o]] # <<>> /\ o \in Ids(list)
        ~> \/ \A i \in DOMAIN shown : shown[i].id = o => shown[i].status # "NEW"
           \/ o \notin Ids(list)
           \/ sockets[o] = None
           \/ post[o] = "created"
           \/ \E k \in DOMAIN loads : loads[k].phase # "done"
=============================================================================
