----------------------------- MODULE OrderPage -----------------------------
(***************************************************************************)
(* The page of the shop (App.tsx): the orders of the user in its input     *)
(* field, each with the status last heard of, and one WebSocket per order. *)
(*                                                                         *)
(* A step is one callback of the page.  React renders a queued setOrders   *)
(* later and then runs the effect on [orders, userId]; typing into the     *)
(* user field is rendered at once, with the orders of the last render, and *)
(* both effects run.  Nothing can tell the effect from its render: what    *)
(* may come between them, a message, an answer or a close, has the same    *)
(* outcome before or after.                                                *)
(*                                                                         *)
(* The page's servers are left to the module that composes them with it:   *)
(* it says which orders a list has when it is read, whether a POST is      *)
(* answered, and what the sockets bring.  A socket the page closes         *)
(* dispatches nothing any more but its close event.                        *)
(*                                                                         *)
(* Outside the model: the balance and its two buttons, toasts, the amount  *)
(* test of the form, order fields, the order of the list, and the reload   *)
(* after a 201 without an order, which the orders service never sends.     *)
(***************************************************************************)
EXTENDS Naturals, FiniteSets, Sequences, SequencesExt, Functions

CONSTANTS
    Users,         \* what the user field can hold
    FirstUser,     \* useState('user123')
    MaxOrders,     \* bound: orders the user clicks for
    Sockets,       \* connections; one that is not live can be used again
    None,
    MaxWaiting,    \* bound: requests under way when the page sends another
    MaxUpsets      \* bound: changes of the user field and broken connections

ASSUME PageAssumption ==
    /\ FirstUser \in Users
    /\ None \notin Sockets
    /\ IsFiniteSet(Sockets)
    /\ MaxOrders \in Nat
    /\ MaxWaiting \in Nat
    /\ MaxUpsets \in Nat

VARIABLES
    user,          \* userId
    list,          \* orders, with the updates React has not rendered
    shown,         \* orders as last rendered
    queued,        \* setOrders was called since
    sockets,       \* socketsRef.current: order -> socket
    conn,          \* of each live socket: its order and readyState
    closing,       \* of each order: its closed sockets whose onclose has yet to run
    loads,         \* GET /api/orders, in the order they were sent
    post,          \* of each order: where its POST is
    owner,         \* of each order: the user who clicked
    breaks         \* connections that broke

listVars == <<list, queued>>
socketVars == <<sockets, conn, closing>>
requestVars == <<loads, post, owner>>
pageVars == <<user, listVars, shown, socketVars, requestVars, breaks>>

Orders == 1 .. MaxOrders       \* in the order of the clicks
Entry(o, status) == [id |-> o, status |-> status]
Ids(entries) == {entries[i].id : i \in DOMAIN entries}
Over == [order |-> None, state |-> "over"]
NoSockets == [o \in Orders |-> None]

(* Requests under way.                                                       *)
Waiting ==
    Cardinality({k \in DOMAIN loads : loads[k].phase # "done"})
    + Cardinality({o \in Orders : post[o] \in {"sent", "created"}})

Upsets == Len(loads) - 1 + breaks

(* loadOrders(uid), up to its await.                                         *)
Load(uid) == [user |-> uid, phase |-> "sent", orders |-> {}]

(* The first render has run both effects.                                    *)
PageInit ==
    /\ user = FirstUser
    /\ list = <<>>
    /\ shown = <<>>
    /\ queued = FALSE
    /\ sockets = NoSockets
    /\ conn = [s \in Sockets |-> Over]
    /\ closing = [o \in Orders |-> 0]
    /\ loads = <<Load(FirstUser)>>
    /\ post = [o \in Orders |-> "none"]
    /\ owner = [o \in Orders |-> None]
    /\ breaks = 0

-----------------------------------------------------------------------------
(* The effects.                                                              *)

Mapped(map) == {map[o] : o \in Orders} \ {None}

(* Sockets the effect closes: their order has left the list.  The test of    *)
(* readyState beside it finds nothing: the server starts no closing          *)
(* handshake, what the page closes it deletes at once, and a socket becomes  *)
(* CLOSED in the task that runs its onclose, which deletes the entry.        *)
Dropped(entries, map) ==
    {map[o] : o \in {p \in Orders \ Ids(entries) : map[p] # None}}

(* Mutant of Unwatched: the effect does not look an order up in the map.     *)
Unwatched_All(entries, map) == Ids(entries)

(* Orders the effect opens a socket for.                                     *)
Unwatched(entries, map) == {o \in Ids(entries) : map[o] = None}

Free == {s \in Sockets : conn[s] = Over}

(* The effect on [orders, userId], after the sockets `closed` were closed    *)
(* and `map` is what was left of socketsRef: it closes what is not in        *)
(* `entries` and opens what is missing.                                      *)
Effect(entries, map, closed) ==
    LET opened == Unwatched(entries, map)
        fresh == CHOOSE f \in Injection(opened, Free) : TRUE
        gone == closed \cup Dropped(entries, map)
    IN /\ Cardinality(opened) <= Cardinality(Free)
       /\ sockets' = [o \in Orders |-> IF o \in opened THEN fresh[o]
                                       ELSE IF o \in Ids(entries) THEN map[o] ELSE None]
       /\ conn' = [s \in Sockets |->
             IF s \in gone THEN Over
             ELSE IF \E o \in opened : fresh[o] = s
             THEN [order |-> CHOOSE o \in opened : fresh[o] = s, state |-> "connecting"]
             ELSE conn[s]]
       /\ closing' = [o \in Orders |-> closing[o] + Cardinality({s \in gone : conn[s].order = o})]

(* A queued update is rendered; the effect runs.                             *)
Render ==
    /\ queued
    /\ queued' = FALSE
    /\ shown' = list
    /\ Effect(list, sockets, {})
    /\ UNCHANGED <<user, list, requestVars, breaks>>

(* A key in the user field: closeAllSockets(), loadOrders(), and the effect  *)
(* opens sockets for the orders that are still shown.                        *)
EditUser(u) ==
    /\ u # user
    /\ Waiting <= MaxWaiting
    /\ Upsets < MaxUpsets
    /\ user' = u
    /\ loads' = Append(loads, Load(u))
    /\ Effect(shown, NoSockets, Mapped(sockets))
    /\ UNCHANGED <<listVars, shown, post, owner, breaks>>

-----------------------------------------------------------------------------
(* GET /api/orders.                                                          *)

(* The service reads the list.                                               *)
LoadReads(k, orders) ==
    /\ loads[k].phase = "sent"
    /\ loads' = [loads EXCEPT ![k].phase = "read", ![k].orders = orders]
    /\ UNCHANGED <<user, listVars, shown, socketVars, post, owner, breaks>>

(* Mutant of Loaded: the answer is added to what is there.                   *)
Loaded_Added(orders) == list \o SetToSeq({Entry(o, "NEW") : o \in orders})

(* setOrders(data); the service answers NEW for every order.                 *)
Loaded(orders) == SetToSeq({Entry(o, "NEW") : o \in orders})

LoadArrives(k) ==
    /\ loads[k].phase = "read"
    /\ loads' = [loads EXCEPT ![k] = [@ EXCEPT !.phase = "done", !.orders = {}]]
    /\ list' = Loaded(loads[k].orders)
    /\ queued' = TRUE
    /\ UNCHANGED <<user, shown, socketVars, post, owner, breaks>>

(* An error status or none, whether the list was read or not.                *)
LoadFails(k) ==
    /\ loads[k].phase = "sent"
    /\ loads' = [loads EXCEPT ![k].phase = "done"]
    /\ UNCHANGED <<user, listVars, shown, socketVars, post, owner, breaks>>

-----------------------------------------------------------------------------
(* createOrder.                                                              *)

(* The button; it stays enabled while other POSTs are under way.             *)
Click(o) ==
    /\ Waiting <= MaxWaiting
    /\ \A p \in 1 .. o : post[p] = "none" <=> p = o
    /\ post' = [post EXCEPT ![o] = "sent"]
    /\ owner' = [owner EXCEPT ![o] = user]
    /\ UNCHANGED <<user, listVars, shown, socketVars, loads, breaks>>

(* The service answers 201.                                                  *)
PostAnswered(o) ==
    /\ post[o] = "sent"
    /\ post' = [post EXCEPT ![o] = "created"]
    /\ UNCHANGED <<user, listVars, shown, socketVars, loads, owner, breaks>>

(* setOrders(prev => [created, ...prev]), whoever the user is by now.        *)
PostArrives(o) ==
    /\ post[o] = "created"
    /\ post' = [post EXCEPT ![o] = "done"]
    /\ list' = <<Entry(o, "NEW")>> \o list
    /\ queued' = TRUE
    /\ UNCHANGED <<user, shown, socketVars, loads, owner, breaks>>

(* An error status or none, whether the order was placed or not.             *)
PostFails(o) ==
    /\ post[o] = "sent"
    /\ post' = [post EXCEPT ![o] = "failed"]
    /\ UNCHANGED <<user, listVars, shown, socketVars, loads, owner, breaks>>

-----------------------------------------------------------------------------
(* WebSockets.                                                               *)

(* onopen: the subscription goes out; nothing comes before it is read.       *)
Opens(s) ==
    /\ conn[s].state = "connecting"
    /\ conn' = [conn EXCEPT ![s].state = "open"]
    /\ UNCHANGED <<user, listVars, shown, sockets, closing, requestVars, breaks>>

(* Mutant of Updated: every order of the list takes the status.              *)
Updated_All(o, status) == [i \in DOMAIN list |-> [list[i] EXCEPT !.status = status]]

(* Mutant of Updated: only the first entry of the order is found.            *)
Updated_First(o, status) ==
    LET found == {i \in DOMAIN list : list[i].id = o}
    IN  [i \in DOMAIN list |-> IF found # {} /\ i = Min(found)
                               THEN [list[i] EXCEPT !.status = status] ELSE list[i]]

Updated(o, status) ==
    [i \in DOMAIN list |-> IF list[i].id = o THEN [list[i] EXCEPT !.status = status] ELSE list[i]]

(* onmessage, with an order_update; the order is the one in the message.     *)
MessageArrives(s, o, status) ==
    /\ conn[s].state = "open"
    /\ list' = Updated(o, status)
    /\ queued' = TRUE
    /\ UNCHANGED <<user, shown, socketVars, requestVars, breaks>>

(* Mutant of Unmapped: the map is left alone.                                *)
Unmapped_Not(o) == sockets

(* onclose: the entry of the socket's order goes, whatever socket it holds.  *)
Unmapped(o) == [sockets EXCEPT ![o] = None]

(* The close event of a socket the page closed.                              *)
Closes(o) ==
    /\ closing[o] > 0
    /\ closing' = [closing EXCEPT ![o] = @ - 1]
    /\ sockets' = Unmapped(o)
    /\ UNCHANGED <<user, listVars, shown, conn, requestVars, breaks>>

(* The connection fails, or cannot be made; nothing opens another one.       *)
Breaks(s) ==
    /\ conn[s] # Over
    /\ Upsets < MaxUpsets
    /\ breaks' = breaks + 1
    /\ conn' = [conn EXCEPT ![s] = Over]
    /\ sockets' = Unmapped(conn[s].order)
    /\ UNCHANGED <<user, listVars, shown, closing, requestVars>>
=============================================================================
