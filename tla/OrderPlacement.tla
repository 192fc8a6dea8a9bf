--------------------------- MODULE OrderPlacement ---------------------------
(***************************************************************************)
(* What the orders service promises, without connections, threads,         *)
(* transactions or retries: an order is placed at most once and for good,  *)
(* a client is told 201 only about a placed order, and a payment is        *)
(* requested only for a placed order.                                      *)
(***************************************************************************)
CONSTANT Requests      \* orders clients ask for

VARIABLES
    placed,        \* orders on record
    confirmed,     \* orders whose client was told 201
    requested      \* orders a payment request went out for

placementVars == <<placed, confirmed, requested>>

PlacementInit ==
    /\ placed = {}
    /\ confirmed = {}
    /\ requested = {}

Place(r) ==
    /\ r \notin placed
    /\ placed' = placed \cup {r}
    /\ UNCHANGED <<confirmed, requested>>

Confirm(r) ==
    /\ r \in placed \ confirmed
    /\ confirmed' = confirmed \cup {r}
    /\ UNCHANGED <<placed, requested>>

RequestPayment(r) ==
    /\ r \in placed \ requested
    /\ requested' = requested \cup {r}
    /\ UNCHANGED <<placed, confirmed>>

PlacementNext ==
    \E r \in Requests : Place(r) \/ Confirm(r) \/ RequestPayment(r)

PlacementSpec == PlacementInit /\ [][PlacementNext]_placementVars
=============================================================================
