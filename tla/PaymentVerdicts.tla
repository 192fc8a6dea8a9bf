--------------------------- MODULE PaymentVerdicts ---------------------------
(***************************************************************************)
(* What the payments service promises, without connections, transactions,  *)
(* threads or restarts: an order gets one result and no other, the inbox   *)
(* row says the same as the result, and a result is announced only when it *)
(* is on record.  The promise ends when a thread ends the transaction of   *)
(* another one; `trusted` is FALSE from then on.                           *)
(***************************************************************************)
CONSTANT Answers       \* [request, order, success] of the results it can give

Judged == {a.order : a \in Answers}

VARIABLES
    trusted,       \* no thread has ended another one's transaction
    row,           \* status of each order's inbox row, "none" without one
    results,       \* results on record
    announced      \* results that went out on payment.results

verdictVars == <<trusted, row, results, announced>>

VerdictsInit ==
    /\ trusted = TRUE
    /\ row = [o \in Judged |-> "none"]
    /\ results = {}
    /\ announced = {}

(* handle_payment_request commits the row and the result together.           *)
Decide(a) ==
    /\ row[a.order] = "none"
    /\ \A b \in results : b.order # a.order
    /\ row' = [row EXCEPT ![a.order] = IF a.success THEN "PROCESSED" ELSE "FAILED"]
    /\ results' = results \cup {a}
    /\ UNCHANGED announced

Announce(a) ==
    /\ a \in results \ announced
    /\ announced' = announced \cup {a}
    /\ UNCHANGED <<row, results>>

VerdictsNext ==
    \/ trusted /\ trusted' /\ \E a \in Answers : Decide(a) \/ Announce(a)
    \/ ~trusted'

VerdictsSpec == VerdictsInit /\ [][VerdictsNext]_verdictVars
=============================================================================
