------------------------- MODULE MCPaymentsService -------------------------
(* Instances of PaymentsService for TLC: two copies of one order's request, *)
(* deposits that do not fit the column together, openings of one account.   *)
EXTENDS PaymentsService, TLC

CONSTANTS u1, o1, m1, copy1, d1, d2, c1, c2, g1

MCRequest(m) == [order |-> o1, user |-> u1, amount |-> 1]

MCDeposit(d) == [user |-> u1, amount |-> 2]

MCOwner(c) == u1

(* Bound: no step is taken after a thread has ended another one's           *)
(* transaction; and the second deposit, the second opening and the reader   *)
(* come only where no message does.                                         *)
UntilRaced ==
    /\ ~raced
    /\ (\A m \in Messages : mq[m] = "queued") \/ (\A t \in {d2, c2, g1} : pc[t] = "idle")
=============================================================================
