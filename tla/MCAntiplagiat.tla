--------------------------- MODULE MCAntiplagiat ---------------------------
(* Instances of Antiplagiat for TLC: u1 and u3 are one student's, u3 with   *)
(* another content under the same name; u2 is another student's copy of u1. *)
EXTENDS Antiplagiat

CONSTANTS u1, u2, u3, r1, a1

MCStudent == [u \in Uploads |-> IF u = u2 THEN "petrov" ELSE "ivanov"]
MCContent == [u \in Uploads |-> IF u = u3 THEN "other" ELSE "essay"]
MCName == [u \in Uploads |-> IF u = u2 THEN "petrov_essay" ELSE "ivanov_essay"]

(* Bound: the reader and the analysis, which share no connection and no      *)
(* file, are not both sent.                                                  *)
OneAsks == pc[r1] = "idle" \/ pc[a1] = "idle"
=============================================================================
