------------------------------- MODULE MCShop -------------------------------
(* Instances of Shop for TLC. *)
EXTENDS Shop

CONSTANTS u1, u2
=============================================================================
