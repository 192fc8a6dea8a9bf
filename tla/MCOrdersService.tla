-------------------------- MODULE MCOrdersService --------------------------
(* Instances of OrdersService for TLC.  r1 and r2 are ordinary orders, big  *)
(* is one whose amount does not fit its column, g1 a reader.                *)
EXTENDS OrdersService

CONSTANTS r1, r2, big, g1
=============================================================================
