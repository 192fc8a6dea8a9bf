------------------------ MODULE MCWebSocketNotifier ------------------------
(* Instances of WebSocketNotifier for TLC: which orders the results name,   *)
(* and how often each client asks.                                          *)
EXTENDS WebSocketNotifier

CONSTANTS s1, s2, o1, o2

MCOneResult == <<o1>>
MCResultsAgain == <<o1, o2, o1>>

MCOneRequest == [s \in Sessions |-> 1]
MCThreeRequests == [s \in Sessions |-> 3]
=============================================================================
