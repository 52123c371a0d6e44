---------------------------- MODULE MCStationCalls ----------------------------
(* StationCalls for TLC: two handlers, so that two lookups overlap, and one   *)
(* call more than handlers, so that one is requeued.                          *)
EXTENDS StationCalls

CONSTANTS c1, c2, c3, r1
===============================================================================
