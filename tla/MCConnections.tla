----------------------------- MODULE MCConnections -----------------------------
(* Connections for TLC: two sockets of one station and one of another, with   *)
(* room for two connections, so that a stale socket can be replaced as well   *)
(* as meet the limit of the tenant.                                           *)
EXTENDS Connections

CONSTANTS a, b, a1, a2, b1

MCStationOf == [k \in {a1, a2, b1} |-> IF k = b1 THEN b ELSE a]
===============================================================================
