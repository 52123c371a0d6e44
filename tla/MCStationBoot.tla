---------------------------- MODULE MCStationBoot ----------------------------
(* StationBoot for TLC: two handlers, so that the boots of a station overlap. *)
EXTENDS StationBoot

CONSTANTS h1, h2
===============================================================================
